# A TLA+ model of AruXI

AruXI is a small computer in software: an emulator process (`ruemu`), a
processor (`iaru0`), a shell (`ash`), a kernel in assembly for the processor
(`kernel.s`) and an assembler (`arxsm`). The three processes talk through shared
memory and `SIGUSR1`. This directory holds the TLA+ specification of that
machine, the TLC configurations that check it on small instances, and proofs of
the properties that hold for every instance.

## 1. Inventory

| part | source | state | operations | talks to |
|---|---|---|---|---|
| signal memory | `shared/emSignal.c`, `headers/emSignal.h` | four signal pages (`interrupts`, `ackMask`, `intEnable`, a metadata union), one word `signalType`, PID words | `setX`, `ackX` | shared by all processes |
| signal heap | `shared/sigHeap.c` | one 4096-byte page of blocks, a free list by offset | `sinit`, `smalloc`, `sfree` | shell and emulator, without a lock |
| emulator | `emulator/emulator.c`, `backend-os.c`, `loader.c` | program point of `main` and of the handler, emulated memory | boot; load a program; dump core; forward a write; wait for the children | pokes shell and processor |
| processor | `emulator/cpu/cpu.c` | program point of `main` and of the handler | boot; EXEC; resume after SYS; shutdown | poked by shell and emulator |
| core | `emulator/cpu/core.c`, `hardware.c` | registers, `IDLE`, `status`, `runningCycles`, `userPS` | one cycle; fault; exception; halt; IO request | pokes emulator and shell |
| memory | `emulator/cpu/mem.c`, `imem` and `dmem` of `hardware.c` | the 4 GB of emulated memory | fetch; load; store, each with the permissions of the mode | called by the core; filled by loader and kernel set-up |
| kernel | `kernel/kernel.s` | `PS_PTR`, the process state, `KERN_HEAPTOP` | `_init`, `_usrSetup`, vector, write, exit and abort handlers | runs on the core |
| shell | `shell/shell.c`, `io.c`, `parser.c`, `environment.c` | program point of `main` and of the handler, environment | run a program; wait for it; print; exit; builtins | pokes emulator and processor |
| assembler | `assembler/*.c` | symbol table, data, section and instruction tables | parse, evaluate, encode, generate | a separate program; writes the object files that the loader reads |
| tests and tools | `testsuite/`, `tools/` | none | | |

What is hard here is the protocol: three processes and four threads of control
(plus three signal handlers) over memory without locks, a request word
(`signalType`) that all senders share, pokes that coalesce, acknowledge bits of
which some are cleared and some are not, a mutex that a signal handler takes, a
processor that can be stopped in the middle of anything by its cycle limit, and
processes that end without telling the others. Behind it lies an allocator that
two processes share. The assembler and the memory predicates are sequential;
their difficulty is in boundaries and widths, in the order in which a source
file uses, declares and defines its names, and in offsets that one part writes
and another one reads (assembler, core, loader).

What makes each part correct:

* signal memory and processes: nobody is poked before it can take it; a request
  is served once, by the process that it was meant for, and before its sender
  goes on; every wait ends.
* heap: blocks are disjoint and long enough; the free list is exactly the free
  blocks; nobody loses or gets a block twice; nobody uses it at the same time.
* core and kernel: a program starts at its beginning in its own image, continues
  behind its system call and nowhere else, and ends once.
* shell: the prompt is back only when the machine is at rest, with everything
  that the program wrote on the console, in order, and the right report.
* memory: a mode changes only what it may write and runs only code; an access is
  refused exactly where it leaves its section; what was stored is read back.
* assembler: each symbol has the value that its definition gives it whatever the
  order of definition and use; every offset in the object file points at the
  bytes that it names; the core decodes the operands of the source; each byte is
  loaded where its address says.

`PROJECT.json` lists every part with its status, and the hazards, each at its
line, with the properties that would catch it.

## 2. Modules

| module | models | extends |
|---|---|---|
| `EmSignal` | the shared memory, the operations on it, pending signals and the life of the processes | |
| `Emulator` | `ruemu`: boot, handler, `ruWrite`, `loadBinary`'s outcome | `EmSignal` |
| `Shell` | `ash`: boot, one command, handler, fault handler | `EmSignal` |
| `Core` | `runCore` with the kernel's code | `EmSignal` |
| `Cpu` | `iaru0`: boot, handler on either thread | `Core` |
| `Aru` | the composition, its fairness and its properties | `Emulator`, `Shell`, `Cpu` |
| `AruProofs` | theorems on the boot and on every number of commands; then on the first command, and on the heap in the second; `Aru` implements `Session` | `Aru`, TLAPS |
| `Session` | abstract: what the machine promises the person at the console | |
| `MCAru` | programs for TLC | `Aru` |
| `SigHeap` | the allocator, one step per loop iteration | |
| `SigHeapProofs` | theorems on the allocator: its blocks, its list and its search | `SigHeap`, `Recursion` |
| `Memory` | fetches, loads and stores in both modes, and the core's reaction to a refusal | |
| `MemoryProofs` | theorems on every memory map | `Memory`, TLAPS |
| `Evaluator` | expressions on words: precedence climbing, symbols, deferred texts; `Denotes`, the grammar they are checked against | |
| `Encoder` | operand fields: what `arxsm` accepts and writes, what the core reads | `Evaluator` |
| `ObjectFile` | payload and headers of the object file, the merged vector, loading | |
| `Assembler` | `arxsm`: both passes over one source file | `Encoder`, `ObjectFile` |
| `EvaluatorProofs` | theorem on the evaluator for every expression; lemmas on words and on the names looked up | `Evaluator`, `Recursion` |
| `AssemblerProofs` | theorems on the tables, values and fields of every source file | `Assembler`, `EvaluatorProofs` |
| `PlacementProofs` | theorems on the object file of every source file, its load, and the merged vector of every kernel | `AssemblerProofs` |
| `SymbolProofs` | theorems on the names of every source file and their values | `PlacementProofs` |
| `Recursion` | lemmas: least elements, induction over a set, recursive functions exist | TLAPS |
| `MCAssembler` | source files for TLC | `Assembler` |

A state of `Aru` is one value of every variable of the four component modules.
Every step is one step of one thread: `EmuStep`, `ShellAuto`, `PersonStep` (what
the user types), `CpuStep` (main thread of `iaru0` and its handler), `CoreStep`.
A handler runs on top of its main thread: while `emuH`, `shellH` or `cpuH` is not
`"none"`, the main thread does not move. Names of actions follow the functions:
`SetReady`, `AckLoad`, `WaitExit`, and so on; `PROJECT.json` maps each definition
to its lines. `Memory` and `Assembler` are specifications of their own: a fetch, load
or store is one step of `Memory`, and nobody else uses the memory while the core
runs; `arxsm` is another program and meets the machine only in the object file,
whose loading is part of `ObjectFile`. An operator whose comment begins with *Deviation* is not the code:
it is a plausible bug, used to see that a property notices it.

### Correspondence and abstractions

* **Granularity.** Between two accesses to shared state by one thread, other
  threads may run. `signalType` is written in one step, and the bit, the
  metadata and the `kill` that follow are one step: the code between them
  touches nothing that another process waits for, except where a bit itself
  publishes a request. The read-modify-write of one bit is one step.
* **Pokes.** `pending` is a set: standard signals coalesce. The receiver reads
  `signalType` when its handler runs, not when it was poked.
* **Handlers.** `redefineSignal` installs an empty mask, so the kernel blocks the
  same signal while its handler runs on a thread. A poke for `iaru0` that arrives
  then is delivered to the core thread (`CoreSignal`), which may hold `idleLock`.
* **Metadata union.** `unionTag` says which member was written last. Reading the
  other member gives bytes of no meaning: `LoadCrash` and the `ELSE` of
  `PrintWrite` are the outcomes, chosen nondeterministically where the code frees
  them as pointers.
* **Programs** are sequences over eight kinds of instructions, one for each thing
  that the protocol can see: nothing, a loop, a write, an exit, an unknown
  system call, an illegal access, an invalid opcode, a division by zero.
* **Cycles.** One step of the core runs a stretch of kernel code or one user
  instruction, and counts as one cycle. `CycleLimit` therefore stands for a
  number of stretches, not for the 500 of the code; every interleaving of a cut
  with the protocol is reached with a small one.
* **Idle loop.** The core thread locks and unlocks `idleLock` while it is idle; in
  the model it does nothing, and `LockFree` is true. That a waiting handler gets
  the lock in between is assumed (the mutex is taken to be fair).
* **Shell builtins** change only the shell's own environment and are no steps.
* **Heap in `Aru`.** `smalloc` is a choice from `HeapOutcomes`; `SigHeap` says
  what it does. The session and again runs assume `{"ok"}`. That is an
  assumption about the use of the heap: the `heap_find` run shows that the
  search can fail to return.
* **`PromptResume`** is a timing assumption: between the handler's resuming the core
  and its return the core begins no cycle (`MayCycle`). It restricts nothing else:
  pokes arrive at any time, and one that finds the main thread in its handler runs
  on the core thread (`CoreSignal`) with the assumption as without. Nothing in the
  code enforces it. Runs that need it say so; the `fall_through` run shows what
  happens without it.
* **Division by zero** raises SIGFPE, as it does on x86; in the assembler, which
  installs no handler, it is the outcome `crash`.

Memory:

* **Addresses and bytes.** The boundaries of `mem.h` are constants in their
  order, `LayoutAssumption`; limits that are inclusive there are the start of
  what follows here. A stored word is a token `d`, its byte `k` is `<<d, k>>`:
  every byte says where it came from. An access has any address, width and mode;
  the code that computes the address is not modelled.
* **Outside the mapping.** `_memRead` takes its highest byte from `addr + 3`
  before it tests anything but the start. For the last three addresses that is
  behind the mapping: the process is killed, or some byte is read.
* **Refusals.** In kernel mode the machine stops (`fault`); in user mode the core
  goes to the exception vector. A store that is refused at a boundary has
  written the bytes in front of it. `core.c` lets an aborted load of the user
  write back what it has (lines 535–538); registers are not modelled.

Assembler:

* **Lines** are records: what is left of a line when it has been split and its
  directive, registers and number of operands recognised. Each error found in
  that ends the assembler at once and leaves no file. Instructions are of the
  kinds that differ in their operand: an immediate, an offset, the two kinds of
  branches, `ld`, and all others, which have none (`plain`).
* **Outcomes.** `written`, `fatal` (an error message and exit) and `crash` (killed
  by a signal, or a loop without end).
* **Words** have `WordBits` bits and wrap; the fields of an instruction are
  constants too, in the relations that the code has (`FieldsAssumption`): two shares
  and a rest make a word, a branch has room for the two bits that it leaves out (19
  + 2 and 24 + 2 bits of 32 there), one of the bits that are tested (14, 15, 19, 24
  to 27) is not below the sign of an offset (8).
* **Freed text.** A `.set` that cannot be evaluated yet keeps a pointer into its
  line, which is freed. From then on the text may be any other one: `Reuse`
  replaces it by one of `Garbage` at any time, or never.
* **A label over such a symbol** leaves the flag of an expression and overwrites
  the pointer: reading it is `BadPointer`, fatal.
* **Bytes** of the file are named by where they come from, `<<section, item,
  byte>>`, so that "the right byte at the right place" can be said; what malloc
  left is `Junk`.
* **`fixInstrs`** only classifies instructions by their operands, which the kind
  of a line says already.
* **Calls of the evaluator.** `parse`, `_eval` and the loop of `_eval` are three
  operators; a call of one is a record, and a table of all calls, `callee`, gives the result of
  those that it makes itself. `Evaluation` builds that table `MaxCalls` deep: a call for
  which no room is left ends the process, as a full stack does. That is how a `.set`
  ends that means itself; no other expression of the instance is near the bound.
* **A negative `.zero`** is an item of negative size without data: `calloc` refuses it,
  and the location pointer goes back. In the second pass `malloc` refuses as well
  and the process dies, or it lives and the item is copied without end.
* **`Denotes`** is the reference for the evaluator: the set of values of a token
  sequence by the grammar: it splits the sequence at the operator that is applied
  last instead of reading it from the left. It is empty for what is no expression.

## 3. Runs

All runs finish in about a minute or less on two cores.

| run | instance | shows |
|---|---|---|
| `session` | one command per boot, seven programs, fair threads, heap works, prompt handler | safety at the prompt, every wait ends, and `Aru` implements `Session` |
| `chaos` | one command, eight programs, everything may fail, handlers of any speed | types, boot order, pokes and heap mapping hold under all of it |
| `again` | two commands per boot | the unlocked heap is never used by two processes at once |
| `heap` | a page of 144 bytes, requests of 5, 20 and 40 bytes | the allocator's data structure and its result |
| `memory` | 16 regions and gaps of 4 bytes, two accesses of any kind at any address, any changes of mode | permissions and their boundaries, byte order, what a refusal leaves |
| `assemble` | 10065 source files on words of 16 bits | from the lines to the bytes in memory |
| `stale_load` | two commands, expects a violation of `RightImage` | the second command enters the first program |
| `fall_through` | one command, any handler speed, violates `ResumePoint` | a program is resumed behind its end |
| `stale_dump` | two aborts, violates `ErrorHasDump` | the second report precedes its dump |
| `user_mode` | three commands, violates `ExecFromKernel` | a command is started in user mode |
| `spin` | one command, fair, violates `RunReturns` | the shell never returns from a program without system calls |
| `heap_find` | violates `FindReturns` | the search of the free list does not end |

Properties of `Aru`:

* `PromptQuiet` — when the prompt is back, the core is idle, no handler runs
  and no poke is under way.
* `NoSelfDeadlock` — the core thread never waits for the lock it holds, which it
  would if the handler ran on it during a cycle: by its own `raise`, or by a poke
  while the main thread is in its handler. Both are steps of the model. What
  excludes the second is that nobody pokes a handler that is still running; the
  mutant, a second poke for the same write, deadlocks. With `PromptResume = FALSE`
  TLC finds the deadlock in the same instance by the first: the core overtakes the
  handler that has resumed it and asks for a write, the fall-through resumes it
  before that is served, it goes on to an illegal access and raises the fault, and
  the emulator, which still serves the write, puts its own page into `signalType`
  before the core's handler reads it.
* `ErrorHasDump` — a reported fault has its core dump.
* `RightImage` — the kernel enters the program that was asked for.
* `ResumePoint` — an idle core is resumed at a program's set-up or behind the
  write that is now on the console.
* `SessionSpec` — refinement of `Session`: phase from the shell's program point,
  the rest from its variables of the same meaning. `Session` knows nothing of
  the processes: it defines which places a run of the program reaches, by which
  instruction it ends, and which writes are still to come. It says that each
  step shows the next write that the run reaches, and that the prompt is back
  only when none is left, with the report that the end of the run calls for.
* `BootCompletes`, `RunReturns`, `ShutdownCompletes`, `FaultEndsAll` — liveness.
* `BootOrder`, `KernelFirst`, `PokesArmed`, `HeapKept` — the prompt only when
  every process handles pokes and the kernel has run and left the core idle; no
  poke to a process that would die of it, or with PIDs still −1; no process
  resets the heap's free list after somebody allocated.
* `HeapExclusive` — the shell and the emulator are never both inside a heap
  operation.

Properties of `Memory` (137 469 states):

* `WriteContained` — a step changes only bytes that its mode may write.
* `StoreVerdict` — a store succeeds iff it lies within one writable section. One
  exception, which the property names: a wide store that ends with the last byte
  of the kernel's heap is refused, because `KERN_STACK - 1` is in the list of
  crossings.
* `LoadVerdict` — a load that succeeds takes each byte from where its mode may
  read, except that off a word boundary the highest byte is untested; on a
  boundary the verdict on a word is exact.
* `FetchIsCode` — what is fetched from a word boundary and accepted is code of
  the mode, and nothing has changed it. `validUIMemAddr` does not compare with the
  start of the system libraries; `_memRead`, which is called next, does.
* `WordReadBack` — a word stored whole is read back as it was, in either mode.

Properties of `Assembler` (about 161 000 states). The exact condition under which the
code deviates from what one would expect is part of each property, so that both
sides are checked:

* `ItemsAdjoin` — the items of a section adjoin, and have room for their values.
* `SymbolsMean` — a label has the address of its last definition, counted over
  the lines before it; a `.set` of known names has its meaning at that line. Both
  are claimed of a source in which every length of a `.zero` or `.fill` is known at its
  line and stays what it is (no name of it is defined again or comes later, a `.fill`
  has none, since it is evaluated without the table), and no `ld` takes the short form,
  which moves nothing behind it.
* `Linkage` — in whatever order a name is used, declared and defined, it has one
  entry with the flags and the section of its declarations. A `.set` that
  mentions its own name makes a second entry; a symbol that has been in the
  vector keeps that bit of its section.
* `DataMean` — data in the file are the values of their expressions if no bit lies
  behind the bytes that are kept; else they are the lower bytes, since `assembler.c`
  stores `(uint8_t) value` and `(uint16_t) value`. The test in front of that, whose
  message says that a value "exceeds allowed size", looks at one byte only: it keeps
  out of the file the values with a bit in the byte just behind, and no others
  (`.byte 0x10000` is 0 in the file).
* `LdExact` — executing the instructions of a long `ld` leaves the value in the
  register, unless that register is `c0`, which they use themselves. Passed over
  are an instruction at address 0, which encoding takes for an empty entry, and
  a value that does not last: one of its names is defined again, or is a `.set` that
  was deferred before the `ld` and whose freed text may have become any other.
* `OperandsDecoded` — what the core reads in a field is the operand: an offset
  always (negative ones are all refused, since the tests of the size fall
  through), an immediate unless a bit that no test looks at is set, conditional
  branches if they go forward, `ub` and `call` within the 21 bits that the shifts
  of `nextIR` keep.
* `FileExact` — every header leads to the bytes of its section; behind a `.bss`,
  which the headers count, the text is off by its size.
* `VectorExact` — the vector is written as assembled, under the conditions of
  `VectorWhole`: it has instructions, ends with an item, and no item is close
  behind a long `ld`, whose last instruction is recorded 20 bytes too far.
* `LoadedExact` — every instruction is loaded at its address, and in the kernel
  the data; data and constants of a program never are, because `loadBinary`
  copies them to the start of the text.
* `CrashCause` — the assembler is killed only by a quotient, an expression too long
  for the stack, a deferred `.set`, a `.fill` whose length has a name (it is evaluated
  without a symbol table) or is not positive, a `.zero` of negative length, items of a
  vector that has no instruction, or an instruction at address 0 like the markers.

**Bounds and why they are enough.** One command is enough for everything within
a boot, and the refinement is about each command by itself. Two commands are
where bits of the first one are stale. A third command meets the same stale
bits as the second; it is used only where the state needs two earlier commands
to arise. The programs contain each kind of instruction, first and behind a
write, and two writes in a row; `MaxConsole` of the session is above the number
of writes of each. `CycleLimit` 9 lets the terminating programs end and cuts the looping
one; 5 cuts programs in every place. In the heap a page of 144 bytes holds up to
four blocks, and the sizes cover an exact fit, a rest that is too small to split
and one that is not.

In `memory` four bytes for each region make every access meet at most one
boundary, as in the code, and reach every boundary with every width and
alignment. Two accesses are one that stores and one that looks at it.

In `assemble` the files are built in themes, each exhaustive in what it is
about: `NameFiles` (names used, declared, set and labelled in every order, up to
three lines around the entry point), `LateFiles` (meanings that change behind their
use, and instructions at address 0), `ExprFiles` (all pairs of operators with
signs and parentheses, and what is no expression), `LayoutFiles` (all sections and
data directives in every order up to three lines), `OperandFiles` (operands at both
edges of each field and of each bit that is or is not tested, `ld` of values known
and unknown), `VectorFiles` (a vector of up to four lines, before or behind the
text, or without end). Words of 16 bits keep the proportions of the code: an
immediate of 7 bits twice and a rest of 2 make a word (14, 14 and 4 there),
offsets 5 bits, branches 5 and 6 bits of which 4 survive.

**Fairness.** Weak fairness of each thread separately: the operating system runs
every runnable thread, and all waits of the code are spins or blocking calls that
become and stay enabled. `PersonStep` has none: nobody must type. In `SigHeap` a
process inside `smalloc` or `sfree` goes on; nobody must call them.
`Memory` and `Assembler` state no liveness. In those of the machine
`CHECK_DEADLOCK` is off because the machine ends (all processes dead), may wait
for a user for ever, and, in the failing instances, really does hang. In `memory`
it is off because the number of accesses is bounded. In `assemble` it is on: the
only states without a further step are the ends of the program, where `Exited`
loops.

**What holds only for one command.** With two commands `PromptQuiet`,
`NoSelfDeadlock`, `RightImage`, `ResumePoint` and `ErrorHasDump` fail, all as a
consequence of acknowledge bits that are never cleared; `stale_load` and
`stale_dump` show two of the traces, and the remaining ones follow from the
first. `HeapExclusive` needs `PromptResume`.

## 4. Proofs

`SigHeapProofs` proves, for every `PageSize` of at least two headers and every set
of positive `Requests`:

* `HeapTypeCorrect` (`Spec => []TypeOK`): in particular every offset followed is
  the offset of a header;
* `HeapDisjoint` (`Spec => []Disjoint`): blocks stay in the page and do not
  overlap;
* `HeapLiveFits` (`Spec => []LiveFits`): a block handed out is marked allocated
  and long enough until its owner frees it;
* `HeapInvariant`, from which they follow.

`Disjoint` and `TypeOK` are not inductive: splitting a block needs that the block
is free, that its predecessor exists and is unique, and that nobody else points
to it. The inductive invariant `IInv` adds

* `ListInv`: the next offset is a one-to-one map from `START` and the free blocks
  onto the free blocks and the end; behind the first block it ascends, which
  excludes cycles (`sfree` never inserts in front of the first block, so the
  first block itself may lie anywhere);
* `LoopInv`: in `findBlock` the best block is free and fits, in `sfree` the block
  being freed is allocated by its flags and not on the list, and the current
  block is on it and, except for the first one, below the freed block.

The proof has one lemma per action; arithmetic of `Align` (it rounds up to a
multiple of 8 by less than 8) is a lemma of its own. `IInv` is TLC-checked too.

It also proves, from the same assumptions, what is true of the list as
a whole:

* `NullOnlyWhenFull` (`Spec => []NullMeansFull`): `findBlock` returns NULL only when
  nothing at all is free;
* `FoundIsBest` (`Spec => []BestFit`): the block that it returns is a smallest one of
  those that are large enough, although the scan goes on behind the best block;
* `ListReachesFree` (`Spec => []FreeListExact`): the next offsets reach from `START`
  the free blocks, all of them and nothing else.

The first two need what the scan has passed: `ScanIInv` adds to `IInv` that no
block passed is both large enough and smaller than the best one (`ScanInv`), and
that no block lies below the header of `START` (`LowInv`). The third is about every point
of a list and so needs induction over numbers. The library states it for an
operator, which the provers cannot instantiate; here it is stated for a set: by
`NatLessThanWellFounded` and `WFMin` of `WellFoundedInduction` every nonempty set of
naturals has a least element (`LeastElement`), so a set that has 0 and with each
number its successor has all (`Induction`). From that it follows that the
recursive function `Reached` of the model exists (`Recursion` has these lemmas for
every recursive function on the naturals, `RecursionExists`), and that after
n steps it has every block below 16 (n + 1) (`ReachedFar`): a block is at least a
header behind its predecessor.

The first part of `AruProofs` proves, from the named assumptions on the constants only (for every
set of programs and their code, every cycle limit, every behaviour of the heap,
any number of commands and handlers of any speed):

* `TypeCorrect` (`Spec => []TypeOK`);
* `BootOrdered` (`Spec => []BootOrder`);
* `KernelRunsFirst`, `PokesReachArmed` and `HeapMappedFirst`: the action
  properties `KernelFirst`, `PokesArmed` and `HeapKept`.

`TypeOK` is not inductive: a load names a program only if the union holds a load,
an exec request needs an entry point in the metadata, and behind a write the next
instruction exists. `TInv` adds these three facts. The others follow from `BInv`,
which says that the machine is in one of two phases. `Booting`, before the prompt:
what each process has done by each program point of its boot (`EmuOrder`,
`ChildOrder`), that nobody pokes, handles a poke or allocates (`BootQuiet`), and
the three places where the core can be (`CoreBoot`). `Booted`, from the prompt on:
PIDs stored, everybody armed or dead, READY set, all boots over. The first phase
is left only by the shell behind the kernel's acknowledge (`BootingStep`), the
second never (`BootedStep`). One lemma per phase and thread has one step per
action. TLC checked `TInv` and `BInv` on the instance of `chaos`.

The second part of `AruProofs` proves what happens from the prompt on, for every set of
programs and codes, every cycle limit, every behaviour of the heap (it may fail,
hang or crash), of the loader and of the dump file:

| theorem | statement | needs |
|---|---|---|
| `LockNotHeldTwice` | `[](runs <= 1 => NoSelfDeadlock)` | `PromptResume` |
| `QuietAtPrompt` | `[](runs <= 1 => PromptQuiet)` | `PromptResume` |
| `FaultIsDumped` | `[](runs <= 1 => ErrorHasDump)` | `PromptResume` |
| `OneInHeap` | `[](runs <= 1 => HeapExclusive)` | |
| `OneInHeapAgain` | `[]HeapExclusive` | `PromptResume`, `MaxRuns <= 2` |
| `FirstImageRight` | `RightImage` | `PromptResume`, `MaxRuns <= 1` |
| `FirstResumesRight` | `ResumePoint` | the same, `ConsoleKept` |
| `FirstExecFromKernel` | `ExecFromKernel` | `PromptResume`, `MaxRuns <= 1` |

`runs <= 1` bounds the state and not the constant: the boot, the first command and
the prompt behind it, of a machine that may be given any number of commands. The
bounds are the true ones: with more commands all of these properties are false
(`stale_load`, `stale_dump`, `user_mode`). `HeapExclusive` is the last to go: TLC
finds it violated in a third command, and without `PromptResume` in a second one.
`ConsoleKept` says that the model's console remembers as many writes as a program
has places. That a metadata word without a request is no write request
(`NoWriteAssumption`) is an assumption on the constants.

None of these invariants says enough to be inductive, because none says what the
other threads are about to do. `CInv` does: up to the end of the first command the
machine is in one of the phases `Fresh`, `Loading`, `Loaded`, `Starting`, `Running`,
`Asking` (a write: `Requested`, `TakenByEmu`, `PrintedByShell`, `PassedOn`,
`Resuming`), `Dumping`, `Ended` and `Doomed` (something has died), and each phase names
the one thread that moves, what lies in the shared words for it, and that all
others rest. There is one lemma for each phase, and in it one step for each thread
that could move. `HInv`, for `OneInHeap`, keeps less of it and so does without
`PromptResume`. `AInv`, for the second command, follows only who may be inside
the heap while stale acknowledge bits let the others run ahead.

The same module proves the refinement, `SessionImplemented` (`Spec => SessionSpec`),
for every set of programs and every code, from four assumptions:

* `OneCommand`: `PromptResume` and `MaxRuns <= 1`, as above;
* `ConsoleKept`, as above;
* `NothingFails`: the heap does not fail (it may hang) and a dump can be opened.
  Otherwise a request is dropped or a process dies, which `Session` does not
  promise to survive;
* `LimitLargeEnough`: `2 * MaxLen + 1 <= CycleLimit`, so that the limit only stops
  programs that loop. An instruction takes two cycles at most, one is spent
  before the program; the limit of the code is 500.

The instance of the run `session` satisfies them all. On top of `CInv` the proof
follows the core through the program (`Follows`): it is at a place that the run
reaches, all writes before that place are on the console and none behind it
(`ShownBefore`), the cycles counted are at most two for each place, a poke of the
shell is for the write at this place or for the death of the processor, and what
is reported is how the instruction at the place ends a run. Each step of `Aru` is
then a step of `Session` or leaves its four variables alone (`SessionStep`).

`MemoryProofs` proves, for every memory map in the order of `LayoutAssumption`
whose boundaries are multiples of four, so also for that of `mem.h`:

* `MemoryTypes` (`Spec => []TypeOK`);
* `StoresContained` (`Spec => WriteContained`), by the lemma that a store which is
  on a writable byte can leave the section only over an address that
  `WriteCrossing` lists, one case per section;
* `VerdictExact` (`Spec => []StoreVerdict`), both directions, with its exception;
* `CodeStays` (`Spec => []Fixed`) and from it `OnlyCodeRuns`
  (`Spec => []FetchIsCode`). `FetchIsCode` is not inductive: it needs that the
  bytes fetched have never been stored to. `Fixed` says so: what neither mode may
  write is as it was loaded. It follows from `StoresContained`.
* `LoadsReadable` (`Spec => []LoadVerdict`), with the byte that is not tested;
* `WordsReadBack` (`Spec => []WordReadBack`). A load need not come next behind the
  store, so it needs `InPlace`: until something else is stored, the four bytes of the
  last word that was stored whole are where it was stored, each in its place.

`EvaluatorProofs` proves that precedence climbing computes what the grammar says,
`EvaluatorIsRight`: for every sequence of tokens of any length, words of any width and
whatever the names stand for, if `Denotes` gives the sequence a value, the names that
the table knows have the values meant, and `Eval` ends with a value, then that value is
the only one that `Denotes` gives. The argument is induction over data, in the form
that the provers can follow: over sets. `Denotes` and `Evaluation` are recursive
functions; that they exist (`DenotesDefined`, `EvaluationUnfolded`) follows from
`RecursionExists`, over the length of the sequence and over the depth of calls. Then

* a part of a sequence is cut out by two positions, `ValueOf` is its meaning,
  and `OpsIn` are its operators outside parentheses at the depth of its beginning
  (`DepthShift`, `OpsShift`: both can be read off the whole sequence);
* a meaning splits at the operator that is applied last, also in every part that
  `loop` has read so far or hands to `_eval` (`LastOfPart`, `PartsHaveValues`, by
  `LengthInduction`);
* `AllRight` says of a table of calls what each one returns: `parse` the operand
  that begins at its token, if one does; `_eval` the part up to the first operator
  that does not bind tighter than its precedence; `loop`, given the value of what is
  behind it, the whole. One lemma for each of the three shows this for a table from
  that of the calls which it makes (`ParseFinds`, `EvalFinds`, `LoopFinds`), and
  errors are kept (`CallKeeps`). By induction it holds at every depth.

`EvaluatorFinds` is the other half: an expression with a meaning, all of whose names are
known, is evaluated to it, if the process has room for two calls a token. `AllEnd` says
which calls come back when there is room for `n` of them within one another: `parse` with
an operand of `m` tokens for `2m-1`, `_eval` with a part for `2m`, `loop` with `m` tokens to
go for `2m+1`. Each of the three makes its calls with at least one token less or as
a call of smaller need (`ParseSure`, `EvalSure`, `LoopSure`), so `CallSure` shows this for `n+1`
from `n`. A quotient that would end the process has no meaning (`NoneTraps`).

`EvaluatorEnds` needs no such room: an expression with a meaning and known names has its value,
unless the process ends while it is evaluated. More room changes no result of a call
that has come back (`MoreRoom`), so with enough of it `EvaluatorFinds` says what the
result was.

`AssemblerProofs` proves, for every set of source files of any length, every width
of words and fields and every start of the sections:

* `ItemsStayTogether` (`Spec => []ItemsAdjoin`). Its invariant `Inv` adds the shape
  of the tables and that the active section is one; one lemma per directive.
* `OneVector` (`Spec => []VectorOnce`): in the first pass the vector is open exactly
  while `.evt` is active, a program has none, and the second pass finds it closed
  in a kernel. What each line needs for it is the lemma `VectorLine`.
* `Typed` (`Spec => []TypeOK`): every table keeps its type through both passes. What
  makes it hard is that the tables hold what evaluations return, and that these follow
  the texts of other symbols, which may have become anything. `EvaluatorProofs` shows that `Eval`
  gives a word and looks up names whatever it is given (`EvalType`): first for words
  (`Words`, `BitByBitType`, `QuotientType`, `ShiftType`, from what `Pow2Defined`
  says of powers of two), then for one call, given the results of the calls it makes (`ParseType`,
  `LoopType`, `CallType`), then for tables of calls of any depth, by
  `RecursionExists`. The same lemma gives the types of `After`, `generateEVT` and the
  offsets of the sections; `FlattenType` that of the payload.
  `TypeOK` is not inductive. `TypeInv` adds `VectorInv`, that the markers of the vector
  have address 0, that the vector has a marker once it was opened (`generateEVT`
  starts at the first one), and that the loop over the symbols stays in the
  table while evaluations append to it.
* `DataIsMeant` (`Spec => []DataMean`): the values in the file are what their
  expressions mean, or the lower bytes of it, under the exact condition of `DataMean`
  (`LowBytesAre`). `EvaluatorIsRight` says this of an evaluation where no symbol
  is an expression (`EvalMeans`); so the invariant, `Progress`, follows the second pass:
  the symbols in front of the loop are settled while others may still become any
  text, no item has values before all of them are, and the values that an
  item has are kept of right ones that passed the test of their size, which then does not change any more. There is one
  lemma per action of the second pass and one for all lines (`MeansLines`).
* `OperandsAreDecoded` (`Spec => []OperandsDecoded`) from the same invariant, which
  adds that the fields of the instructions in front of the loop are right and have been
  accepted (`RightField`), those of the first instruction of a long `ld` too, which
  is replaced by a number while it is encoded (`HighRight`). What the core makes of
  such a field is arithmetic on words of any width: `SignedIs` (a field of `n` bits, read
  with its sign, is the number modulo 2^n), `WrapIs`, `BranchExact` (a multiple of four
  is at its distance from the branch, also around the end of memory) and
  `UpperBits` (a word without bits above `n` is below 2^n), from which
  `OffsetDecoded`, `ImmediateDecoded`, `ConditionalDecoded` and `JumpDecoded` follow, both
  directions of each condition.

`PlacementProofs` proves, of the same files, widths and starts,

* `Placed` (`Spec => []FileExact`). Where the bytes of a piece are in a concatenation of
  any number of pieces (`FlattenPlaces`) follows from how many are in front of each, by
  induction over a set. For data that is what `ItemsStayTogether` says of
  addresses. For the text it is how many instructions `generateText` copies, which
  goes by the markers: `Counts` counts both along the stream, `InTextCounts` says that
  this is the cardinality by which the model decides. The invariant `PlaceInv` says that the
  active section is the one that the source has at this line, that the vector's pointer
  is not in front of its start, that a file in the second pass has a text, and that
  the stream is laid out (`LaidOut`): each instruction of the text is outside of the
  vector and at the address that the number of instructions in front gives it,
  the location pointer is behind the last one. The second pass keeps all of it
  (`AlikeEncoded`), and `FileInv` that the file is the one that `Generate` made. The
  assumption `StartsAssumption` says that text and vector do not start at address 0,
  which marks the vector and the instructions of the ivt in the stream, and that the
  text of a program starts elsewhere than its data and constants, as in `mem.h`.
* `LoadedRight` (`Spec => [](Separate => LoadedExact)`). The bytes of a section are
  its own and in the order of their places (`ItemAt`, `PartAt`), so a header leads to
  a byte only at that byte's place in the file (`OnlyItsPlace`), and a copy of
  the section to a wrong base has none of the bytes where they belong; that is why a
  program has no data in memory. The loader does not look at the sizes of sections: in a
  kernel one that is too long is copied over the next. `Separate` excludes this, no
  more; it holds in every state of the run `assemble`.
* `VectorRight` (`Spec => []VectorExact`). What was assembled into the vector makes one
  row (`Row`): its instructions in their order and its items in theirs, mixed in some
  way, each piece where the one before it ends, from the start of the section to its
  location pointer; an instruction behind a long `ld` is recorded too far (`Ahead`). The
  invariant `RowInv` adds this to `PlaceInv`, with where the instructions are in the
  stream (`Around`: between the two markers and nowhere else) and that a vector
  with bytes is present; each line adds to the row or leaves it. `generateEVT`, which
  knows the addresses only, then takes the pieces in the order of the row:
  after `n` rounds it has written the first `n` pieces (`Merged`), because what is still
  to come is not in front of their end (`RowOrder`). Each condition of
  `VectorWhole` has its place in this argument: the loop stops when the items
  are over, so the last piece must be an item with bytes (`ItemLeft`), and the comparison
  of addresses can go wrong only where an item is at most 20 bytes in front of what
  was recorded too far (`MergeCode`). Empty items, and with them pieces at the same
  address, are covered.

`SymbolProofs` proves, of the same files, widths and starts,

* `NamesLinked` (`Spec => []Linkage`). `Said` is the account that the source gives of
  every name up to a line: its definitions, the section of the last one, its `.set`
  and `.glob` lines, those in the vector, and whether a `.set` mentions its own name.
  The invariant `LinkInv` adds to `PlaceInv` that table and account agree
  (`Linked`): what has been declared has an entry, an entry that is defined has a
  definition, and its flags and section are those of the account; unless a `.set`
  mentions the name itself, no entry in front has the same name. One
  lemma says what each change of the table leaves (`EntryChanged`, `EntryAdded`),
  one what a line adds to the account (`LabelSaid`, `LineSaid`), and `LineLinked`
  puts them together. What makes it hard is `.set`: it looks for its entry, then
  evaluates its text, which may enter names, and then adds an entry if it had
  found none. That the evaluation has not entered this very name is the point of the
  condition, and it is not enough that its text does not mention it: symbols in
  the text may be texts themselves, and a freed text may become any other.
  So `EvaluatorProofs` shows which names an evaluation looks up (`EvalLooks`):
  those that its own text makes it look up (`Looks`, what an evaluation that knows no
  name would look up), all of them unless the process ends there, and beyond
  these only such that the texts of symbols would. The last part of `Linked` is
  that these are all in the table: a deferred text was evaluated once when its `.set`
  was read. What replaces a freed text looks up nothing (`BadLooks`).
  `NoneAssumption` says that a missing label is not a name.
* `SymbolsAreMeant` (`Spec => []SymbolsMean`). A value is computed where its line is read,
  from what the table holds at that moment; the property speaks of the values in the
  file. So the invariant, `SymInv`, does not say what a name is worth but speaks of every
  assignment `W` of words to the names that is still possible (`Possible`: a name whose
  value is known, and which no later line defines, has this value in `W`). For each of
  them (`Means`), as far as the lines have been read: what is tame by `W` is
  known (`SetsFirm`), a label has the address counted by `W` (`LabelsMean`, or it
  has replaced a text, which then ends the process), a `.set` has its meaning by `W`
  (`SetsMean`), and the location pointers are where `W` says. In the end
  the values in the file are such a `W` (`FileValues`, `ValuesAgree`). What makes it
  inductive is that a line takes possibilities away and adds none (`LinePossible`).
  `KnownHere` says that a name which is tame has its value already
  when a line uses it, `SetHere`, `ZeroHere` and `FillHere` that the evaluation there
  gives what `W` gives, which is what `EvaluatorEnds` is for, and `LineMoves` by how
  much the line moves the pointers. Reusing a freed text and the second pass only
  change symbols that have a text (`Survives`).

* `CrashExplained` (`Spec => []CrashCause`). The property speaks of the source and of
  what the tables hold when the process ends; what the step evaluates that ends it has come
  a long way from there: operands are kept in items, instructions and symbols, and names
  in them lead to texts. The invariant `CalmInv` says that a source without a cause
  (`Calm`: no quotient, nothing too long, every `.set` tame whatever its names are
  worth) has left no text in the table, and in items and instructions only
  expressions from which the evaluator comes back (`Quiet`). That it does is `EvalBack`: a
  sequence of `m` tokens, with a meaning or without, known names or not, needs at most `2m+2`
  calls within one another, unless a symbol is a text. That a tame `.set` leaves a value and
  no text is what `SetHere` says for every assignment `W`, so `CalmInv` rests on `SymInv`.
  `Tame` itself is about the values of the moment; without quotients it does not
  depend on them (`CalmSource`, by `MeaningDepends`). The length of a `.fill` with a
  positive meaning is found by `EvaluatorEnds`. In the last step the vector's
  buffer has room if nothing else has address 0 and the vector has an instruction,
  also where the conditions of `VectorExact` fail (`VectorFits`): however wrong the
  order in which `generateEVT` takes the pieces of the row, it takes each one at most
  once, which is why the premise of `RowInv` is no more than these causes.

**Only model-checked.**

* Liveness (`BootCompletes`, `RunReturns`, `ShutdownCompletes`, `FaultEndsAll`,
  and `FindReturns`, which fails): out of the reach of the proof system.
* `LdExact`. That each share is what its expression means is proved
  (`DataIsMeant` and `OperandsAreDecoded` use it); that the shares of the instructions,
  executed one after the other, add up to the value is arithmetic with powers
  of two of any exponent, whose products are beyond the solvers.

## 5. Findings

Six, in `PROJECT.json`, each with the run that exhibits it: stale LOAD and FAULT
acknowledge bits, the missing `break` between EXEC and SYS, the privilege bit
after a cut by the cycle limit, the missing EXIT for a program without system
calls, and the step of `findBlock` that follows the wrong block. The last one has
a second face, which the same run reaches on other paths: when the first free
block does not fit, `currBest` is NULL and is dereferenced.

What the assembler does beside its intention is no finding of its own: it is in the properties above, each with
its condition, and among the hazards, each at its line. In one case a line of the
repository claims otherwise: the message of `assembler.c:77` says that what exceeds a
byte is refused, and `DataMean` says which values are.

## 6. Not modelled

* **The two clients of the shared heap with its bytes.** `setLoadSignal` and
  `setIOSignal` free what they find in the metadata union. What that does to the
  heap depends on the bytes of the page; `SigHeap` has blocks but no bytes, and
  its clients are well-behaved owners. In `Aru` the outcome is a choice.
* **ALU and register file.** Arithmetic, condition codes and registers are
  functions of single words. The protocol sees an instruction by its effect on
  it, memory by its address. With the registers go the opcode table, the fields
  of registers and conditions, the register save of the kernel and its
  allocator. Among what is left out with them: `encoder.c:32` writes the base of an
  `ld` relative to `ir` as register 0, and `lexer-parser.c:736` computes its
  distance from the location pointer of the text even in the vector (the model
  has the second, not the first).
* **Environment, PATH and command parser.** Their state is text; what can go wrong
  in it are lengths, character by character.
* **The assembler's characters.** Splitting lines, comments, names of directives
  and registers, spelling of numbers; the array of `.float` that `realloc` moves;
  F-type instructions, which only warn; the symbol and string tables of the file,
  which are copies of the symbol table.
* **The rest.** Logging (`diagnostics.c`), option parsing, failures of `fork`,
  `shm_open` and `mmap` at start-up (each ends the process before anything is
  shared), `ruRead` and `readConsole` (empty), the inspection tools and the Go tests.
