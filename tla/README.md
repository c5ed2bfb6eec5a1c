# Verification of the pizza-os kernel

pizza-os is a small 32-bit x86 kernel (`src/src/kernel`, C++ and assembly). It
boots from a Multiboot 2 loader, finds its physical memory, sets up paging and a
slab of processes, loads the program `mcp` from a ramdisk, and runs it; the
program enters the kernel again through interrupts, exceptions and syscalls.
This directory holds TLA+ models of its components, the TLC runs that check
them on small instances, and TLAPS proofs of every safety property that
the passing runs check.

All paths below are relative to `src/src/kernel` unless they begin with `src/`.

## 1. The system

### 1.1 Components

| component | state | operations | models |
|---|---|---|---|
| Boot memory map, `pmem/pmem_init.cpp` | the loader's memory map, `total_memory`, the page table that maps `PMem::map` | `init()`: a recursion over the entries, then loops that reserve blocks | `BootMemory`, `BootMemoryProofs` |
| Physical memory, `pmem/pmem_alloc.cpp`, `pmem_states.cpp` | `PMem::map`, one byte for each 4 KiB block: a reference count or a mark | `alloc_end`, `increase_ref_count`, `free`, `set_state` | `PhysicalMemory`, `PMem`, `PMemProofs` |
| Slab allocator, `slab.hpp` | an array of elements, an array of free offsets, two counters | `alloc`, `free`, `pop`, `push`, `need_memory_at` | `ObjectPool`, `Slab`, `SlabProofs` |
| Main loop: `scheduler/`, `process/process_switch.*`, `process_stack.cpp`, `interrupt/handler.cpp`, `handlers.asm`, `syscall/` | the process' state, its saved stack pointer, the frame on `m_syscall_stack`, `last_irq`, the syscall table | `run`, `switch_to`, `enter_kernel`, `handle_interrupt`, `handle_syscall`, each syscall | `Kernel`, `KernelProofs` |
| Interrupt controllers, `interrupt/pic.cpp` | the two 8259s' request and in-service registers | `init`, `send_eoi`, `is_served` | `Kernel` |
| Paging, `paging/` | the page directory, the tables, the metatable, `start_entry` | `init`, `make_table`, `alloc_table`, `alloc_any_memory`, `alloc_dir_entry` | `AddressSpace`, `Paging`, `PagingProofs` |
| Process memory, `process/process_mem.cpp`, `process_kill.cpp` | the user half of the directory | `map_page`, `map_pages`, `free_memory`, `kill` | `Paging`, `PagingProofs` (and `Kernel` for `kill` of the last process) |
| Safe memory access, `safe/` | local variables only | `memcpy`, `strnlen`, `strncpy` | `Safe`, `SafeProofs` |
| `Kernel::alloc`, `kernel/kernel_alloc.cpp` | `pagetable`, `alloc_index`, `alloced` | `init_alloc`, `alloc` | `KernelAlloc`, composed in `Boot`, `BootProofs`; its page requests also in `Paging` |
| Process creation, `process_exec.cpp`, `process_init.cpp`, `process_handles.cpp` | the process list, handles, states | `exec_empty`, `exec_new_initrd`, `link_processes`, `open_handle`, `close_handle` | the first process: its creation in `Boot`, its life in `Kernel` |
| ELF loader and tar reader: `elf/`, `reader/` | the reader's position, the header at hand, the process' pages | `extract`, `read_next_program_header`, `read`, `seek` | `Loader`, `LoaderProofs` |
| Ramdisk, `ramdisk/` | the archive, `num_files` | `init_ramdisk`, `has_file`, `get_file` | `RamDisk`, composed in `Boot`, `BootProofs` |
| Gates and descriptors, `interrupt/interrupt.cpp`, `gate.cpp`, `handler_factory.cpp`, `handlers.asm`, `cpu/gdt.cpp` | IDT, GDT, TSS, the handler stubs | `init_gdt`, `create_idt`, `create_handler`, what the CPU does on a trap | `Descriptors`, `Gates`, composed in `Boot`, `BootProofs` |
| Kernel entry, `kernel.cpp` | which component comes next | `kernel_main` | `Boot`, `MCBoot`, `BootProofs` |
| C library, `libc/` | none | string functions, `ceildiv` and its kin | `ceildiv`, `ceilg`, `floorg`, `strncmp`, `memcpy`, `memset` where they are used |
| VFS, `vfs/` | never initialised | `mount`, `open_file` | only what a syscall reaches (`is_open`) |
| Log and serial port, test harness, user programs | | | not modelled |

`PROJECT.json` lists each of them with the same verdicts and the reasons.

### 1.2 How they interact

`kernel_main()` (`kernel.cpp`) calls, in this order, `CPU::init()`,
`PMem::init()`, `Paging::init()`, `Kernel::init_alloc()`, `Interrupt::init()`,
`Proc::init()` and `RamDisk::init()`, loads `mcp` with `exec_new_initrd()` and
gives the CPU to `Scheduler::run()`. The calls of `VFS::init()` (l.74) and
`Syscall::initialise()` (l.78) are commented out. PMem gives blocks to the
paging code, to slabs and to process memory; the slab of processes is the only
slab. The process and the kernel are coroutines: `switch_to()` saves the
kernel's stack pointer and enters the process, a trap runs
`handle_interrupt()` on the process' own `m_syscall_stack`, whose
`enter_kernel()` saves the process' stack pointer and resumes `run_process()`.

The kernel runs with interrupts disabled throughout (the flags `init_stack()`
gives a process enable them in user mode alone, and nothing calls
`Interrupt::enable()`), on one CPU, and nothing in it waits. The process runs
with I/O privilege level 3 (`process_exec.cpp:23`): it may turn interrupts off and
on as it likes, and they are as it left them when a trap returns. So the only
concurrency is between the process, the devices and the PICs on one side and
the kernel's handler on the other; all else is sequential code whose difficulty
lies in long sequences of calls, failures half way, and boundaries. A failed
check usually ends in `CPU::hang()`.

### 1.3 What is hard here

The full list, each entry at its line with the properties that cover it, is
"hazards" in `PROJECT.json`. By kind:

- *traps and acknowledgement*: any order of device interrupts, spurious ones,
  exceptions and syscalls against two cascaded PICs; a process that holds
  interrupts off for as long as it likes; two ways to resume a process;
  a stack of 48 words shared by the trap frame and the C frames;
- *sequences of calls*: free lists told apart by counters alone; reference
  counts and marks in one byte; a metatable that keeps entries of freed tables;
- *partial failure*: memory that runs out between two of the steps of an
  operation (slab, `map_page`, `alloc_table`, `Kernel::alloc`, and every step of
  the boot);
- *agreement*: a trap reaches its handler with the right arguments only if the
  IDT, the patched copy of a stub, the GDT and the TSS agree with each other and
  with the CPU's pushing of error codes;
- *boundaries*: areas and strings that begin or end within a page, counters
  that wrap, loops that count down past zero;
- *stale state*: the loop over the memory map that overwrites its own input,
  protection levels remembered from the wrong pointer.

### 1.4 What makes each component correct

- Boot memory: `PMem::map` is in usable memory, big enough, and cannot be
  allocated; a boot that stops has a reason.
- PMem: the map is an exact account of who holds what; allocation returns the
  highest free run or fails because there is none; it returns.
- Slab: an element is in one place at a time; everything touched is backed by
  memory; elements and free list do not meet.
- Main loop: a process resumes with the context it left; each interrupt is
  acknowledged exactly; a syscall gets its own handler and arguments; an overrun
  of the syscall stack stops the machine.
- Paging: directory and metatable agree; no frame is shared, leaked, or used as
  a table before it was cleared.
- Safe: lengths and copies are right; a missing page is an answer and not a
  page fault; a copy does not stray from user into kernel memory.
- Loader: the program's bytes are where its headers say; memory that runs out is
  accounted for.
- `Kernel::alloc`: memory that was handed out is backed, once, also after calls
  that failed half way.
- Gates and descriptors: whatever traps is reported as what it is; user mode is
  entered with the segments, flags and stack it should have.
- Ramdisk: exactly the archived files can be found, whatever they hold.
- Boot: `mcp` runs, or there is a reason why it does not.

## 2. Modules

Each module's header says which code it stands for; `PROJECT.json` "map" gives
the lines behind every definition.

### 2.1 PhysicalMemory, PMem, PMemProofs

`PMem` takes `alloc_end()` turn by turn of its downward loop: `AllocEnd` is the
call, `ScanUsed`, `ScanShort`, `ScanFit`, `ScanFail` the ways through the
body, with `i = -1` for the wrapped `size_t`. `ScanFit` includes `set_state()`
and its bounds check, which hangs. `IncreaseRefCount` and `Free` are whole
calls. `map` holds counts and marks in the same range, as in the code: `TopState`
is 0xFF, `TopState - 1` is `NON_EXISTANT`, and `increase_ref_count()` refuses
at `RESERVED - 1`. `held` is a history variable: the references callers hold.
A caller frees only what it holds; a call between two turns of the loop cannot
happen because interrupts are off.

`PhysicalMemory` is the promise: grant the *highest* available run, or refuse
because there is none. It says what a run is without a loop, an end marker or a
byte map; `PMem` implements it with `refs <- held`, `wanted <-` the length while
the scan runs.

### 2.2 ObjectPool, Slab, SlabProofs

`Slab` keeps the two counters as integers that may fall below zero where the
code's `size_t` wraps (`Indexes`), element offsets in `m_free` and the pages
that are present. `alloc()` is split by its outcomes: no memory for the entry of
the free array, no memory for the element after `pop()` (the element is lost),
success. `free()` pushes, and a push to a page without memory is a page fault
(`faulted`). `supply` is what PMem can still give. `ObjectPool` is the promise:
one user per object, and an `alloc()` that fails half way may lose one.

### 2.3 Kernel, KernelProofs

The state machine of one process under `Scheduler::run()`. `pc` is a point of
the kernel's loop: `loop` (the test of `run()`), `enter` (`enter_process()`),
`user`, `protector` (back in `run_process()`, before
`validate_stack_protector()`),
`dispatch` (`handle_interrupt()`/`handle_syscall()`), `next` (`switch_to()` of
the next process). `stack` is the last 13 words of `m_syscall_stack` as the
CPU and `pushad` leave them; `peek_stack_end`/`poke_stack_end` index it
from its end, so a wrong offset is a wrong word. An exception with an error
code shifts the frame by a word (`Pushed`); all of these exceptions hang. The PICs
are modelled from how `PIC::init()` programs them: fully nested, non-specific EOI,
the slave on line 2; a spurious interrupt shows as line 7 of its chip.

`syscall_handlers` is the table: empty, as the shipped kernel leaves it
(`kernel.cpp:78`), where every syscall hangs with "Bad syscall", or filled, as
`Syscall::initialise()` would leave it, without which no handler could be
checked. The run and the proofs take both; what they say of a syscall that
returns is about the kernel with that call in place.

`regs.eflags` is the interrupt flag of the process, at I/O privilege level 3.
`SetInterruptFlag` is its `cli`, `sti` or `popf`; a trap saves the flag in the
frame and `iretd` brings it back (`PopFlags`). A pending interrupt goes before
the next instruction of a process that has them on (`NothingPending`), except
that the one behind a `sti` goes first: `MakeSyscall` and `CauseFault` may
change the flag in the same step.

Three things are left out. The process does not touch the PICs' ports, which its
privilege level allows too. The CPU does not check the limit of `ds`:
`asm_enter_process_interrupt` leaves `ds` at user data, whose limit is 0xBFFFFFFF,
nothing on the way back loads the kernel's, and a CPU that checks would fault at
the write to `last_irq` in `handle_interrupt()`. And an overrun of
`m_syscall_stack` is one that reaches word 0, the protector: what a frame that
skips it does is not in the model, as it is not seen by the code. The end of
`run()`, `close_handle()` and "Main process died", is reached by neither the code nor the model: after
`exit()` the switch to the dead process hangs first.

### 2.4 AddressSpace, Paging, PagingProofs

`content[f]` is the table in frame `f`; an edit of directory entry `d`'s table
goes to `content[meta[d]]`, the CPU's translation through `content[pde[d]]`.
A new frame holds `Junk`, and so does a page after its user wrote to it.
`PMem::alloc_end(KB(4))` is the highest frame without references, which
`PMemProofs` proves of the allocator. `MapInTable`, `MapInNewTable`,
`MapOnlyTable`, `MapNothing` are the outcomes of `Process::map_page()`;
`FreeMemory` is `kill()`'s branch for a process that is not the last, which
the shipped kernel with its one process does not reach. `AddressSpace` is the
promise: pages with frames of their own.

### 2.5 Safe, SafeProofs

One call of `memcpy`, `strnlen` or `strncpy`, turn by turn, over real bytes
and a set of present pages. `read` and `write` are the level and the counter
until the next look at the page table. A touch of a missing page is `fault`:
the handler of exception 14 hangs the CPU. The only caller in the kernel is
`VFS::mount()`, which nothing reaches as long as `VFS::init()` is commented out.
Of `strncpy()` the passing properties say only what both the code and its
comment (`safe.hpp:29-32`) allow, a prefix of the string and perhaps a terminator
behind it, within the limit; that the terminator must be there is
`StrncpyTerminates`, which the code violates. `ShortCopyStaysOnSide` is about
copies that start with both pointers on one side of 3 GiB: between the two the levels
that the code remembers are the wrong way round (section 4).

### 2.6 BootMemory, BootMemoryProofs

`PMem::init()`: `ScanEntry` is the way down of the recursion of
`add_pagetable_entries()`, `AddEntry` the way up, with the out-of-memory exit;
`ReserveEntry`, `ReserveKernel`, `ReserveMapPage` the loops of
`reserve_map_entries()`, each with `set_state()`'s hang. `entries` is a
variable because `entry = get_next_entry(entry)` assigns through a reference and
changes the memory map itself; `given` remembers what the loader passed. Memory
ends below 4 GiB, and the kernel's whole pages lie in one available area.

### 2.7 Loader, LoaderProofs

`Elf::extract()` of a valid file: `NextHeader` is `read_next_program_header()`
with its seek and read, `PrepareBlock` and `PrepareFails` a turn of
`prepare_blocks()` with all that `map_page()` does, `CopyContent` the copy. A
cell of the file stands for a byte or for a whole header, and memory holds places
in the file, so that a byte read from a wrong place is a wrong byte.
`m_position` does what the code does: `read()` doubles it, and `remaining()`
wraps. PMem is the number of blocks it can still give, since which blocks
`map_page()` gets is `Paging`'s question. Headers are as linkers make them:
ascending, apart, offset and address congruent modulo the page; `linker.ld`
also aligns them, which the model does not assume.

### 2.8 KernelAlloc

`Alloc` is the entry of `Kernel::alloc()` with its limit test, `Grow` and
`GrowFails` the turns of its loop, `AllocReturns` its end. The memory is cut from
the front of one page table; `pagetable` counts how often an entry was written,
`granted` remembers what callers got. A call that fails leaves `alloc_index`
ahead of `alloced`. Past 4 MiB `tbl_index()` wraps onto entry 0, and the limit is
tested before the size is added: `ClientLimit` is what callers ask for in all,
and the properties need it within the table. The only caller in the shipped
kernel is `create_idt()`; later calls are those the interface allows. `supply` is
what PMem can give, which the rest of the kernel changes between any two calls.

### 2.9 Descriptors

The GDT and TSS as `init_gdt()` fills them in: `BaseLimit` is
`set_base_limit()`, which cuts an address and a limit into the fields of a
descriptor; `BaseOf` and `LastOf` are what the processor puts together again,
and `IsSegment` compares that with what a segment should be. The kernel divides the
TSS' limit by the page size although that descriptor counts in bytes, and adds
its base: the TSS' segment is larger than the TSS, which nothing depends on.

### 2.10 Gates

`HandlerFactory` copies one of two stubs for each vector and patches the vector
into it; `Gate` is the IDT entry, its offset cut in two. `HandlerOrder` lists
the 50 handlers that `Interrupt::init()` makes, in its order and with its choice of
stub (seventeen for devices: its loop includes vector 0x30). `Trap` is what
then happens: `Delivered` is the processor's look at IDT, GDT and TSS,
`Run` executes the instructions found at the gate's address, one at a time (`Step`,
`StackAfter`), on the stack that the processor pushed, an error code on top for the
exceptions that have one. A stub
is a sequence of instructions, each standing for its bytes, so that a wrong
offset, a stub over another, or a wrong choice of stub shows in `called` and
`resumes`. The stubs with an error code never pop it; every
exception that has one ends in `CPU::hang()`, so that they never return. `IdtAssumption` says that the IDT is of 256 gates of one size.

### 2.11 RamDisk

`Archive` is what `tar` writes for a list of files, `Members` for the first of them,
and `Octal` the digits of a size (`Shifted` drops the last of them); `ListFile` is a turn of
`init_ramdisk()`'s walk, `FileAt` the walk of `get_file()` and `has_file()`, and
`GetSize` the octal digits of `get_size()` with `size_t`'s width, a digit a turn
(`ReadDigit`). Content may look
like a header, or like the zero block that ends an archive. The kernel
never looks at the length of the module, and its message for an archive that ends
prematurely cannot be reached; a size ended by a space instead of a NUL would be misread.
`tar` ends it in a NUL. A file's size fits its digits, and the file memory
(`ContentAssumption`): what `tar` writes otherwise is not in this format, and what
does not fit memory no loader could have put there.

### 2.12 Boot, MCBoot, BootProofs

`kernel_main()` composed of the above: `Boot` EXTENDS `Gates` (and with it
`KernelAlloc` and `Descriptors`) and `RamDisk`. One supply of blocks feeds every
step, from the table of `init_alloc()` over the slab of handlers, the slab of
processes and the local table to the blocks that `Elf::extract()` takes; each of
them hangs without it. Then `EnterProcess` loads the context `init_stack()`
built, and `LeaveUser` is the first trap: any exception, device or `int n`. Where
`Kernel` begins (with `handle_interrupt()` called) `Boot` ends. While the
process runs, `LaterAlloc` is anybody's call of `Kernel::alloc()`, and
`LaterUse` the rest of the kernel's use of PMem. `is_valid()` of an empty `mcp`
reads a header that was never written; `Archives` leaves this one case out.
`MCBoot` names the contents of files.

## 3. Runs

| run | module, cfg | checks |
|---|---|---|
| `boot_memory` | BootMemory | `MapPagesUsable`, `MapFitsItsPages`, `OwnMemoryReserved`, `OutOfMemoryIsReal`, `HangsForAreaAbove` |
| `boot_reserved` | BootMemory, violation | `ReservedEntriesReserved` |
| `pmem` | PMem | `MapCountsReferences`, `ScanKnows`, `NeverHangs`, `ImplementsPhysicalMemory`, `AllocReturns` |
| `slab` | Slab | `EveryElementOnce`, `PushIsBacked`, `ElementsBacked`, `ElementsBelowFreeArray`, `ImplementsPool` |
| `slab_exhausted` | Slab, violation | `ElementsBelowFreeArray` |
| `kernel` | Kernel | `ContextMatchesState`, `NothingLeftInService`, `OverrunStops`, `TrapsRestoreRegisters`, `HandlerGetsArguments`, `TopLineServed` |
| `paging` | Paging | `TablesAreTheDirectorys`, `NoJunkMapped`, `FramesAccounted`, `ImplementsAddressSpace` |
| `safe` | Safe | `LengthIsRight`, `CopiesAPrefix`, `ShortCopyNeverFaults`, `ShortCopyStaysOnSide` |
| `safe_strncpy` | Safe, violation | `StrncpyTerminates` |
| `safe_faults` | Safe, violation | `NeverFaults` |
| `loader` | Loader | `ImageIsLoaded`, `BlocksAccounted`, `FailsForMemory`, `FaultsOnlyUnaligned` |
| `boot` | MCBoot | `BootTypeOK`, `GrantsBacked`, `TrapsReported`, `FirstEntryFits`, `ListsEveryFile`, `HangsForAReason`, `BootEnds` |

What the run `boot` shows, since it is the one about the composition:
`GrantsBacked`, memory that `Kernel::alloc()` returned has each of its pages
backed once; `TrapsReported`, whatever takes the CPU from the process calls
`handle_interrupt()` with its own vector and the right error code, interrupts
off, and `int n` reaches the syscalls alone; `FirstEntryFits`, `mcp` starts at its
entry point in segments of level 3 that end where the kernel begins, with
interrupts on, and traps push above an intact stack guard; `ListsEveryFile`;
`HangsForAReason`, the boot stops only for the ramdisk, the program, or exactly as
many blocks as its steps take; `BootEnds`, its loops end.

The modules of the other runs have a `TypeOK` each. It is proved (section 5) for
every value of the constants, and not checked again by TLC.

Bounds, and why they are enough:

- `pmem`: a map of 4 blocks of 2 bytes, every set of reserved blocks, sizes 0
  to 11 bytes (nothing, a part of a block, a multiple and not, all, more than
  all), `TopState = 4`, so that a count reaches the `NON_EXISTANT` mark and
  the refusal below `RESERVED` within a few calls.
- `slab`: a table of 20 bytes, pages of 4, elements and words of 2, so
  Capacity is 5, the element array ends in the middle of a page and the free
  array shares that page. Users hold up to 5 elements at once; 0 to 2 blocks of
  memory make every partial failure happen. `slab_exhausted` lets users hold
  one more.
- `kernel`: the table empty and filled, the lines 0 and 1 of the master, 8 and 14 of the slave (both
  neighbours of the boundary at vector 40), two depths of trap frames, one of
  which overruns the stack, and syscalls with and without an effect on the
  process, with and without a result, a number inside the table without a handler
  and one past its end; one exception with an error code and one without;
  297,920 states.
- `paging`: seven directory entries (two of user space, the kernel's image,
  PMem's table, two to allocate, the metatable), tables of two pages and five
  frames, so that a new table can take the last frame, and a table of a process
  can reuse a frame that another table or a page had before.
- `safe`: five pages of two bytes, every set of present pages, the kernel from
  page 3 on, counts up to 4: three boundaries in one call, more than the code's
  arithmetic tells apart.
- `loader`: two program headers over four pages of two bytes, two pages to a
  table, segments of up to three bytes (so up to two pages, or three halves),
  every amount of memory from none to enough.
- `boot_memory`: up to four entries of memory of 16 bytes with two-byte pages,
  available, reserved or missing, with every boundary aligned or not, and
  kernel's image in one and a half pages. `hung`, `out_of_memory` and `ready`
  are all reached. Entries ascend and do not overlap (`Ascending`).
- `boot`: pages of 512 bytes, the IDT in half a page as in the code, with three
  pages to a table and requests of less than a page and of almost two, so that
  calls begin and end within, at and across pages, and the third page is reached
  with a hole of memory before it. Words of 10 bits, bytes of 5 and nibbles of
  one keep every address below TLC's 2^31 and leave every field of a
  descriptor and a gate in use; the kernel starts at three quarters of the
  address space. The 50 stubs are those of the code and fit a page,
  as theirs do. Archives of up to two files with blocks of 8 bytes, sizes of
  none, one byte, a block, more than a block and two; 0 to 14 blocks of memory, two
  more than the larger program takes; 333,588 states.

*Fairness.* `PMem!FairSpec` is weakly fair in the scan alone: the loop is
straight-line kernel code with interrupts off. `Kernel!FairSpec` is weakly fair
in the kernel's own steps, for the same reason, and in `InterruptStep`, which is
enabled only while the process runs with interrupts on: the CPU then takes a
pending one before the next instruction. That the process ever turns them on again is
nowhere assumed of it; `TopLineServed` has it as its premise, and says of all
other processes nothing. `Boot!Spec` is weakly fair in the steps of the
boot (`Boots`): one CPU, interrupts off, no waiting. Of the process
no progress is assumed (it may compute for ever, with interrupts on or off), and
none of devices. The other modules need none.

## 4. Findings

Four of the runs find the code at odds with what it says of itself; each is
quoted with its lines in `PROJECT.json`.

1. `boot_reserved`: the loop over the memory map copies the second entry over
   the first, so reserved areas from the third entry on stay free.
2. `slab_exhausted`: the guard `m_free_index != m_capacity` never refuses; the
   element after the last overlaps the free list.
3. `safe_strncpy`: `strncpy()` copies the string without its terminator, which
   `safe.hpp:32` promises.
4. `safe_faults`: after its first page boundary `memcpy` looks a byte late, and
   `strnlen` reads before it looks; a missing page is a page fault.

More that the models show and no run is spent on: as the kernel boots,
`Syscall::initialise()` is not called and each syscall hangs, `mcp`'s first
included (`FALSE \in CallsInitialise`); `Safe::memcpy()` takes the level for
reads from `dest` and that for writes from `src`, so that a copy from user to
kernel space is refused at its first page boundary, and a source that runs from
user into kernel memory is not when `dest` is in the kernel; `Elf::extract_program()`
misses the last page of a segment that is not aligned (`FaultsOnlyUnaligned`); and
`Kernel::alloc()` lets a request that begins below 4 MiB end above it, where it
would map over its own first pages (excluded by `ClientLimit`). Two properties
are as weak as the code makes them: `OutOfMemoryIsReal` looks at each area alone,
because every level of the recursion asks for the whole map again
(`pmem_init.cpp:102`) and areas that suffice together stop the boot; and
`ElementsBacked` leaves out the tail of an element that lies across two pages,
which `need_memory_at()` does not back (`slab.hpp:128`).

## 5. Proofs

Every theorem holds for every value of the constants that the modules'
assumptions allow; the runs above show the same formulas on small instances.

**PMemProofs.** `TypeOK /\ MapCountsReferences /\ ScanKnows /\ NeverHangs` is
inductive. `MapCountsReferences` alone is not: it needs that a run which
`ScanFit` marks was free, which is what `ScanKnows` says of the loop; and
`ScanKnows` needs that `i` stays below `block_end` to be in bounds.
From it follow the four invariants, and `SpecImplementsPhysicalMemory`: a turn of
the loop is a stutter, `ScanFit` is a `Grant` because no run starts above `i`,
`ScanFail` a `Refuse` because none starts at all. The lemma `CeilDiv` says
that `ceildiv` gives just enough blocks.

**SlabProofs.** The inductive invariant is `TypeOK`, `EveryElementOnce` (which
counts the elements out), `PushIsBacked`, `StackBacked` (every entry of the free
array that was created is in memory, without which `free()` could fault) and
`StartsBacked` (so is the first byte of every element in use). The invariants `PushIsBacked` and `ElementsBacked`
follow for all sizes, with no limit on users. `ElementsBelowFreeArray` and
`SpecImplementsPool` assume `ClientLimit <= Capacity`, since finding 2 shows
they are false without it.

**KernelProofs.** `TypeOK`, `ContextReady` (what `m_state` says of the saved
frame, at every `pc`), `Service` (which lines are in service, given `pc` and the
vector: none in user mode, just the line and its cascade until dispatch),
`FlagsSaved` (the word that `iretd` takes for the flags is one) and
`OverrunStops`. They give the three safety invariants; `FrameKept`, that the
saved frame is that of the last trap until the process resumes, gives the two
action properties; it needs that no trap with an error code, whose frame is a
word off, gets as far as `next`. All hold for every set of lines, exceptions,
values of `eax` and depth of frames, with the syscall table empty or filled.

**PagingProofs.** The invariant `Good` says that the metatable names the
directory's table, that no entry of a table in use is junk, that a frame is one
table, or one page, or nothing, and that PMem counts it exactly then. It is stated
of *values* (`Good(p, m, c, r)`), since `map_page()` makes a table and then maps
a page in it within one step: each half is a lemma from values to values,
and the step of `map_page()` is one after the other. The lemmas also say which pages
changed (`Keeps`, `Sets`, `Unmaps`), which is the refinement of
`AddressSpace`. That frames are apart is needed for the directory to stay right:
clearing a new table must not clear a page, and `free_memory()` must give back
each frame once.

**SafeProofs.** One conjunct for each phase (`Called`, `Measuring`, `Measured`,
`Copying`, `Returned`) ties pointers and counters to how far the loop is
and memory to the prefix written. `PagesChecked` follows the counter to the
first page boundary, where it is still exact, and says the next page was looked at:
which gives `ShortCopyNeverFaults` and, one boundary on, nothing
(finding 4). With it and `LevelsRemembered`, which is where the two pointers' starting on
one side comes in, `ShortCopyStaysOnSide` is inductive: past the boundary a
byte's page is the one whose level was looked at.

**LoaderProofs.** `Prepared` (the pages of a segment before `block` are mapped),
`TablesNeeded` (a table is there for a page that is), `FinishedLoaded` and
`NothingElse` (the segments done with are in memory, and nothing else is). That a failure
means too little memory counts the blocks: those taken are a part of those
needed, and the one missing is not among them. A segment that begins on a page
boundary ends in the last page that `NumBlocks` counts, so only another can fault.

**BootMemoryProofs.** The pages found lie in the entry that gave them and come
once; an entry the recursion came back from was too short (`EntriesShort`); each loop of
`reserve_map_entries()` has reserved what it is past. `OutOfMemoryIsReal` needs
that a short entry has given every page usable but that of its last byte, for
each position of the kernel in it. The memory map is any list of areas that
`Ascending` and `KernelFits` allow, of any length.

**BootProofs.** The composition and the three components that only it uses.

- *`Kernel::alloc()`.* Exactly the table entries below `alloced` have a block, and
  grants end there: what makes the loop right after a call that failed half way.
  `GrantsBacked` follows for `ClientLimit <= TableBytes`, of the component alone
  (`AllocSpec`) and of the boot, whose every step is one of `AllocStep` or leaves
  the table alone.
- *Recursive functions.* `Recursion` says that a function defined by `f[n - 1]` exists,
  for definitions on `0 .. n`. It and the inductions below are stated of a *set* of
  numbers and rest on `LeastNumber`: the library's own theorems take an operator as a
  parameter, which the provers cannot instantiate.
- *The archive.* `Members` grows by appending, so what stands at a place in the
  members of a prefix stands there in the archive; with the digits of a size read back as
  the size (`Octal` against `ReadDigits`, by induction over the digits) and `ceilg`
  not wrapping for a size that fits memory, `NextFile` leads from the header of
  one file to that of the next (`PlaceOf`), whatever the content looks like, and
  from the last to the zero block. This is `ListsEveryFile`, for any archive.
- *The handlers.* `Built` says where each stub made so far is, instruction by
  instruction, and which gate leads to it; a stub made later is behind them and has
  another vector. Running either stub from its start is then computed
  instruction by instruction. That the processor finds the stub again, in a segment over
  all of memory, is division: an address cut into words or into octets and
  nibbles is put together from them.
- *The invariant.* `BootInv` has a part for each thing a later stage relies
  on. `Accounted` says how many blocks every stage has taken (without it nothing
  says that a boot which hangs had too few); `IdtAsked` that nobody asked
  `Kernel::alloc()` before the IDT did, so that the IDT's pages are known; `CpuReady`
  and `HandlersReady` keep the descriptors, the gates and the number of
  handlers until the first trap reads them; `DiskListed` says where the walk over the
  archive is, which the search for `mcp` then repeats; `ProcessReady`
  keeps the stack that `init_stack()` built until `EnterProcess` loads it. None
  of the five properties is inductive alone: each speaks of one stage,
  about state that an earlier stage wrote.

**Only model-checked.** The liveness properties `AllocReturns`, `TopLineServed`
and `BootEnds`: fairness is out of the prover's reach.

## 6. Not modelled

- The VFS: not initialised by the shipped kernel; `Safe` models what its
  one operation with hard behaviour calls.
- Several processes: the code starts one. `exec_new_initrd()` has one caller
  and `exec_empty()` none outside the tests, so `link_processes()` and `kill()`'s
  list surgery are in no behaviour of the program, nor is `close_handle()`, whose one
  call (`scheduler.cpp:34`) is behind the loop of `run()`, which does not end.
  A second process would also meet the stack that `switch_to()` gives the TSS, which begins at word 128 of
  48.
- The bootstrap code of `boot.asm`, which maps the first 4 MiB and jumps; the
  reset; `load_directory()` of a second directory; the TLB; the page bits for
  writing and user access.
- Memory above 4 GiB, and modules of the boot loader, in the memory map.
- The functions of `libc/` without a caller (a `memmove()` of 0 bytes would
  run away), `elf_sect.cpp` and `elf_dump.cpp`, which only print.
- Logging, serial port, test harness, user programs and their C library: the
  process of `Kernel` makes any sequence of traps, `mcp`'s among them.
- Liveness beyond the three properties: the process need not do anything.

## 7. Plan

Done, in the order of their importance to the system: PMem, Slab, Kernel, Paging,
Safe, BootMemory, Loader, KernelAlloc, Descriptors, Gates, RamDisk, Boot, and
proofs of the safety properties of all of them. What is left waits for the code:

1. `ProcessTable` (`link_processes()`, handles, `kill()`) on the abstract
   `ObjectPool`, when the kernel starts a second process;
2. the memory map above 4 GiB and the loader's modules in it, when `init()`
   looks at either;
3. `VFS` on `Safe`, when `kernel_main()` initialises it.
