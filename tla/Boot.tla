-------------------------------- MODULE Boot --------------------------------
(***************************************************************************)
(* kernel_main(), from CPU::init() to the first trap out of mcp: the       *)
(* components' initialisations in their order, over one supply of blocks.  *)
(* Interrupts are off until user mode, so pc is all the control there is.  *)
(***************************************************************************)
EXTENDS Gates, RamDisk

CONSTANTS
  MaxSupply,        \* bound: blocks PMem can give when PMem::init() is through
  LaterSupply,      \* bound: blocks the rest of the kernel leaves later on
  MaxFiles,         \* bound: files in the archive
  Mcp,              \* the name "mcp"
  StackWords,       \* words of m_syscall_stack, 48
  EntryPoint,       \* what the header of an ELF file says
  ErrorCode,        \* an error code of the CPU
  SoftwareVectors   \* bound: the n of the int n that user code tries

ASSUME BootAssumption ==
  /\ MaxSupply \in Nat /\ LaterSupply \in Nat /\ MaxFiles \in Nat
  /\ Granule = PageSize
  /\ Mcp \in Names
  /\ StackWords \in Nat /\ StackWords > 5
  /\ SoftwareVectors \subseteq 0 .. 255

VARIABLES
  pc,
  given,     \* history: the supply at the start
  process,   \* the Process that is current_process
  stack,     \* its m_syscall_stack, as far as it was written
  extracted, \* the blocks extract() has taken
  context    \* what iretd loaded when user mode was entered

bootVars == <<pc, given, process, stack, extracted, context>>
kernelVars == <<allocVars, gateVars, gdt, tss>>
vars == <<bootVars, kernelVars, ramdiskVars, supply>>

NoProcess == [exists |-> FALSE]
NoContext == [entered |-> FALSE]

Init ==
  /\ supply \in 0 .. MaxSupply
  /\ AllocInit /\ GatesInit /\ RamDiskInit
  /\ gdt = <<>> /\ tss = <<>>
  /\ pc = "cpu"
  /\ given = supply
  /\ process = NoProcess
  /\ stack = <<>>
  /\ extracted = 0
  /\ context = NoContext

\* Mutant: the last block is not enough.
TakesSpare(n, then) ==
  IF supply > n THEN supply' = supply - n /\ pc' = then
  ELSE supply' = 0 /\ pc' = "hung"

\* Mutant: without memory it tries again.
TakesOrWaits(n, then) ==
  IF supply >= n THEN supply' = supply - n /\ pc' = then
  ELSE UNCHANGED <<supply, pc>>

\* A step that takes n blocks, one by one, and goes on or hangs without them.
Takes(n, then) ==
  IF supply >= n THEN supply' = supply - n /\ pc' = then
  ELSE supply' = 0 /\ pc' = "hung"

-----------------------------------------------------------------------------
(* From CPU::init() to Proc::init().                                       *)

CpuInit ==
  /\ pc = "cpu"
  /\ InitGdt
  /\ pc' = "init_alloc"
  /\ UNCHANGED <<given, process, stack, extracted, context, allocVars,
                 gateVars, ramdiskVars, supply>>

\* Steps that take a block for a table or a page and do no more: what runs
\* and what comes next.
InitAlloc == <<"init_alloc", "interrupts">>
HandlersTable == <<"interrupts", "create_idt">>
InitAllocator == <<"init_allocator", "local_table">>
LocalTable == <<"local_table", "local_page">>   \* alloc_table_entry()'s first call
LocalPage == <<"local_page", "ramdisk">>

Tables == {InitAlloc, HandlersTable, InitAllocator, LocalTable, LocalPage}

TakeTable ==
  \E t \in Tables :
    /\ pc = t[1]
    /\ Takes(1, t[2])
    /\ UNCHANGED <<given, process, stack, extracted, context, kernelVars,
                   ramdiskVars>>

CallAlloc ==
  /\ pc = "create_idt"
  /\ Alloc(IdtBytes)
  /\ pc' = "alloc"
  /\ UNCHANGED <<given, process, stack, extracted, context, gateVars, gdt, tss,
                 ramdiskVars>>

\* A turn of Kernel::alloc()'s loop, which create_idt() or a caller after
\* the boot is in.
AllocTurn ==
  /\ pc \in {"alloc", "running"}
  /\ \/ Grow /\ UNCHANGED pc
     \/ GrowFails /\ pc' = IF pc = "alloc" THEN "hung" ELSE pc
     \/ pc = "running" /\ AllocReturns /\ UNCHANGED pc
  /\ UNCHANGED <<given, process, stack, extracted, context, gateVars, gdt, tss,
                 ramdiskVars>>

IdtCreated ==
  /\ pc = "alloc"
  /\ AllocReturns
  /\ CreateIdt(region)
  /\ pc' = "handlers"
  /\ UNCHANGED <<given, process, stack, extracted, context, gdt, tss,
                 ramdiskVars>>

\* PIC::init() follows the last handler.
Handlers ==
  /\ pc = "handlers"
  /\ Takes(HandlerBlocks,
           IF created + 1 < Len(HandlerOrder) THEN "handlers" ELSE "init_allocator")
  /\ IF supply >= HandlerBlocks THEN CreateHandler ELSE UNCHANGED gateVars
  /\ UNCHANGED <<given, process, stack, extracted, context, allocVars, gdt, tss,
                 ramdiskVars>>

-----------------------------------------------------------------------------
(* RamDisk::init() and Proc::exec_new_initrd("mcp").                       *)

\* is_valid() of a file that is empty reads what was on the stack before.
Archives ==
  {fs \in UNION {[1 .. n -> Files] : n \in 0 .. MaxFiles} :
     \A i \in DOMAIN fs : fs[i].name = Mcp => fs[i].content.size > 0}

RamDiskFound ==
  /\ pc = "ramdisk"
  /\ \E fs \in Archives : FindRamDisk(fs)
  /\ pc' = "listing"
  /\ UNCHANGED <<given, process, stack, extracted, context, kernelVars, supply>>

\* mods_count is not 1.
NoRamDisk ==
  /\ pc = "ramdisk"
  /\ pc' = "hung"
  /\ UNCHANGED <<given, process, stack, extracted, context, kernelVars,
                 ramdiskVars, supply>>

Listing ==
  /\ pc = "listing"
  /\ \/ ListFile /\ UNCHANGED pc
     \/ Listed /\ pc' = "load"
  /\ UNCHANGED <<given, process, stack, extracted, context, kernelVars, supply>>

\* The file header is what is at the beginning of the file.
ElfHeader == BlockAt(GetFile(Mcp) + BlockSize)

IsMagicValid(header) == header.holds \in {"executable", "object"}
AreFlagsValid(header) == header.holds # "object"
Loadable ==
  /\ HasFile(Mcp)
  /\ IsMagicValid(ElfHeader) /\ AreFlagsValid(ElfHeader)

NotLoaded ==
  /\ pc = "load"
  /\ ~Loadable
  /\ pc' = "hung"
  /\ UNCHANGED <<given, process, stack, extracted, context, kernelVars,
                 ramdiskVars, supply>>

\* What iretd takes: eip, cs, eflags with interrupts on, esp and ss.
Frame(entry_point) == <<entry_point, 27, 512 + 3 * 4096, 0, 35>>

\* Mutant: the first index is the number of words.
InitStackHigh(entry_point) ==
  [i \in {0} \cup (StackWords - 4) .. StackWords |->
     IF i = 0 THEN "0xDEADBEEF" ELSE Frame(entry_point)[i - StackWords + 5]]

\* Process::init_stack(): the frame is the last five words.
InitStack(entry_point) ==
  [i \in {0} \cup (StackWords - 5) .. (StackWords - 1) |->
     IF i = 0 THEN "0xDEADBEEF" ELSE Frame(entry_point)[i - StackWords + 6]]

\* Process::init() when there is no current process: it becomes that, its own
\* next and its own previous one, so switch_to() has nothing to switch.
FirstProcess(entry_point) ==
  [exists |-> TRUE, m_state |-> "STARTING", m_pid |-> 1,
   m_entry_point |-> entry_point, m_esp |-> StackWords - 5]

\* Slab::alloc() takes two blocks for its first element.
ProcessCreated ==
  /\ pc = "load"
  /\ Loadable
  /\ Takes(2, "extract")
  /\ IF supply < 2 THEN UNCHANGED <<process, stack, tss>>
     ELSE /\ process' = FirstProcess(EntryPoint)
          /\ stack' = InitStack(EntryPoint)
          /\ SetRing3SyscallStack(StackWords)
  /\ UNCHANGED <<given, extracted, context, allocVars, gateVars, gdt, ramdiskVars>>

\* Elf::extract(), block by block; the process stays when one is missing.
Extract ==
  /\ pc = "extract"
  /\ extracted < ElfHeader.blocks
  /\ Takes(1, "extract")
  /\ extracted' = IF supply > 0 THEN extracted + 1 ELSE extracted
  /\ UNCHANGED <<given, process, stack, context, kernelVars, ramdiskVars>>

\* Scheduler::run() enters the process for the first time.
EnterProcess ==
  /\ pc = "extract"
  /\ extracted = ElfHeader.blocks
  /\ pc' = "running"
  /\ process' = [process EXCEPT !.m_state = "ALIVE"]
  /\ LET word(i) == stack[process.m_esp + i]
     IN  context' = [entered |-> TRUE, eip |-> word(0), cs |-> word(1),
                     eflags |-> word(2), esp |-> word(3), ss |-> word(4)]
  /\ UNCHANGED <<given, stack, extracted, kernelVars, ramdiskVars, supply>>

-----------------------------------------------------------------------------
(* After the boot.                                                         *)

\* interrupt.hpp's list: the exceptions, and those marked "(ERROR CODE)".
Exceptions == 0 .. 20 \ {15}
HaveErrorCodes == {8, 10, 11, 12, 13, 14, 17}

Pushed(v) == IF v \in HaveErrorCodes THEN <<Dword(ErrorCode)>> ELSE <<>>

\* int n is a #GP unless the gate is open to user code.
SoftwareTrap(n) ==
  IF n \in DOMAIN idt /\ idt[n].dpl = 3
  THEN Trap([kind |-> "int", n |-> n], n, <<>>)
  ELSE Trap([kind |-> "exception", n |-> 13], 13, Pushed(13))

LeaveUser ==
  /\ pc = "running" /\ status = "idle"
  /\ pc' = "trap"
  /\ \/ \E v \in Exceptions : Trap([kind |-> "exception", n |-> v], v, Pushed(v))
     \/ \E line \in 0 .. 15 : Trap([kind |-> "device", n |-> line], 32 + line, <<>>)
     \/ \E n \in SoftwareVectors : SoftwareTrap(n)
  /\ UNCHANGED <<given, process, stack, extracted, context, allocVars, gdt, tss,
                 ramdiskVars, supply>>

\* Anything in the kernel may call Kernel::alloc() later, and takes blocks
\* from PMem and gives them back.
LaterAlloc ==
  /\ pc = "running"
  /\ \/ \E bytes \in Requests : Alloc(bytes) /\ UNCHANGED pc
     \/ AllocTooMuch /\ pc' = "hung"
  /\ UNCHANGED <<given, process, stack, extracted, context, gateVars, gdt, tss,
                 ramdiskVars>>

LaterUse ==
  /\ pc = "running" /\ status # "growing"
  /\ supply' \in 0 .. LaterSupply /\ OthersUsePMem
  /\ UNCHANGED <<bootVars, gateVars, gdt, tss, ramdiskVars>>

\* handle_interrupt() is Kernel's, and CPU::hang() is for good.
Over == pc \in {"hung", "trap"} /\ UNCHANGED vars

Boots == \/ CpuInit \/ TakeTable \/ CallAlloc \/ AllocTurn \/ IdtCreated
         \/ Handlers \/ RamDiskFound \/ NoRamDisk \/ Listing \/ NotLoaded
         \/ ProcessCreated \/ Extract \/ EnterProcess

Next == Boots \/ LeaveUser \/ LaterAlloc \/ LaterUse \/ Over

Spec == Init /\ [][Next]_vars /\ WF_vars(Boots)

-----------------------------------------------------------------------------
(* Properties.                                                             *)

BootTypeOK ==
  /\ AllocTypeOK
  /\ pc \in {t[1] : t \in Tables} \cup {t[2] : t \in Tables} \cup
       {"cpu", "alloc", "handlers", "listing", "load", "extract", "running",
        "trap", "hung"}
  /\ given <= MaxSupply /\ (pc \notin {"running", "trap", "hung"} => supply <= given)
  /\ created \in 0 .. Len(HandlerOrder)
  /\ DOMAIN idt \subseteq 0 .. 255
  /\ DOMAIN stubs \subseteq StubsStart .. StubsStart + PageSize - 1
  /\ num_files \in 0 .. MaxFiles
  /\ DOMAIN stack \subseteq 0 .. StackWords - 1

(* Whatever takes the CPU from the process calls handle_interrupt() with   *)
(* its own vector and the error code the CPU gave, or 0 (interrupt.hpp's   *)
(* list says for which vectors), interrupts off; int n gets nowhere but to *)
(* the syscalls; and the stubs of traps whose handling returns go back to  *)
(* the instruction after.  It takes the IDT, the patched stubs, the kernel *)
(* segments and the TSS to agree.                                          *)
CallFor(cause) ==
  CASE cause.kind = "device" -> <<Dword(32 + cause.n), Dword(0)>>
    [] cause.kind = "int"    -> <<Dword(128), Dword(0)>>
    [] OTHER -> <<Dword(cause.n),
                  Dword(IF cause.n \in HaveErrorCodes THEN ErrorCode ELSE 0)>>

TrapsReported ==
  pc = "trap" =>
    /\ trap.state = "handled" /\ trap.masked
    /\ trap.called = CallFor(trap.cause)
    /\ trap.cause.kind # "exception" => trap.resumes = <<"eip">>

(* User mode begins at the entry point, with interrupts on, in segments of *)
(* level 3 that reach all of user space and nothing of the kernel, and its *)
(* traps push where the frame it began with was, above an intact guard.    *)
FirstEntryFits ==
  pc \in {"running", "trap"} =>
    /\ context.eip = process.m_entry_point
    /\ (context.eflags \div 512) % 2 = 1
    /\ context.cs % 4 = 3
    /\ IsSegment(Selected(context.cs), TRUE, 3, 0, KernelStart - 1)
    /\ IsSegment(Selected(context.ss), FALSE, 3, 0, KernelStart - 1)
    /\ tss.esp0 = process.m_esp + 5 /\ DOMAIN stack \subseteq 0 .. tss.esp0 - 1
    /\ stack[0] = "0xDEADBEEF" /\ process.m_esp > 0

(* Once the ramdisk is listed, exactly the files that were archived can be *)
(* found, the first of each name, whatever their content looks like.       *)
PlaceOf(i) == BlockSize * Len(Members(files)[i - 1])

Named(name) == {i \in DOMAIN files : files[i].name = name}

FirstNamed(name) == CHOOSE i \in Named(name) : \A j \in Named(name) : i <= j

ListsEveryFile ==
  pc \in {"load", "extract", "running", "trap"} =>
    /\ num_files = Len(files)
    /\ \A name \in Names :
         /\ HasFile(name) <=> Named(name) # {}
         /\ HasFile(name) => GetFile(name) = PlaceOf(FirstNamed(name))

(* The boot stops only without a ramdisk, without a file mcp that can be   *)
(* run, or for memory: if fewer blocks were left to it than its tables,    *)
(* pages and the program take, which is also what it has taken when the    *)
(* program is in place.                                                    *)
BlocksBefore == 7 + (IdtBytes + PageSize - 1) \div PageSize

Runnable == Named(Mcp) # {} /\ files[FirstNamed(Mcp)].content.like = "executable"

HangsForAReason ==
  /\ pc = "hung" =>
       \/ given < BlocksBefore
       \/ archive = <<>>
       \/ ~Runnable
       \/ given < BlocksBefore + 2 + files[FirstNamed(Mcp)].content.blocks
       \/ status = "out_of_memory"
  /\ pc = "extract" => given - supply = BlocksBefore + 2 + extracted

(* kernel_main() gets mcp to run or hangs: none of the loops goes on.      *)
BootEnds == <>(pc \in {"hung", "running", "trap"})
=============================================================================
