-------------------------------- MODULE Gates --------------------------------
(***************************************************************************)
(* Interrupt::init(): stubs copied one behind the other into a slab, each  *)
(* patched with its vector, the gates that lead to them, and what a trap   *)
(* makes of both until handle_interrupt() is called.                       *)
(***************************************************************************)
EXTENDS KernelAlloc, Descriptors, SequencesExt

CONSTANTS
  IdtBytes,   \* sizeof(IDT), of 256 gates
  StubsStart  \* address of the table the handlers' slab was given

ASSUME IdtAssumption == IdtBytes \in Nat \ {0} /\ IdtBytes % 256 = 0

VARIABLES
  idt,      \* the gates that are not zero
  idtr,
  stubs,    \* the memory of the handlers' slab, an instruction per address
  created,  \* how many handlers were created
  trap      \* how the last trap reached handle_interrupt()

gateVars == <<idt, idtr, stubs, created, trap>>

-----------------------------------------------------------------------------
(* The stubs.  Instructions stand for their bytes, and a dword follows the *)
(* push it belongs to.                                                     *)

Dword(n) == <<"dword", n>>
Magic == Dword(-1)

\* The part that is the same in both, from the push of the vector.
CallHandler == << <<"push">>, Magic, <<"call">>, <<"add_esp">>, <<"popad">>, <<"iretd">> >>

INTH == << <<"pushad">>, <<"push_0">> >> \o CallHandler
INTH_ERR == << <<"pushad">>, <<"mov_eax">>, <<"push_eax">> >> \o CallHandler

\* HandlerFactory::load(): where the magic number is in a stub.
IrqOffset(stub) == SelectInSeq(stub, LAMBDA i : i = Magic)

\* Mutant: the vector is stored before the copy, which overwrites it.
BuildEarly(stub, irq) == stub

\* HandlerFactory::build()
Build(stub, irq) == [stub EXCEPT ![IrqOffset(stub)] = Dword(irq)]

\* The element size of the slab.
StubSize == IF Len(INTH) >= Len(INTH_ERR) THEN Len(INTH) ELSE Len(INTH_ERR)

WithoutErrors == <<0, 1, 2, 3, 4, 5, 6, 7, 9, 16, 18, 19, 20>>

WithErrors == <<8, 10, 11, 12, 13, 14, 17, 15>> \o [i \in 1 .. 11 |-> 20 + i]
Devices == [i \in 1 .. 17 |-> 31 + i]

\* The handlers in the order they are created, with the stub of each.
HandlerOrder ==
  LET as(stub, vectors) == [i \in DOMAIN vectors |-> [irq |-> vectors[i], stub |-> stub]]
  IN  as(INTH, WithoutErrors) \o as(INTH_ERR, WithErrors) \o as(INTH, Devices)
        \o as(INTH, <<128>>)

ASSUME StubsFitAPage ==
  /\ Len(HandlerOrder) * StubSize <= PageSize
  /\ StubsStart \in Nat /\ StubsStart + PageSize <= Memory

-----------------------------------------------------------------------------
(* The gates.                                                              *)

SetOffset(address) ==
  [offset_1 |-> address % Word, offset_2 |-> (address \div Word) % Word]

GetOffset(gate) == gate.offset.offset_1 + Word * gate.offset.offset_2

\* Gate::set_type(): zero, type_1, type_2
TypeBits(type) ==
  CASE type = "INTERRUPT" -> <<0, 0, 6>>
    [] type = "TRAP"      -> <<0, 0, 7>>

\* create_syscall() opens the gate of the last handler to user code.
GateDpl(irq) == IF irq = 128 THEN 3 ELSE 0

Gate(irq, dest) ==
  [present |-> 1, dpl |-> GateDpl(irq), segment |-> 8, size |-> 1,
   type |-> TypeBits("INTERRUPT"), offset |-> SetOffset(dest)]

GatesInit ==
  /\ idt = <<>> /\ idtr = [address |-> 0, limit |-> 0]
  /\ stubs = <<>>
  /\ created = 0
  /\ trap = [state |-> "none"]

\* create_idt() and setup_idtr(), with the memory Kernel::alloc() returned.
CreateIdt(at) ==
  /\ idt' = <<>>
  /\ idtr' = [address |-> at, limit |-> IdtBytes - 1]
  /\ UNCHANGED <<stubs, created, trap>>

\* A stub's memory is the next element of the slab.
CreateHandler ==
  LET handler == HandlerOrder[created + 1]
      dest    == StubsStart + created * StubSize
      copy    == Build(handler.stub, handler.irq)
      element == dest .. dest + Len(copy) - 1
  IN  /\ stubs' = [a \in DOMAIN stubs \cup element |->
                     IF a \in element THEN copy[a - dest + 1] ELSE stubs[a]]
      /\ idt' = [irq \in DOMAIN idt \cup {handler.irq} |->
                   IF irq = handler.irq THEN Gate(irq, dest) ELSE idt[irq]]
      /\ created' = created + 1
      /\ UNCHANGED <<idtr, trap>>

\* The blocks the slab takes for the next handler: the first one finds
\* neither its free list nor its element backed.
HandlerBlocks == IF created = 0 THEN 2 ELSE 0

-----------------------------------------------------------------------------
(* A trap from user mode.  The CPU loads the stack of the TSS, pushes what *)
(* iretd needs, an error code if the exception has one, and runs the stub. *)

Saved(errorCode) ==
  errorCode \o << <<"eip">>, <<"cs">>, <<"eflags">>, <<"esp">>, <<"ss">> >>

Instruction(address) ==
  IF address \in DOMAIN stubs THEN stubs[address] ELSE <<"hole">>

Drop(s, n) == SubSeq(s, n + 1, Len(s))

\* One instruction of a stub.  mov eax is from [esp+32], behind the eight
\* registers of pushad.  handle_interrupt() finds its arguments on top of the
\* stack and leaves them there, and add esp drops them.
StackAfter(s, i) ==
  CASE i[1] = "pushad"   -> [r \in 1 .. 8 |-> <<"register">>] \o s.stack
    [] i[1] = "push_0"   -> <<Dword(0)>> \o s.stack
    [] i[1] = "push_eax" -> <<s.eax>> \o s.stack
    [] i[1] = "dword"    -> <<i>> \o s.stack
    [] i[1] = "add_esp"  -> Drop(s.stack, 2)
    [] i[1] = "popad"    -> Drop(s.stack, 8)
    [] OTHER             -> s.stack

Step(s, i) ==
  IF s.resumes # <<>> THEN s
  ELSE [stack   |-> StackAfter(s, i),
        eax     |-> IF i[1] = "mov_eax" THEN s.stack[9] ELSE s.eax,
        called  |-> IF i[1] = "call" THEN <<s.stack[1], s.stack[2]>> ELSE s.called,
        resumes |-> IF i[1] = "iretd" THEN s.stack[1] ELSE <<>>]

\* The CPU after n instructions from an address on, or fewer and an iretd.
Run(address, stack) ==
  LET run[n \in 0 .. StubSize] ==
        IF n = 0
        THEN [stack |-> stack, eax |-> <<"register">>, called |-> <<>>, resumes |-> <<>>]
        ELSE Step(run[n - 1], Instruction(address + n - 1))
  IN  run

RunStub(address, stack) == Run(address, stack)[StubSize]

Delivered(v) ==
  /\ v \in DOMAIN idt /\ (v + 1) * (IdtBytes \div 256) <= idtr.limit + 1
  /\ idt[v].present = 1
  /\ IsSegment(Selected(idt[v].segment), TRUE, 0, 0, Memory - 1)
  /\ IsSegment(Selected(tss.ss0), FALSE, 0, 0, Memory - 1)
  /\ tss.esp0 # 0

\* What asked for the trap, what handle_interrupt() is called with, and
\* where the stub's iretd goes should it return.
Trap(cause, v, errorCode) ==
  /\ trap' =
       IF ~Delivered(v) THEN [state |-> "lost", cause |-> cause]
       ELSE LET s == RunStub(GetOffset(idt[v]), Saved(errorCode))
            IN  [state |-> "handled", cause |-> cause, called |-> s.called,
                 resumes |-> s.resumes,
                 masked |-> idt[v].type = TypeBits("INTERRUPT")]
  /\ UNCHANGED <<idt, idtr, stubs, created>>
=============================================================================
