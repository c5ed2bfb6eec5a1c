------------------------------- MODULE Kernel -------------------------------
(***************************************************************************)
(* The running kernel: Scheduler::run() and the process it runs, as two    *)
(* coroutines that switch at every trap; Interrupt::handle_interrupt();    *)
(* the syscalls; and the two cascaded 8259 PICs as the code drives them.   *)
(*                                                                         *)
(* kernel_main() starts one process, mcp, and nothing starts another, so   *)
(* current_process and m_next_process are mcp throughout.  The kernel runs *)
(* with interrupts off (nothing calls Interrupt::enable()), so each of its *)
(* steps is atomic.  In user mode they are as the process wants them:      *)
(* init_stack() turns them on and gives it the I/O privilege level 3.      *)
(***************************************************************************)
EXTENDS Integers

CONSTANTS
  CallsInitialise,  \* does kernel_main() call Syscall::initialise()?  FALSE
                    \* as the code stands, TRUE with l.78 no comment: a set
  Lines,            \* bound: the interrupt lines (0 .. 15) that devices raise
  Faults,           \* bound: the exceptions (0 .. 31) that the process causes
  EaxValues,        \* bound: the values of eax at a trap
  TrapDepths        \* words of m_syscall_stack a trap uses, until the switch

ASSUME InitialiseAssumption == CallsInitialise \subseteq BOOLEAN
ASSUME LinesAssumption == Lines \subseteq (0 .. 15) \ {2}
ASSUME FaultsAssumption == Faults \subseteq (0 .. 31) \ {30}
ASSUME EaxAssumption == EaxValues \subseteq Nat
ASSUME DepthsAssumption == TrapDepths \subseteq Nat /\ \A d \in TrapDepths : d > 13

VARIABLES
  pc,          \* where the CPU is: "user", or a point of the kernel's loop
  cause,       \* why the CPU hangs
  m_state,     \* Process::m_state
  m_esp,       \* Process::m_esp, in words from the end of m_syscall_stack
  stack,       \* the last words of m_syscall_stack, by their index from its end
  protector,   \* m_syscall_stack[0] = 0xDEADBEEF
  regs,        \* the process' registers in user mode
  syscall_handlers,
  last_irq,    \* Interrupt::last_irq
  requested,   \* the PICs' IRRs: lines raised and not yet acknowledged
  in_service,  \* the PICs' ISRs; line 2 is the slave's line into the master
  trapped,     \* history: the registers at the last trap
  called       \* history: the last handler called and its arguments

procVars == <<m_state, m_esp, stack, protector, regs>>
picVars == <<requested, in_service>>
historyVars == <<trapped, called>>
vars == <<pc, cause, procVars, last_irq, picVars, historyVars,
                 syscall_handlers>>

STARTING == "STARTING"
ALIVE == "ALIVE"
DEAD == "DEAD"

StackWords == 48   \* m_syscall_stack[48]
Syscall == 128     \* int 0x80

Stopped == pc \in {"hung", "ended"}

-----------------------------------------------------------------------------
(* The stack of a trap: the CPU pushes ss, esp, eflags, cs and eip, the    *)
(* handler stub pushad's.                                                  *)

\* The bits of eflags that matter: I/O privilege level 3, and with it the
\* interrupt flag or not.
Masked == 3 * 4096
Unmasked == Masked + 512

Registers ==
  [eax : Nat, ecx : Nat, edx : Nat, ebx : Nat, eflags : {Masked, Unmasked}]

\* The registers of a process that made its way to a trap with eax.
UserRegisters(eax, eflags) ==
  [eax |-> eax, ecx |-> 1001, edx |-> 1002, ebx |-> 1003, eflags |-> eflags]

Words == -13 .. -1

\* ss, esp, eflags, cs and eip are words -1 to -5; a value of each for TLC.
Hardware(w) == 2000 - w

FirstFrame ==
  [w \in Words |->
    CASE w = -3                -> Unmasked
      [] w \in {-5, -4, -2, -1} -> Hardware(w)
      [] OTHER                 -> 0]

\* iretd finds eflags where the CPU pushed it.
PopFlags == stack[-3]

\* The exceptions for which the CPU pushes an error code.
HaveErrorCodes == {8, 10, 11, 12, 13, 14, 17}
Pushed(vector) == IF vector \in HaveErrorCodes THEN 1 ELSE 0

\* pushad: eax, ecx, edx, ebx, and below them esp, ebp, esi and edi; with an
\* error code above them all of it is a word lower.
TrapFrame(r, pushed) ==
  [w \in Words |->
    CASE w = -3          -> r.eflags
      [] w = -6 - pushed -> r.eax
      [] w = -7 - pushed -> r.ecx
      [] w = -8 - pushed -> r.edx
      [] w = -9 - pushed -> r.ebx
      [] OTHER           -> Hardware(w)]

\* popad finds the registers where pushad put them.
PopRegisters ==
  [eax |-> stack[-6], ecx |-> stack[-7], edx |-> stack[-8], ebx |-> stack[-9],
   eflags |-> PopFlags]

-----------------------------------------------------------------------------
(* The table that Syscall::initialise() fills, and what each handler       *)
(* returns to mcp: is_open() is always false, pid is the slab index plus 1.*)

Installed == [n \in {0, 1, 2, 3, 4, 5, 255} |->
  CASE n = 0 -> "exit" [] n = 1 -> "is_open" [] n = 2 -> "pid"
    [] n = 3 -> "gid" [] n = 4 -> "uid" [] n = 5 -> "yield"
    [] OTHER -> "print"]

Init ==
  /\ pc = "loop" /\ cause = "none"
  /\ m_state = STARTING
  /\ m_esp = -5 /\ stack = FirstFrame /\ protector = TRUE
  /\ regs = UserRegisters(0, Unmasked)
  /\ last_irq = 0
  /\ requested = {} /\ in_service = {}
  /\ trapped = UserRegisters(0, Unmasked)
  /\ called = [handler |-> "none", arguments |-> <<>>]
  /\ \E calls \in CallsInitialise :
       syscall_handlers = IF calls THEN Installed ELSE <<>>

Hang(why) == pc' = "hung" /\ cause' = why

-----------------------------------------------------------------------------
(* The PICs.                                                               *)

Master == 0 .. 7
Slave == 8 .. 15

MasterLine(line) == IF line \in Slave THEN 2 ELSE line

\* Fully nested mode: a line waits for those of its own priority or above.
Deliverable(line) ==
  /\ line \in requested
  /\ \A s \in in_service \cap Master : MasterLine(line) < s
  /\ line \in Slave => \A s \in in_service \cap Slave : line < s

\* The line that the CPU gets: within a chip the lowest number goes first.
Delivered(line) ==
  /\ Deliverable(line)
  /\ \A other \in requested :
        Deliverable(other) =>
          \/ MasterLine(line) < MasterLine(other)
          \/ MasterLine(line) = MasterLine(other) /\ line <= other

Acknowledge(line) == {line, MasterLine(line)}

\* ICW2: the master's vectors start at 0x20, the slave's at 0x28.
VectorOf(line) == IF line \in Slave THEN 40 + (line - 8) ELSE 32 + line

\* A non-specific EOI takes a chip's highest priority line out of service.
Eoi(chip, service) ==
  {s \in service : s \in chip => \E t \in service \cap chip : t < s}

\* Mutant: the slave's first vector counts as one of the master's.
AfterEoiLate(irq) ==
  Eoi(Master, IF irq > 40 THEN Eoi(Slave, in_service) ELSE in_service)

\* Mutant: no EOI is sent.
AfterEoiNone(irq) == in_service

\* PIC::send_eoi()
AfterEoi(irq) ==
  Eoi(Master, IF irq >= 40 THEN Eoi(Slave, in_service) ELSE in_service)

RaiseLine(line) ==
  /\ ~Stopped
  /\ line \notin requested
  /\ requested' = requested \cup {line}
  /\ UNCHANGED <<pc, cause, procVars, last_irq, in_service, historyVars,
                 syscall_handlers>>

-----------------------------------------------------------------------------
(* Scheduler::run() and Process::enter_process().                          *)

\* The end of the loop, with its close_handle(), is out of reach: the switch
\* before it hangs on a dead process.
Loop ==
  /\ pc = "loop"
  /\ pc' = IF m_state # DEAD THEN "enter" ELSE "ended"
  /\ UNCHANGED <<cause, procVars, last_irq, picVars, historyVars,
                 syscall_handlers>>

\* Mutant: a first entry leaves m_state as it is.
EnterProcessStillStarting ==
  /\ pc = "enter"
  /\ pc' = "user"
  /\ regs' = IF m_state = ALIVE THEN PopRegisters ELSE UserRegisters(0, PopFlags)
  /\ UNCHANGED <<cause, m_state, m_esp, stack, protector, last_irq, picVars,
                 historyVars, syscall_handlers>>

\* switch_to() hangs on a dead process; asm_enter_process_normal goes back
\* up the handler to its popad and iret, asm_enter_process_interrupt does
\* the iret alone.
EnterProcess ==
  /\ pc = "enter"
  /\ IF m_state = DEAD
     THEN Hang("dead process") /\ UNCHANGED <<m_state, regs>>
     ELSE /\ pc' = "user"
          /\ regs' = IF m_state = ALIVE THEN PopRegisters
                     ELSE UserRegisters(0, PopFlags)
          /\ m_state' = ALIVE
          /\ UNCHANGED cause
  /\ UNCHANGED <<m_esp, stack, protector, last_irq, picVars, historyVars,
                 syscall_handlers>>

\* Mutant: the result of validate_stack_protector() is not looked at.
CheckProtectorNot ==
  /\ pc = "protector"
  /\ pc' = "dispatch"
  /\ UNCHANGED <<cause, procVars, last_irq, picVars, historyVars,
                 syscall_handlers>>

\* validate_stack_protector()
CheckProtector ==
  /\ pc = "protector"
  /\ IF protector
     THEN pc' = "dispatch" /\ UNCHANGED cause
     ELSE Hang("stack protector")
  /\ UNCHANGED <<procVars, last_irq, picVars, historyVars, syscall_handlers>>

\* m_next_process->switch_to(), the next process being the current one.
SwitchToNext ==
  /\ pc = "next"
  /\ IF m_state = DEAD
     THEN Hang("dead process")
     ELSE pc' = "loop" /\ UNCHANGED cause
  /\ UNCHANGED <<procVars, last_irq, picVars, historyVars, syscall_handlers>>

-----------------------------------------------------------------------------
(* The process traps: the stub saves its registers, handle_interrupt()     *)
(* notes the vector and enter_kernel() goes back to run_process().  The    *)
(* process leaves the PICs' ports alone, and the CPU does not check the    *)
(* limit of ds, which is still that of user data.                          *)

Trap(vector, r, depth) ==
  /\ stack' = TrapFrame(r, Pushed(vector))
  /\ m_esp' = -depth
  /\ protector' = (protector /\ depth < StackWords)
  /\ last_irq' = vector
  /\ trapped' = r
  /\ pc' = "protector"
  /\ UNCHANGED <<cause, m_state, regs, called, syscall_handlers>>

TakeInterrupt(line, eax, depth) ==
  /\ pc = "user"
  /\ regs.eflags = Unmasked
  /\ Delivered(line)
  /\ requested' = requested \ {line}
  /\ in_service' = in_service \cup Acknowledge(line)
  /\ Trap(VectorOf(line), UserRegisters(eax, Unmasked), depth)

\* Unless the process has interrupts off, a pending one goes before its next
\* instruction.
NothingPending == regs.eflags = Masked \/ \A line \in Lines : ~Deliverable(line)

\* A line that drops before it is acknowledged shows as its chip's line 7.
TakeSpurious(line, eax, depth) ==
  /\ pc = "user"
  /\ regs.eflags = Unmasked
  /\ NothingPending
  /\ in_service' = in_service \cup (Acknowledge(line) \ {line})
  /\ Trap(VectorOf(line), UserRegisters(eax, Unmasked), depth)
  /\ UNCHANGED requested

\* cli, sti or popf.  The instruction behind a sti goes before an interrupt,
\* so that the process may also trap in the same step (eflags below).
SetInterruptFlag(eflags) ==
  /\ pc = "user"
  /\ NothingPending
  /\ regs' = [regs EXCEPT !.eflags = eflags]
  /\ UNCHANGED <<pc, cause, m_state, m_esp, stack, protector, last_irq, picVars,
                 historyVars, syscall_handlers>>

MakeSyscall(eax, eflags, depth) ==
  /\ pc = "user"
  /\ NothingPending
  /\ Trap(Syscall, UserRegisters(eax, eflags), depth)
  /\ UNCHANGED picVars

CauseFault(vector, eax, eflags, depth) ==
  /\ pc = "user"
  /\ NothingPending
  /\ Trap(vector, UserRegisters(eax, eflags), depth)
  /\ UNCHANGED picVars

-----------------------------------------------------------------------------
(* Interrupt::handle_interrupt()                                           *)

\* Every exception but the unused 0x1E has a case that hangs the CPU.
Fatal == (0 .. 31) \ {30}

FatalException ==
  /\ pc = "dispatch"
  /\ last_irq \in Fatal
  /\ Hang("exception")
  /\ UNCHANGED <<procVars, last_irq, picVars, historyVars, syscall_handlers>>

\* PIC::is_served(); a shift below bit 0 or past bit 7 serves nothing.
IsServed(irq) ==
  IF irq <= 39 THEN irq - 32 \in in_service \cap Master
               ELSE irq - 32 \in in_service \cap Slave

ExternalInterrupt ==
  /\ pc = "dispatch"
  /\ last_irq \notin Fatal \cup {Syscall}
  /\ in_service' = IF last_irq \in {7, 15} /\ ~IsServed(last_irq)
                   THEN in_service
                   ELSE AfterEoi(last_irq)
  /\ pc' = "next"
  /\ UNCHANGED <<cause, procVars, last_irq, requested, historyVars,
                 syscall_handlers>>

-----------------------------------------------------------------------------
(* Syscall::handle_syscall()                                               *)

HasHandler(n) == n < 256 /\ n \in DOMAIN syscall_handlers

ReturnValue(handler) == IF handler = "pid" THEN 1 ELSE 0

\* Mutant: ecx and edx are taken in the order the stack does not have.
ArgumentsSwapped == <<stack[-9], stack[-8], stack[-7]>>

\* peek_stack_end(-9), (-7) and (-8)
Arguments == <<stack[-9], stack[-7], stack[-8]>>

\* Mutant: the result goes to the word of eip.
PokeResultLow(result) == stack' = [stack EXCEPT ![-5] = result]

\* poke_stack_end(-6, result)
PokeResult(result) == stack' = [stack EXCEPT ![-6] = result]

\* exit() calls kill(), which for the only process is no more than this.
StateAfter(handler) == IF handler = "exit" THEN DEAD ELSE m_state

HandleSyscall ==
  /\ pc = "dispatch"
  /\ last_irq = Syscall
  /\ LET eax == stack[-6] IN
     IF HasHandler(eax)
     THEN /\ called' =
               [handler |-> syscall_handlers[eax], arguments |-> Arguments]
          /\ m_state' = StateAfter(syscall_handlers[eax])
          /\ PokeResult(ReturnValue(syscall_handlers[eax]))
          /\ pc' = "next"
          /\ UNCHANGED cause
     ELSE Hang("bad syscall") /\ UNCHANGED <<called, m_state, stack>>
  /\ UNCHANGED <<m_esp, protector, regs, last_irq, picVars, trapped,
                 syscall_handlers>>

-----------------------------------------------------------------------------

KernelStep ==
  \/ Loop
  \/ EnterProcess
  \/ CheckProtector
  \/ SwitchToNext
  \/ FatalException
  \/ ExternalInterrupt
  \/ HandleSyscall

\* CPU::hang(): interrupts off, and hlt for ever.
Halted == Stopped /\ UNCHANGED vars

InterruptStep ==
  \E line \in Lines, eax \in EaxValues, depth \in TrapDepths :
    TakeInterrupt(line, eax, depth)

ProcessStep ==
  \E eflags \in {Masked, Unmasked} :
    \/ SetInterruptFlag(eflags)
    \/ \E eax \in EaxValues, depth \in TrapDepths :
         \/ MakeSyscall(eax, eflags, depth)
         \/ \E vector \in Faults : CauseFault(vector, eax, eflags, depth)

SpuriousStep ==
  \E line \in {7, 15}, eax \in EaxValues, depth \in TrapDepths :
    TakeSpurious(line, eax, depth)

Next ==
  \/ KernelStep
  \/ InterruptStep
  \/ SpuriousStep
  \/ ProcessStep
  \/ \E line \in Lines : RaiseLine(line)
  \/ Halted

Spec == Init /\ [][Next]_vars

\* The kernel's code runs on, and the CPU takes an interrupt that is pending
\* while the process runs and leaves interrupts on.  The process may compute
\* for ever, with interrupts on or off.
FairSpec == Spec /\ WF_vars(KernelStep) /\ WF_vars(InterruptStep)

-----------------------------------------------------------------------------
(* Properties.                                                             *)

TypeOK ==
  /\ pc \in {"loop", "enter", "user", "protector", "dispatch", "next",
             "hung", "ended"}
  /\ cause \in {"none", "dead process", "stack protector", "exception",
                "bad syscall"}
  /\ m_state \in {STARTING, ALIVE, DEAD}
  /\ m_esp \in Int
  /\ stack \in [Words -> Nat]
  /\ protector \in BOOLEAN
  /\ regs \in Registers /\ trapped \in Registers
  /\ last_irq \in 0 .. 47 \cup {Syscall}
  /\ syscall_handlers \in {Installed, <<>>}
  /\ requested \subseteq Lines
  /\ in_service \subseteq 0 .. 15

(* m_state says which of the two assembly routines fits what m_esp points  *)
(* to: the frame of init_stack() for a process that never ran, the inside  *)
(* of a handler for one that did.  The wrong routine would jump into data. *)
ContextMatchesState ==
  pc = "enter" =>
    CASE m_state = STARTING -> m_esp = -5 /\ stack = FirstFrame
      [] m_state = ALIVE    -> m_esp < -13
      [] OTHER              -> FALSE

(* When the process runs, the PICs have no line in service: each interrupt *)
(* ends with the EOIs its line needs, spurious ones and the slave's too.   *)
NothingLeftInService == pc = "user" => in_service = {}

(* A trap is invisible to the process but for the result of a syscall in   *)
(* eax: it comes back with the registers it left with, and with interrupts *)
(* on or off as it had them.                                               *)
DocumentedResult(n) == IF n = 2 THEN 1 ELSE 0

Returned ==
  IF last_irq = Syscall
  THEN [trapped EXCEPT !.eax = DocumentedResult(trapped.eax)] ELSE trapped

TrapsRestoreRegisters ==
  [][pc = "enter" /\ pc' = "user" /\ m_state = ALIVE => regs' = Returned]_vars

(* A syscall handler gets ebx, ecx and edx, in the order libc's syscall()  *)
(* loads them, and is the one of the number in eax.                        *)
HandlerGetsArguments ==
  [][pc = "dispatch" /\ last_irq = Syscall /\ pc' = "next" =>
       called' = [handler   |-> Installed[trapped.eax],
                  arguments |-> <<trapped.ebx, trapped.ecx, trapped.edx>>]]_vars

(* Once a trap has run over the end of the syscall stack nothing of the    *)
(* process is used again: no syscall, no switch, no return to it.          *)
OverrunStops == ~protector => pc \in {"protector", "hung"}

(* A process that turns interrupts on again and again keeps no request on  *)
(* the highest line waiting for ever.  One that leaves them off may: the   *)
(* kernel gives it the privilege to (process_exec.cpp:23).                 *)
InterruptsOn == pc = "user" /\ regs.eflags = Unmasked

TopLineServed ==
  []<>(InterruptsOn \/ Stopped) =>
    (0 \in requested ~> (0 \notin requested \/ Stopped))
=============================================================================
