---------------------------- MODULE KernelProofs ----------------------------
(***************************************************************************)
(* What holds in every reachable state of Kernel, whatever lines, faults,  *)
(* values of eax and stack depths there are, and with the syscall table    *)
(* filled or empty.                                                        *)
(***************************************************************************)
EXTENDS Kernel, TLAPS

\* Where the context that the process resumes from is on m_syscall_stack.
ContextReady ==
  /\ pc \in {"loop", "enter"} /\ m_state = STARTING =>
       m_esp = -5 /\ stack = FirstFrame
  /\ pc \in {"loop", "enter"} /\ m_state = ALIVE => m_esp < -13
  /\ pc \in {"user", "protector", "dispatch", "next"} => m_state # STARTING
  /\ pc \in {"protector", "dispatch", "next"} => m_esp < -13
  /\ pc = "enter" => m_state # DEAD

\* The lines in service on the way to handle_interrupt(): those of the trap.
LinesOf(vector) ==
  IF vector \in 32 .. 39 THEN {vector - 32}
  ELSE IF vector \in 40 .. 47 THEN {2, vector - 32} ELSE {}

Service ==
  /\ pc \in {"loop", "enter", "user", "next", "ended"} => in_service = {}
  /\ pc \in {"protector", "dispatch"} =>
       in_service = LinesOf(last_irq)
         \/ in_service = LinesOf(last_irq) \ {7, 15}

\* iretd always finds an eflags that the process had, or that of init_stack().
FlagsSaved == PopFlags \in {Masked, Unmasked}

IInv == TypeOK /\ ContextReady /\ Service /\ FlagsSaved /\ OverrunStops

-----------------------------------------------------------------------------
(* The PICs.                                                               *)

\* send_eoi() for the vector of a line ends what that line has in service.
LEMMA EoiEndsLine ==
  ASSUME in_service \subseteq 0 .. 15,
         last_irq \in 32 .. 47,
         \/ in_service = LinesOf(last_irq)
         \/ in_service = LinesOf(last_irq) \ {7, 15}
  PROVE  AfterEoi(last_irq) = {}
<1>1. CASE last_irq \in 32 .. 39
  BY <1>1 DEF LinesOf, AfterEoi, Eoi, Master, Slave
<1>2. CASE last_irq \in 40 .. 47
  <2>1. Eoi(Slave, in_service) \subseteq {2}
    BY <1>2 DEF LinesOf, Eoi, Master, Slave
  <2>2. Eoi(Master, Eoi(Slave, in_service)) = {}
    BY <2>1 DEF Eoi, Master
  <2> QED BY <1>2, <2>2 DEF AfterEoi
<1> QED BY <1>1, <1>2

\* With no other line in service, a line that is acknowledged has its own in
\* service, and the slave's line of the master.
LEMMA AcknowledgedLines ==
  ASSUME NEW line \in 0 .. 15, line # 2
  PROVE  /\ VectorOf(line) \in 32 .. 47
         /\ Acknowledge(line) = LinesOf(VectorOf(line))
         /\ line \in {7, 15} =>
              Acknowledge(line) \ {line} = LinesOf(VectorOf(line)) \ {7, 15}
BY DEF VectorOf, Acknowledge, LinesOf, MasterLine, Slave

-----------------------------------------------------------------------------
(* A trap.                                                                 *)

LEMMA TrapFrameType ==
  ASSUME NEW r \in Registers, NEW pushed \in {0, 1}
  PROVE  /\ TrapFrame(r, pushed) \in [Words -> Nat]
         /\ TrapFrame(r, pushed)[-3] = r.eflags
<1>1. r.eax \in Nat /\ r.ecx \in Nat /\ r.edx \in Nat /\ r.ebx \in Nat
        /\ r.eflags \in Nat
  BY DEF Registers, Masked, Unmasked
<1>2. \A w \in Words : Hardware(w) \in Nat
  BY DEF Words, Hardware
<1> QED BY <1>1, <1>2 DEF TrapFrame, Words

LEMMA SyscallPushesNothing == Pushed(Syscall) = 0
BY DEF Pushed, HaveErrorCodes, Syscall

LEMMA PushedType == \A vector : Pushed(vector) \in {0, 1}
BY DEF Pushed

LEMMA UserRegistersType ==
  ASSUME NEW eax \in Nat, NEW eflags \in {Masked, Unmasked}
  PROVE  UserRegisters(eax, eflags) \in Registers
BY DEF UserRegisters, Registers

LEMMA TrapKeepsIInv ==
  ASSUME IInv, pc = "user",
         NEW vector \in 0 .. 47 \cup {Syscall}, NEW eax \in EaxValues,
         NEW eflags \in {Masked, Unmasked}, NEW depth \in TrapDepths,
         Trap(vector, UserRegisters(eax, eflags), depth),
         requested' \subseteq Lines, in_service' \subseteq 0 .. 15,
         \/ in_service' = LinesOf(vector)
         \/ in_service' = LinesOf(vector) \ {7, 15}
  PROVE  IInv'
<1> DEFINE r == UserRegisters(eax, eflags)
<1>1. r \in Registers
  BY EaxAssumption, UserRegistersType
<1>2. TrapFrame(r, Pushed(vector)) \in [Words -> Nat]
        /\ TrapFrame(r, Pushed(vector))[-3] = r.eflags
  BY <1>1, PushedType, TrapFrameType
<1>3. depth \in Nat /\ depth > 13
  BY DepthsAssumption
<1>4. TypeOK'
  <2>1. protector' \in BOOLEAN
    BY DEF Trap
  <2>2. m_esp' \in Int
    BY <1>3 DEF Trap
  <2>3. stack' \in [Words -> Nat] /\ trapped' \in Registers
    BY <1>1, <1>2 DEF Trap
  <2>4. pc' = "protector" /\ last_irq' = vector
          /\ UNCHANGED <<cause, m_state, regs, syscall_handlers>>
    BY DEF Trap
  <2> QED BY <2>1, <2>2, <2>3, <2>4 DEF IInv, TypeOK
<1>5. ContextReady'
  <2>1. pc' = "protector" /\ m_state' = m_state /\ m_esp' < -13
    BY <1>3 DEF Trap
  <2>2. m_state # STARTING
    BY DEF IInv, ContextReady
  <2> QED BY <2>1, <2>2 DEF ContextReady
<1>6. Service'
  BY DEF Trap, Service
<1>7. OverrunStops'
  BY DEF Trap, OverrunStops
<1>8. FlagsSaved'
  BY <1>1, <1>2 DEF Trap, FlagsSaved, PopFlags, Registers
<1> QED BY <1>4, <1>5, <1>6, <1>7, <1>8 DEF IInv

-----------------------------------------------------------------------------

LEMMA InitIInv == Init => IInv
<1> SUFFICES ASSUME Init PROVE IInv
  OBVIOUS
<1>1. FirstFrame \in [Words -> Nat]
  BY DEF FirstFrame, Words, Hardware, Masked, Unmasked
<1>2. UserRegisters(0, Unmasked) \in Registers
  BY UserRegistersType
<1>3. TypeOK
  BY <1>1, <1>2 DEF Init, TypeOK, STARTING
<1>4. FlagsSaved
  <2>1. FirstFrame[-3] = Unmasked
    BY DEF FirstFrame, Words
  <2> QED BY <2>1 DEF Init, FlagsSaved, PopFlags
<1> QED
  BY <1>3, <1>4 DEF Init, IInv, ContextReady, Service, OverrunStops, STARTING, ALIVE,
     DEAD

\* What the kernel and the process leave alone stays as it is.
LEMMA UnchangedIInv ==
  ASSUME IInv, requested' \subseteq Lines,
         UNCHANGED <<pc, cause, procVars, last_irq, in_service, historyVars,
                     syscall_handlers>>
  PROVE  IInv'
<1>1. UNCHANGED <<pc, cause, m_state, m_esp, stack, protector, regs, last_irq,
                  in_service, trapped, called, syscall_handlers>>
  BY DEF procVars, historyVars
<1>2. TypeOK'
  BY <1>1 DEF IInv, TypeOK
<1>3. ContextReady' /\ Service'
  BY <1>1 DEF IInv, ContextReady, Service
<1>4. FlagsSaved' /\ OverrunStops'
  BY <1>1 DEF IInv, FlagsSaved, PopFlags, OverrunStops
<1> QED BY <1>2, <1>3, <1>4 DEF IInv

LEMMA NextIInv == IInv /\ [Next]_vars => IInv'
<1> SUFFICES ASSUME IInv, [Next]_vars PROVE IInv'
  OBVIOUS
<1> USE DEF STARTING, ALIVE, DEAD
<1>1. CASE Loop
  BY <1>1 DEF Loop, IInv, TypeOK, ContextReady, Service, FlagsSaved, PopFlags,
     OverrunStops, procVars, picVars, historyVars
<1>2. CASE EnterProcess
  <2>1. PopRegisters \in Registers
    <3>1. stack \in [Words -> Nat]
      BY DEF IInv, TypeOK
    <3>2. -6 \in Words /\ -7 \in Words /\ -8 \in Words /\ -9 \in Words
      BY DEF Words
    <3>3. stack[-6] \in Nat /\ stack[-7] \in Nat /\ stack[-8] \in Nat
            /\ stack[-9] \in Nat
      BY <3>1, <3>2
    <3>4. PopFlags \in {Masked, Unmasked}
      BY DEF IInv, FlagsSaved
    <3> QED BY <3>3, <3>4 DEF PopRegisters, Registers
  <2>2. UserRegisters(0, PopFlags) \in Registers
    BY UserRegistersType DEF IInv, FlagsSaved
  <2>3. TypeOK'
    BY <1>2, <2>1, <2>2 DEF EnterProcess, Hang, IInv, TypeOK, picVars, historyVars
  <2> QED
    BY <1>2, <2>3 DEF EnterProcess, Hang, IInv, ContextReady, Service, FlagsSaved,
       PopFlags, OverrunStops, picVars, historyVars
<1>3. CASE CheckProtector
  BY <1>3 DEF CheckProtector, Hang, IInv, TypeOK, ContextReady, Service,
     FlagsSaved, PopFlags, OverrunStops, procVars, picVars, historyVars
<1>4. CASE SwitchToNext
  BY <1>4 DEF SwitchToNext, Hang, IInv, TypeOK, ContextReady, Service,
     FlagsSaved, PopFlags, OverrunStops, procVars, picVars, historyVars
<1>5. CASE FatalException
  BY <1>5 DEF FatalException, Hang, IInv, TypeOK, ContextReady, Service,
     FlagsSaved, PopFlags, OverrunStops, procVars, picVars, historyVars
<1>6. CASE ExternalInterrupt
  <2>1. in_service' = {}
    <3>1. last_irq \notin {7, 15} /\ last_irq \in {30} \cup 32 .. 47
      <4>1. last_irq \in 0 .. 47 \cup {Syscall}
        BY DEF IInv, TypeOK
      <4>2. last_irq \notin (0 .. 31) \ {30} /\ last_irq # Syscall
        BY <1>6 DEF ExternalInterrupt, Fatal
      <4> QED BY <4>1, <4>2
    <3>2. in_service' = AfterEoi(last_irq)
      BY <1>6, <3>1 DEF ExternalInterrupt
    <3>3. CASE last_irq = 30
      BY <1>6, <3>2, <3>3 DEF ExternalInterrupt, IInv, Service, LinesOf, AfterEoi, Eoi
    <3>4. CASE last_irq \in 32 .. 47
      BY <1>6, <3>2, <3>4, EoiEndsLine DEF ExternalInterrupt, IInv, TypeOK, Service
    <3> QED BY <3>1, <3>3, <3>4
  <2> QED
    BY <1>6, <2>1 DEF ExternalInterrupt, IInv, TypeOK, ContextReady, Service,
       FlagsSaved, PopFlags, OverrunStops, procVars, historyVars
<1>7. CASE HandleSyscall
  <2>1. in_service = {}
    <3>1. pc = "dispatch" /\ last_irq = Syscall
      BY <1>7 DEF HandleSyscall
    <3>2. LinesOf(Syscall) = {}
      BY DEF LinesOf, Syscall
    <3> QED BY <3>1, <3>2 DEF IInv, Service
  <2>2. \A h : ReturnValue(h) \in Nat
    BY DEF ReturnValue
  <2>3. stack' \in [Words -> Nat]
    BY <1>7, <2>2 DEF HandleSyscall, PokeResult, IInv, TypeOK, Words
  <2>4. m_state' \in {m_state, DEAD}
    BY <1>7 DEF HandleSyscall, StateAfter
  <2>5. TypeOK'
    BY <1>7, <2>3, <2>4 DEF HandleSyscall, Hang, IInv, TypeOK, picVars
  <2>6. pc = "dispatch" /\ pc' \in {"next", "hung"}
    BY <1>7 DEF HandleSyscall, Hang
  <2>7. UNCHANGED <<m_esp, protector, in_service>>
    BY <1>7 DEF HandleSyscall, picVars
  <2>8. FlagsSaved'
    <3>1. stack \in [Words -> Nat] /\ -3 \in Words /\ -6 # -3
      <4>1. -3 \in Words
        BY DEF Words
      <4>2. stack \in [Words -> Nat]
        BY DEF IInv, TypeOK
      <4> QED BY <4>1, <4>2
    <3>2. \A x : [stack EXCEPT ![-6] = x][-3] = stack[-3]
      BY <3>1
    <3>3. stack'[-3] = stack[-3]
      BY <1>7, <3>2 DEF HandleSyscall, PokeResult
    <3> QED BY <3>3 DEF IInv, FlagsSaved, PopFlags
  <2> QED
    BY <2>1, <2>4, <2>5, <2>6, <2>7, <2>8 DEF IInv, ContextReady, Service,
       OverrunStops
<1>8. CASE InterruptStep
  <2>1. PICK line \in Lines, eax \in EaxValues, depth \in TrapDepths :
          TakeInterrupt(line, eax, depth)
    BY <1>8 DEF InterruptStep
  <2>2. line \in 0 .. 15 /\ line # 2
    BY LinesAssumption
  <2>3. in_service' = LinesOf(VectorOf(line))
    BY <2>1, <2>2, AcknowledgedLines DEF TakeInterrupt, IInv, Service
  <2>4. in_service' \subseteq 0 .. 15
    BY <2>2, <2>3, AcknowledgedLines DEF LinesOf
  <2>5. requested' \subseteq Lines
    BY <2>1 DEF TakeInterrupt, IInv, TypeOK
  <2>6. VectorOf(line) \in 0 .. 47 \cup {Syscall}
    BY <2>2, AcknowledgedLines
  <2>7. pc = "user" /\ Trap(VectorOf(line), UserRegisters(eax, Unmasked), depth)
    BY <2>1 DEF TakeInterrupt
  <2> QED BY <2>3, <2>4, <2>5, <2>6, <2>7, TrapKeepsIInv
<1>9. CASE SpuriousStep
  <2>1. PICK line \in {7, 15}, eax \in EaxValues, depth \in TrapDepths :
          TakeSpurious(line, eax, depth)
    BY <1>9 DEF SpuriousStep
  <2>2. in_service' = LinesOf(VectorOf(line)) \ {7, 15}
    BY <2>1, AcknowledgedLines DEF TakeSpurious, IInv, Service
  <2>3. requested' \subseteq Lines
    BY <2>1 DEF TakeSpurious, IInv, TypeOK
  <2>4. in_service' \subseteq 0 .. 15
    BY <2>2, AcknowledgedLines DEF LinesOf
  <2>5. VectorOf(line) \in 0 .. 47 \cup {Syscall}
    BY AcknowledgedLines
  <2>6. pc = "user" /\ Trap(VectorOf(line), UserRegisters(eax, Unmasked), depth)
    BY <2>1 DEF TakeSpurious
  <2> QED BY <2>2, <2>3, <2>4, <2>5, <2>6, TrapKeepsIInv
<1>10. CASE ProcessStep
  <2>1. PICK eflags \in {Masked, Unmasked} :
          \/ SetInterruptFlag(eflags)
          \/ \E eax \in EaxValues, depth \in TrapDepths :
               \/ MakeSyscall(eax, eflags, depth)
               \/ \E vector \in Faults : CauseFault(vector, eax, eflags, depth)
    BY <1>10 DEF ProcessStep
  <2>2. in_service \subseteq 0 .. 15 /\ requested \subseteq Lines
    BY DEF IInv, TypeOK
  <2>3. CASE SetInterruptFlag(eflags)
    <3>1. regs' \in Registers
      BY <2>3 DEF SetInterruptFlag, IInv, TypeOK, Registers
    <3> QED
      BY <2>3, <3>1 DEF SetInterruptFlag, IInv, TypeOK, ContextReady, Service,
         FlagsSaved, PopFlags, OverrunStops, picVars, historyVars
  <2>4. ASSUME NEW eax \in EaxValues, NEW depth \in TrapDepths,
               MakeSyscall(eax, eflags, depth)
        PROVE  IInv'
    <3>1. in_service' = LinesOf(Syscall)
      BY <2>4 DEF MakeSyscall, picVars, IInv, Service, LinesOf, Syscall
    <3>2. pc = "user" /\ Trap(Syscall, UserRegisters(eax, eflags), depth)
      BY <2>4 DEF MakeSyscall
    <3>3. UNCHANGED <<requested, in_service>>
      BY <2>4 DEF MakeSyscall, picVars
    <3> QED BY <2>2, <3>1, <3>2, <3>3, TrapKeepsIInv
  <2>5. ASSUME NEW eax \in EaxValues, NEW depth \in TrapDepths,
               NEW vector \in Faults, CauseFault(vector, eax, eflags, depth)
        PROVE  IInv'
    <3>1. vector \in 0 .. 31
      BY FaultsAssumption
    <3>2. in_service' = LinesOf(vector)
      BY <2>5, <3>1 DEF CauseFault, picVars, IInv, Service, LinesOf
    <3>3. pc = "user" /\ Trap(vector, UserRegisters(eax, eflags), depth)
      BY <2>5 DEF CauseFault
    <3>4. UNCHANGED <<requested, in_service>>
      BY <2>5 DEF CauseFault, picVars
    <3>5. vector \in 0 .. 47 \cup {Syscall}
      BY <3>1
    <3> QED BY <2>2, <3>2, <3>3, <3>4, <3>5, TrapKeepsIInv
  <2> QED BY <2>1, <2>3, <2>4, <2>5
<1>11. CASE \E line \in Lines : RaiseLine(line)
  <2>1. requested' \subseteq Lines
    BY <1>11 DEF RaiseLine, IInv, TypeOK
  <2>2. UNCHANGED <<pc, cause, procVars, last_irq, in_service, historyVars,
                    syscall_handlers>>
    BY <1>11 DEF RaiseLine
  <2> QED BY <2>1, <2>2, UnchangedIInv
<1>12. CASE UNCHANGED vars
  <2>1. requested' \subseteq Lines
    BY <1>12 DEF vars, picVars, IInv, TypeOK
  <2> QED BY <1>12, <2>1, UnchangedIInv DEF vars, picVars
<1> QED
  BY <1>1, <1>2, <1>3, <1>4, <1>5, <1>6, <1>7, <1>8, <1>9, <1>10, <1>11, <1>12
  DEF Next, KernelStep, Halted

LEMMA SpecIInv == Spec => []IInv
BY InitIInv, NextIInv, PTL DEF Spec

-----------------------------------------------------------------------------
(* The saved registers: what a trap pushed is there until the process      *)
(* resumes, but for the result of a syscall.  No trap with an error code   *)
(* resumes.                                                                *)

FrameKept ==
  /\ pc \in {"protector", "dispatch"} =>
       stack = TrapFrame(trapped, Pushed(last_irq))
  /\ pc \in {"next", "loop", "enter"} /\ m_state = ALIVE =>
       stack = TrapFrame(Returned, 0)

LEMMA PopTrapFrame ==
  ASSUME NEW r \in Registers, stack = TrapFrame(r, 0)
  PROVE  /\ PopRegisters = r
         /\ stack[-6] = r.eax
         /\ Arguments = <<r.ebx, r.ecx, r.edx>>
<1>1. -3 \in Words /\ -6 \in Words /\ -7 \in Words /\ -8 \in Words /\ -9 \in Words
  BY DEF Words
<1>2. stack[-6] = r.eax /\ stack[-7] = r.ecx /\ stack[-8] = r.edx
        /\ stack[-9] = r.ebx /\ PopFlags = r.eflags
  BY <1>1 DEF TrapFrame, PopFlags
<1>3. r = [eax |-> r.eax, ecx |-> r.ecx, edx |-> r.edx, ebx |-> r.ebx,
           eflags |-> r.eflags]
  BY DEF Registers
<1> QED BY <1>2, <1>3 DEF PopRegisters, Arguments

\* Poking the result changes what popad gives to eax and nothing else.
LEMMA PokeTrapFrame ==
  ASSUME NEW r \in Registers, NEW x \in Nat
  PROVE  [TrapFrame(r, 0) EXCEPT ![-6] = x] = TrapFrame([r EXCEPT !.eax = x], 0)
<1> DEFINE f == TrapFrame(r, 0)
           q == [r EXCEPT !.eax = x]
<1>1. q.eax = x /\ q.ecx = r.ecx /\ q.edx = r.edx /\ q.ebx = r.ebx
        /\ q.eflags = r.eflags
  BY DEF Registers
<1>2. f = [w \in Words |-> f[w]]
  BY DEF TrapFrame
<1>3. ASSUME NEW w \in Words
      PROVE  TrapFrame(q, 0)[w] = IF w = -6 THEN x ELSE f[w]
  BY <1>1, <1>3 DEF TrapFrame, Words
<1>4. [f EXCEPT ![-6] = x] = [w \in Words |-> IF w = -6 THEN x ELSE f[w]]
  BY <1>2 DEF TrapFrame
<1>5. TrapFrame(q, 0) = [w \in Words |-> TrapFrame(q, 0)[w]]
  BY DEF TrapFrame
<1> QED BY <1>3, <1>4, <1>5

LEMMA InstalledResult ==
  ASSUME TypeOK, NEW n, HasHandler(n)
  PROVE  /\ syscall_handlers = Installed
         /\ ReturnValue(Installed[n]) = DocumentedResult(n)
<1>1. syscall_handlers = Installed
  <2>1. DOMAIN <<>> = {}
    OBVIOUS
  <2>2. n \in DOMAIN syscall_handlers
    BY DEF HasHandler
  <2> QED BY <2>1, <2>2 DEF TypeOK
<1>2. n \in {0, 1, 2, 3, 4, 5, 255}
  BY <1>1 DEF HasHandler, Installed
<1> QED BY <1>1, <1>2 DEF Installed, ReturnValue, DocumentedResult

LEMMA InitFrameKept == Init => FrameKept
BY DEF Init, FrameKept, STARTING, ALIVE

LEMMA TrapKeepsFrame ==
  ASSUME NEW vector, NEW r, NEW depth, Trap(vector, r, depth)
  PROVE  FrameKept'
BY DEF Trap, FrameKept

LEMMA NextFrameKept == IInv /\ FrameKept /\ [Next]_vars => FrameKept'
<1> SUFFICES ASSUME IInv, FrameKept, [Next]_vars PROVE FrameKept'
  OBVIOUS
<1> USE DEF STARTING, ALIVE, DEAD
<1>1. CASE Loop
  BY <1>1 DEF Loop, FrameKept, Returned, procVars, historyVars
<1>2. CASE EnterProcess
  BY <1>2 DEF EnterProcess, Hang, FrameKept
<1>3. CASE CheckProtector
  BY <1>3 DEF CheckProtector, Hang, FrameKept, procVars, historyVars
<1>4. CASE SwitchToNext
  BY <1>4 DEF SwitchToNext, Hang, FrameKept, Returned, procVars, historyVars
<1>5. CASE FatalException
  BY <1>5 DEF FatalException, Hang, FrameKept
<1>6. CASE ExternalInterrupt
  <2>1. Pushed(last_irq) = 0
    BY <1>6 DEF ExternalInterrupt, Fatal, HaveErrorCodes, Pushed
  <2> QED
    BY <1>6, <2>1 DEF ExternalInterrupt, FrameKept, Returned, procVars, historyVars
<1>7. CASE HandleSyscall
  <2>1. pc = "dispatch" /\ last_irq = Syscall /\ stack = TrapFrame(trapped, 0)
    BY <1>7, SyscallPushesNothing DEF HandleSyscall, FrameKept
  <2>2. trapped \in Registers
    BY DEF IInv, TypeOK
  <2>3. stack[-6] = trapped.eax
    BY <2>1, <2>2, PopTrapFrame
  <2>4. CASE HasHandler(trapped.eax)
    <3> DEFINE x == ReturnValue(Installed[trapped.eax])
    <3>1. syscall_handlers = Installed
            /\ x \in Nat /\ x = DocumentedResult(trapped.eax)
      BY <2>4, InstalledResult DEF IInv, DocumentedResult
    <3>2. pc' = "next" /\ stack' = [stack EXCEPT ![-6] = x]
            /\ UNCHANGED <<last_irq, trapped>>
      BY <1>7, <2>3, <2>4, <3>1 DEF HandleSyscall, PokeResult
    <3>3. stack' = TrapFrame([trapped EXCEPT !.eax = x], 0)
      BY <2>1, <2>2, <3>1, <3>2, PokeTrapFrame
    <3>4. Returned' = [trapped EXCEPT !.eax = x]
      BY <2>1, <3>1, <3>2 DEF Returned
    <3> QED BY <3>2, <3>3, <3>4 DEF FrameKept
  <2>5. CASE ~HasHandler(trapped.eax)
    BY <1>7, <2>3, <2>5 DEF HandleSyscall, Hang, FrameKept
  <2> QED BY <2>4, <2>5
<1>8. CASE InterruptStep
  BY <1>8, TrapKeepsFrame DEF InterruptStep, TakeInterrupt
<1>9. CASE SpuriousStep
  BY <1>9, TrapKeepsFrame DEF SpuriousStep, TakeSpurious
<1>10. CASE ProcessStep
  BY <1>10, TrapKeepsFrame DEF ProcessStep, SetInterruptFlag, MakeSyscall, CauseFault,
     FrameKept
<1>11. CASE \E line \in Lines : RaiseLine(line)
  BY <1>11 DEF RaiseLine, FrameKept, Returned, procVars, historyVars
<1>12. CASE UNCHANGED vars
  BY <1>12 DEF vars, procVars, historyVars, FrameKept, Returned
<1> QED
  BY <1>1, <1>2, <1>3, <1>4, <1>5, <1>6, <1>7, <1>8, <1>9, <1>10, <1>11, <1>12
  DEF Next, KernelStep, Halted

LEMMA SpecFrameKept == Spec => [](IInv /\ FrameKept)
<1>1. Init => IInv /\ FrameKept
  BY InitIInv, InitFrameKept
<1>2. IInv /\ FrameKept /\ [Next]_vars => (IInv /\ FrameKept)'
  BY NextIInv, NextFrameKept
<1> QED BY <1>1, <1>2, PTL DEF Spec

-----------------------------------------------------------------------------
(* The theorems.                                                           *)

(* Type correctness.                                                       *)
THEOREM SpecTypeOK == Spec => []TypeOK
<1>1. IInv => TypeOK
  BY DEF IInv
<1> QED BY <1>1, SpecIInv, PTL

(* enter_process() chooses the assembly routine that fits the context the  *)
(* last trap, or init_stack(), left.                                       *)
THEOREM SpecContextMatchesState == Spec => []ContextMatchesState
<1>1. IInv => ContextMatchesState
  BY DEF IInv, TypeOK, ContextReady, ContextMatchesState, STARTING, ALIVE, DEAD
<1> QED BY <1>1, SpecIInv, PTL

(* Each interrupt, spurious ones and the slave's too, has its EOIs by the  *)
(* time the process runs again.                                            *)
THEOREM SpecNothingLeftInService == Spec => []NothingLeftInService
<1>1. IInv => NothingLeftInService
  BY DEF IInv, Service, NothingLeftInService
<1> QED BY <1>1, SpecIInv, PTL

(* A trap that overran the syscall stack is the last thing that happens.   *)
THEOREM SpecOverrunStops == Spec => []OverrunStops
<1>1. IInv => OverrunStops
  BY DEF IInv
<1> QED BY <1>1, SpecIInv, PTL

(* The process comes back from a trap with the registers it left with, but *)
(* for the documented result of a syscall in eax.                          *)
THEOREM SpecTrapsRestoreRegisters == Spec => TrapsRestoreRegisters
<1> DEFINE Restores ==
      pc = "enter" /\ pc' = "user" /\ m_state = ALIVE => regs' = Returned
<1>1. IInv /\ FrameKept /\ [Next]_vars => [Restores]_vars
  <2> SUFFICES ASSUME IInv, FrameKept, Next, pc = "enter", pc' = "user",
                      m_state = ALIVE
               PROVE  regs' = Returned
    BY DEF vars
  <2>1. EnterProcess
    BY DEF Next, KernelStep, Loop, CheckProtector, SwitchToNext, FatalException,
       ExternalInterrupt, HandleSyscall, InterruptStep, TakeInterrupt, SpuriousStep,
       TakeSpurious, ProcessStep, SetInterruptFlag, MakeSyscall, CauseFault,
       RaiseLine, Halted, vars
  <2>2. regs' = PopRegisters
    BY <2>1 DEF EnterProcess, ALIVE, DEAD
  <2>3. Returned \in Registers
    BY DEF IInv, TypeOK, Returned, Registers, DocumentedResult
  <2>4. stack = TrapFrame(Returned, 0)
    BY DEF FrameKept
  <2> QED BY <2>2, <2>3, <2>4, PopTrapFrame
<1> QED BY <1>1, SpecFrameKept, PTL DEF Spec, TrapsRestoreRegisters

(* The handler that is called is that of the number the process had in     *)
(* eax, with its ebx, ecx and edx, in this order.                          *)
THEOREM SpecHandlerGetsArguments == Spec => HandlerGetsArguments
<1> DEFINE GetsArguments ==
      pc = "dispatch" /\ last_irq = Syscall /\ pc' = "next" =>
        called' = [handler   |-> Installed[trapped.eax],
                   arguments |-> <<trapped.ebx, trapped.ecx, trapped.edx>>]
<1>1. IInv /\ FrameKept /\ [Next]_vars => [GetsArguments]_vars
  <2> SUFFICES ASSUME IInv, FrameKept, Next, pc = "dispatch", last_irq = Syscall,
                      pc' = "next"
               PROVE  called' = [handler   |-> Installed[trapped.eax],
                                 arguments |-> <<trapped.ebx, trapped.ecx,
                                                 trapped.edx>>]
    BY DEF vars
  <2>1. HandleSyscall
    BY DEF Next, KernelStep, Loop, EnterProcess, CheckProtector, SwitchToNext,
       FatalException, Hang, ExternalInterrupt, InterruptStep, TakeInterrupt,
       SpuriousStep, TakeSpurious, ProcessStep, SetInterruptFlag, MakeSyscall,
       CauseFault, RaiseLine, Halted, vars
  <2>2. trapped \in Registers /\ stack = TrapFrame(trapped, 0)
    BY SyscallPushesNothing DEF IInv, TypeOK, FrameKept
  <2>3. stack[-6] = trapped.eax
          /\ Arguments = <<trapped.ebx, trapped.ecx, trapped.edx>>
    BY <2>2, PopTrapFrame
  <2>4. HasHandler(stack[-6])
          /\ called' = [handler   |-> syscall_handlers[stack[-6]],
                        arguments |-> Arguments]
    BY <2>1 DEF HandleSyscall, Hang
  <2>5. syscall_handlers = Installed
    BY <2>4, InstalledResult DEF IInv
  <2> QED BY <2>3, <2>4, <2>5
<1> QED BY <1>1, SpecFrameKept, PTL DEF Spec, HandlerGetsArguments
=============================================================================
