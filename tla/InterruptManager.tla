-------------------------- MODULE InterruptManager --------------------------
(***************************************************************************)
(* Interrupts (interrupts.cpp, interruptstubs.s): from the line a device   *)
(* raises, through the two interrupt controllers and the stub, to the      *)
(* handler and back, with the boot that registers the handlers, the timer  *)
(* (pit.cpp) and the system call handler (syscalls.cpp).                   *)
(*                                                                         *)
(* A step is what the processor does between two points where a device may *)
(* raise a line.  Registers and stack are explicit: the stub pushes them   *)
(* in one order and the handlers read them through a struct of another.    *)
(* What the keyboard and mouse handlers do is not this module's matter;    *)
(* here they take time and clobber registers.  The controllers and the     *)
(* processor's own part of an interrupt are external.                      *)
(***************************************************************************)
EXTENDS Integers, Sequences

CONSTANTS Words, \* what a general register can hold, besides 0
          Calls, \* numbers of the system calls that are made
          Wrap   \* the tick counter counts modulo this: 2^32

ASSUME InterruptAssumption ==
  /\ Words \subseteq Int
  /\ Calls \subseteq 1 .. 7
  /\ Wrap \in Nat \ {0}

VARIABLES pc,     \* where the processor is
          iflag,  \* does it accept interrupts
          regs,   \* its registers
          stack,  \* the top of the kernel stack, the lowest address first
          number, \* interruptnumber, the byte the stubs share
          serving \* ghost: what was interrupted, the innermost first

VARIABLES handlers, \* the vectors that have a handler
          active,   \* is there an ActiveInterruptManager
          ticks     \* the timer's count

VARIABLES irr,    \* lines raised and not yet delivered
          master, \* inputs in service at the first controller
          slave   \* lines in service at the second

cpu == <<pc, iflag, regs, stack, number, serving>>
kernel == <<handlers, active, ticks>>
pic == <<irr, master, slave>>
vars == <<cpu, kernel, pic>>

-----------------------------------------------------------------------------
(* Layout. *)

Timer == 0    \* The lines that are used: IRQ 0, 1, 12 and, by the disk, 14.
Keyboard == 1
Mouse == 12
Disk == 14
Lines == {Timer, Keyboard, Mouse, Disk}

hardwareInterruptOffset == 32
Vector(l) == hardwareInterruptOffset + l
SyscallVector == 128

\* What the stub leaves on the stack: its pushes (segments last, so lowest),
\* then what the processor pushed.
Slots == <<"gs", "fs", "es", "ds",
           "edi", "esi", "ebp", "esp", "ebx", "edx", "ecx", "eax">>
FrameSize == Len(Slots) + 3
Slot(r) == CHOOSE i \in DOMAIN Slots : Slots[i] = r

Segments == {"gs", "fs", "es", "ds"}
Selector == 24 \* what the segment registers hold
Regs == {Slots[i] : i \in DOMAIN Slots}

\* The struct through which a handler sees that stack.
CPUState == <<"eax", "ebx", "ecx", "edx", "esi", "edi", "ebp", "error",
              "eip", "cs", "eflags", "esp", "ss">>
Field(f) == CHOOSE i \in DOMAIN CPUState : CPUState[i] = f

-----------------------------------------------------------------------------
(* The interrupt controllers. *)

\* The second controller hangs on input 2 of the first.
Input(l) == IF l < 8 THEN l ELSE 2
Prio(l) == 16 * Input(l) + l

Blocked(l) ==
  \/ \E m \in master : m <= Input(l)
  \/ l >= 8 /\ \E m \in slave : m <= l

Offered(l) ==
  /\ l \in irr /\ ~Blocked(l)
  /\ \A m \in irr : Blocked(m) \/ Prio(l) <= Prio(m)

\* A device raises its line; one that is pending already is lost.
Raise(l) ==
  /\ irr' = irr \cup {l}
  /\ UNCHANGED <<cpu, kernel, master, slave>>

\* A non-specific end of interrupt ends the most urgent one in service.
Ended(inService) ==
  {m \in inService : \E k \in inService : k < m}

-----------------------------------------------------------------------------
(* Boot: the constructors register their handlers, then interrupts go on.  *)

BootOrder == <<Vector(Timer), SyscallVector, Vector(Keyboard), Vector(Mouse)>>
Drivers == {BootOrder[i] : i \in DOMAIN BootOrder}

Init ==
  /\ pc = "boot" /\ iflag = FALSE
  /\ regs = [r \in Regs |-> IF r \in Segments THEN Selector ELSE 0]
  /\ stack = <<>> /\ number = 0 /\ serving = <<>>
  /\ handlers = {} /\ active = FALSE /\ ticks = 0
  /\ irr = {} /\ master = {} /\ slave = {}

Register(i) ==
  /\ pc = "boot"
  /\ {BootOrder[j] : j \in 1 .. i - 1} = handlers
  /\ handlers' = handlers \cup {BootOrder[i]}
  /\ UNCHANGED <<cpu, active, ticks, pic>>

\* Slip in kernelMain: interrupts go on before the drivers are constructed.
ActivateEarly ==
  /\ pc = "boot"
  /\ handlers # {}
  /\ active' = TRUE /\ iflag' = TRUE /\ pc' = "main"
  /\ UNCHANGED <<regs, stack, number, serving, handlers, ticks, pic>>

Activate ==
  /\ pc = "boot"
  /\ handlers = Drivers
  /\ active' = TRUE /\ iflag' = TRUE /\ pc' = "main"
  /\ UNCHANGED <<regs, stack, number, serving, handlers, ticks, pic>>

-----------------------------------------------------------------------------
(* An interrupt. *)

\* Kernel code goes on with other values in its registers.
Run ==
  /\ pc = "main"
  /\ \E r \in {"eax", "ebx"}, w \in Words : regs' = [regs EXCEPT ![r] = w]
  /\ UNCHANGED <<pc, iflag, stack, number, serving, kernel, pic>>

\* Slip in the descriptor table: a trap gate leaves interrupts on.
EnterTrap(v) ==
  /\ stack' = <<pc, "cs", iflag>> \o stack
  /\ iflag' = iflag
  /\ number' = v /\ pc' = "stub"
  /\ serving' = <<[vector |-> v, regs |-> regs', pc |-> pc]>> \o serving

\* All gates are interrupt gates; the stub's first instruction stores its
\* number in the byte all stubs share.
Enter(v) ==
  /\ stack' = <<pc, "cs", iflag>> \o stack
  /\ iflag' = FALSE
  /\ number' = v /\ pc' = "stub"
  /\ serving' = <<[vector |-> v, regs |-> regs', pc |-> pc]>> \o serving

Deliver(l) ==
  /\ iflag
  /\ Offered(l)
  /\ irr' = irr \ {l}
  /\ master' = master \cup {Input(l)}
  /\ slave' = IF l < 8 THEN slave ELSE slave \cup {l}
  /\ UNCHANGED regs
  /\ Enter(Vector(l))
  /\ UNCHANGED kernel

\* int 0x80 as the wrappers make it: the number in EAX, the argument in EBX.
Syscall(n, arg) ==
  /\ pc = "main"
  /\ regs' = [regs EXCEPT !["eax"] = n, !["ebx"] = arg]
  /\ Enter(SyscallVector)
  /\ UNCHANGED <<kernel, pic>>

\* Slip in the stub: it saves only what a compiler would (no pusha).
SaveSome ==
  /\ pc = "stub"
  /\ stack' = [i \in DOMAIN Slots |->
                 IF Slots[i] \in {"eax", "ecx"} THEN 0 ELSE regs[Slots[i]]] \o stack
  /\ pc' = "call"
  /\ UNCHANGED <<iflag, regs, number, serving, kernel, pic>>

Save ==
  /\ pc = "stub"
  /\ stack' = [i \in DOMAIN Slots |-> regs[Slots[i]]] \o stack
  /\ pc' = "call"
  /\ UNCHANGED <<iflag, regs, number, serving, kernel, pic>>

\* What the system call handler reads as number and argument, and answers.
SyscallNumber == stack[Field("eax")]
Block == 100 \* whatever malloc returns
SyscallResult(n, arg) ==
  CASE n = 3 -> arg
    [] n = 6 -> Block
    [] n \in {1, 2, 4, 5, 7} -> 0
    [] OTHER -> -1

\* Slip in the timer's handler: the interrupt is handled and not counted.
HandlerUncounted ==
  IF number = SyscallVector
  THEN /\ stack' = [stack EXCEPT ![Field("eax")] =
                      SyscallResult(SyscallNumber, stack[Field("ebx")])]
       /\ UNCHANGED ticks
  ELSE UNCHANGED <<stack, ticks>>

\* The handler of this number runs.  The registers it leaves do not matter:
\* its return value is the stack it was given, so the same frame is restored.
Handler ==
  CASE number = Vector(Timer) ->
         ticks' = (ticks + 1) % Wrap /\ UNCHANGED stack
    [] number = SyscallVector ->
         /\ stack' = [stack EXCEPT ![Field("eax")] =
                        SyscallResult(SyscallNumber, stack[Field("ebx")])]
         /\ UNCHANGED ticks
    [] OTHER -> UNCHANGED <<stack, ticks>>

HandleInterrupt ==
  /\ pc = "call"
  /\ IF active /\ number \in handlers THEN Handler ELSE UNCHANGED <<stack, ticks>>
  /\ pc' = IF active THEN "acknowledge" ELSE "restore"
  /\ \E w \in Words : regs' = [regs EXCEPT !["eax"] = w, !["ebx"] = w]
  /\ UNCHANGED <<iflag, number, serving, handlers, active, pic>>

FromHardware(n) == n - hardwareInterruptOffset \in 0 .. 15

\* Slip: the second controller is never told.
BeyondSecond(n) == hardwareInterruptOffset + 16 <= n

FromSecond(n) == hardwareInterruptOffset + 8 <= n

Acknowledge ==
  /\ pc = "acknowledge"
  /\ pc' = "restore"
  /\ master' = IF FromHardware(number) THEN Ended(master) ELSE master
  /\ slave' = IF FromHardware(number) /\ FromSecond(number) THEN Ended(slave) ELSE slave
  /\ UNCHANGED <<iflag, regs, stack, number, serving, kernel, irr>>

\* Slip in the stub: a plain return, which leaves the flags on the stack.
RestoreWithRet ==
  /\ pc = "restore"
  /\ regs' = [r \in Regs |-> stack[Slot(r)]]
  /\ pc' = stack[FrameSize - 2] /\ iflag' = TRUE
  /\ stack' = SubSeq(stack, FrameSize, Len(stack))
  /\ serving' = Tail(serving)
  /\ UNCHANGED <<number, kernel, pic>>

\* The stub pops what it pushed and returns; no descriptor, no segment.
Restore ==
  /\ pc = "restore"
  /\ IF \A s \in Segments : stack[Slot(s)] = Selector
     THEN /\ regs' = [r \in Regs |-> stack[Slot(r)]]
          /\ pc' = stack[FrameSize - 2] /\ iflag' = stack[FrameSize]
          /\ stack' = SubSeq(stack, FrameSize + 1, Len(stack))
          /\ serving' = Tail(serving)
     ELSE pc' = "faulted" /\ UNCHANGED <<iflag, regs, stack, serving>>
  /\ UNCHANGED <<number, kernel, pic>>

Stub == Save \/ HandleInterrupt \/ Acknowledge \/ Restore

Next ==
  \/ \E l \in Lines : Raise(l)
  \/ \E i \in DOMAIN BootOrder : Register(i)
  \/ Activate
  \/ Run
  \/ \E l \in Lines : Deliver(l)
  \/ \E n \in Calls, w \in Words : Syscall(n, w)
  \/ Stub

Boot == Activate \/ \E i \in DOMAIN BootOrder : Register(i)
Deliveries == \E l \in Lines : Deliver(l)

\* The processor runs: it boots, takes an interrupt that is offered before the
\* next instruction, and handlers return (their loops are bounded).
Spec == Init /\ [][Next]_vars /\ WF_vars(Boot) /\ WF_vars(Stub) /\ WF_vars(Deliveries)

-----------------------------------------------------------------------------
(* Properties. *)

\* The variables have their types, and the stack holds one frame per interrupt
\* that is being served.
TypeOK ==
  /\ pc \in {"boot", "main", "stub", "call", "acknowledge", "restore", "faulted"}
  /\ iflag \in BOOLEAN /\ active \in BOOLEAN
  /\ number \in {0, SyscallVector} \cup {Vector(l) : l \in Lines}
  /\ handlers \subseteq Drivers /\ ticks \in 0 .. Wrap - 1
  /\ irr \subseteq Lines
  /\ master \subseteq {Input(l) : l \in Lines} /\ slave \subseteq {l \in Lines : l >= 8}
  /\ Len(stack) = FrameSize * Len(serving) - (IF pc = "stub" THEN Len(Slots) ELSE 0)

\* A device's interrupt gives the interrupted code its registers, its place and
\* its interrupt flag back.
ContextRestored ==
  [][Restore /\ serving[1].vector # SyscallVector =>
       regs' = serving[1].regs /\ pc' = serving[1].pc /\ iflag']_vars

\* With interrupts on, nothing is in service: a line whose interrupt is never
\* ended is dead, and so is every less urgent one.
NothingInService == iflag => master = {} /\ slave = {}

\* The byte all stubs share still names the interrupt being served when the
\* handler is chosen and when it is acknowledged.
NumberIsOwn ==
  pc \in {"call", "acknowledge"} => number = serving[1].vector

\* No interrupt of a driver's device goes by unhandled.
NoneMissed ==
  [][HandleInterrupt /\ number \in Drivers => active /\ number \in handlers]_vars

\* A tick that is pending at any count takes the count up by one, over the end
\* of the counter too, unless a system call has stopped all.
TicksCounted ==
  \A t \in 0 .. Wrap - 1 :
    (Timer \in irr /\ ticks = t) ~> (ticks = (t + 1) % Wrap \/ pc = "faulted")

\* "System call number is in EAX" (syscalls.cpp:24): the handler acts on the
\* number the wrapper put into EAX.
SyscallNumberInEAX ==
  [][HandleInterrupt /\ number = SyscallVector => SyscallNumber = serving[1].regs["eax"]]_vars
=============================================================================
