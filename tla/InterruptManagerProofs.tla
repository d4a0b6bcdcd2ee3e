----------------------- MODULE InterruptManagerProofs ------------------------
(***************************************************************************)
(* A device's interrupt is invisible to the code it interrupts, finds its  *)
(* handler and leaves nothing in service, for every set of register words  *)
(* and system calls and every width of the tick counter.                   *)
(***************************************************************************)
EXTENDS InterruptManager, SequenceTheorems, TLAPS

-----------------------------------------------------------------------------
(* The inductive invariant. *)

\* The processor serves an interrupt.
Inside == {"stub", "call", "acknowledge", "restore", "faulted"}

\* Interrupts are accepted in the main flow and nowhere else, and not before
\* every driver has its handler.
Switched ==
  /\ iflag \in BOOLEAN
  /\ iflag <=> pc = "main"
  /\ pc = "boot" => ~active /\ handlers \subseteq Drivers
  /\ pc # "boot" => active /\ handlers = Drivers

\* Outside, nothing is on the stack, being served or in service.
AtRest ==
  pc \in {"boot", "main"} =>
    stack = <<>> /\ serving = <<>> /\ master = {} /\ slave = {}

\* Inside, one interrupt is served, the main flow's, and the shared byte
\* holds its number.
One ==
  pc \in Inside =>
    /\ serving = <<serving[1]>>
    /\ serving[1].vector = number /\ serving[1].pc = "main"

\* The lines in service are the one that is served, until it is acknowledged.
Service ==
  pc \in Inside =>
    IF pc \in {"restore", "faulted"} \/ number = SyscallVector
    THEN master = {} /\ slave = {}
    ELSE \E l \in Lines : /\ number = Vector(l)
                          /\ master = {Input(l)}
                          /\ slave = IF l < 8 THEN {} ELSE {l}

\* The segment registers are never changed, nor is the set of registers.
Registers ==
  /\ regs = [r \in Regs |-> regs[r]]
  /\ pc \in Inside => serving[1].regs = [r \in Regs |-> serving[1].regs[r]]
  /\ \A s \in Segments :
       /\ regs[s] = Selector
       /\ pc \in Inside => serving[1].regs[s] = Selector

\* Before the stub saves the registers they are the interrupted code's; from
\* then on the stack holds them, except for what the system call handler writes.
Frame ==
  /\ pc = "stub" =>
       /\ stack = <<stack[1], stack[2], stack[3]>>
       /\ stack[1] = "main" /\ stack[3] = TRUE
       /\ regs = serving[1].regs
  /\ pc \in Inside \ {"stub"} =>
       /\ stack = [i \in 1 .. 15 |-> stack[i]] /\ Len(stack) = 15
       /\ stack[13] = "main" /\ stack[15] = TRUE
       /\ number # SyscallVector =>
            \A i \in DOMAIN Slots : stack[i] = serving[1].regs[Slots[i]]

\* Only a system call's frame can fail to be restored.
Faults == pc = "faulted" => number = SyscallVector

\* The variables whose type follows from nothing else.
Typed ==
  /\ pc \in {"boot", "main"} \cup Inside
  /\ active \in BOOLEAN
  /\ number \in {0, SyscallVector} \cup {Vector(l) : l \in Lines}
  /\ irr \subseteq Lines
  /\ ticks \in 0 .. Wrap - 1

IInv == Typed /\ Switched /\ AtRest /\ One /\ Service /\ Registers /\ Frame /\ Faults

-----------------------------------------------------------------------------
(* The vectors, the controllers and the stub's frame. *)

Vectors == {SyscallVector} \cup {Vector(l) : l \in Lines}

(***************************************************************************)
(* The lines are wired to the vectors from 32 on, the second controller's  *)
(* from 40 on, and int 0x80 is none of them.                               *)
(***************************************************************************)
LEMMA LineVectors ==
  ASSUME NEW l \in Lines
  PROVE  /\ l \in Int /\ Input(l) \in Int /\ Vector(l) # SyscallVector
         /\ FromHardware(Vector(l)) /\ (FromSecond(Vector(l)) <=> l >= 8)
         /\ ~FromHardware(SyscallVector)
BY DEF Lines, Timer, Keyboard, Mouse, Disk, Input, Vector, SyscallVector,
       hardwareInterruptOffset, FromHardware, FromSecond

(***************************************************************************)
(* Ending the only interrupt in service leaves none.                       *)
(***************************************************************************)
LEMMA EndsOnly ==
  /\ Ended({}) = {}
  /\ \A x \in Int : Ended({x}) = {}
BY DEF Ended

(***************************************************************************)
(* The stub pushes twelve registers, of which four are segments, under the *)
(* three words of the processor.                                           *)
(***************************************************************************)
LEMMA Layout ==
  /\ DOMAIN Slots = 1 .. 12 /\ Len(Slots) = 12 /\ FrameSize = 15
  /\ \A i \in 1 .. 12 : Slots[i] \in Regs
  /\ Segments \subseteq Regs /\ {"eax", "ebx"} \subseteq Regs \ Segments
<1>1. DOMAIN Slots = 1 .. 12 /\ Len(Slots) = 12
  BY DEF Slots
<1>2. FrameSize = 15
  BY <1>1 DEF FrameSize
<1>3. \A i \in 1 .. 12 : Slots[i] \in Regs
  BY <1>1 DEF Regs
<1>4. Slots[1] = "gs" /\ Slots[2] = "fs" /\ Slots[3] = "es" /\ Slots[4] = "ds"
      /\ Slots[9] = "ebx" /\ Slots[12] = "eax"
  BY DEF Slots
<1>5. Segments \subseteq Regs /\ {"eax", "ebx"} \subseteq Regs \ Segments
  BY <1>3, <1>4 DEF Segments
<1>6. QED
  BY <1>1, <1>2, <1>3, <1>5

(***************************************************************************)
(* Every register has a slot, and the frame's first field is a segment's   *)
(* slot: the one the system call handler writes.                           *)
(***************************************************************************)
LEMMA SlotsOfRegisters ==
  /\ \A r \in Regs : Slot(r) \in 1 .. 12 /\ Slots[Slot(r)] = r
  /\ Field("eax") = 1
<1>1. ASSUME NEW r \in Regs
      PROVE  Slot(r) \in DOMAIN Slots /\ Slots[Slot(r)] = r
  <2>1. \E i \in DOMAIN Slots : Slots[i] = r
    BY DEF Regs
  <2>2. QED
    BY <2>1 DEF Slot
<1>2. DOMAIN CPUState = 1 .. 13 /\ CPUState[1] = "eax"
  BY DEF CPUState
<1>3. \A i \in 1 .. 13 : CPUState[i] = "eax" => i = 1
  BY DEF CPUState
<1>4. Field("eax") = 1
  BY <1>2, <1>3 DEF Field
<1>5. QED
  BY <1>1, <1>4, Layout

(***************************************************************************)
(* What is not in the type invariant's own words follows from the rest: no *)
(* more than one frame is on the stack, and no more than one interrupt in  *)
(* service.                                                                *)
(***************************************************************************)
LEMMA TypesFollow ==
  IInv => TypeOK
<1> SUFFICES ASSUME IInv
             PROVE  TypeOK
  OBVIOUS
<1> USE DEF IInv
<1>1. handlers \subseteq Drivers
  BY DEF Switched
<1>2. iflag \in BOOLEAN /\ active \in BOOLEAN
  BY DEF Switched, Typed
<1>3. /\ master \subseteq {Input(l) : l \in Lines}
      /\ slave \subseteq {l \in Lines : l >= 8}
  <2>1. CASE master = {} /\ slave = {}
    BY <2>1
  <2>2. ASSUME NEW l \in Lines, master = {Input(l)}, slave = IF l < 8 THEN {} ELSE {l}
        PROVE  /\ master \subseteq {Input(k) : k \in Lines}
               /\ slave \subseteq {k \in Lines : k >= 8}
    <3>1. l \in Int
      BY LineVectors
    <3>2. slave \subseteq {k \in Lines : k >= 8}
      BY <2>2, <3>1
    <3>3. QED
      BY <2>2, <3>2
  <2>3. (master = {} /\ slave = {}) \/ (\E l \in Lines :
             master = {Input(l)} /\ slave = IF l < 8 THEN {} ELSE {l})
    BY DEF AtRest, Service, Typed
  <2>4. QED
    BY <2>1, <2>2, <2>3
<1>4. Len(stack) = FrameSize * Len(serving) - (IF pc = "stub" THEN Len(Slots) ELSE 0)
  <2>1. CASE pc \in {"boot", "main"}
    BY <2>1, Layout DEF AtRest
  <2>2. CASE pc = "stub"
    <3>1. Len(serving) = 1 /\ Len(stack) = 3
      BY <2>2 DEF One, Frame, Inside
    <3>2. QED
      BY <2>2, <3>1, Layout
  <2>3. CASE pc \in Inside \ {"stub"}
    <3>1. Len(serving) = 1 /\ Len(stack) = 15
      BY <2>3 DEF One, Frame
    <3>2. QED
      BY <2>3, <3>1, Layout
  <2>4. QED
    BY <2>1, <2>2, <2>3 DEF Typed
<1>5. pc \in {"boot", "main", "stub", "call", "acknowledge", "restore", "faulted"}
  BY DEF Typed, Inside
<1>6. QED
  BY <1>1, <1>2, <1>3, <1>4, <1>5 DEF Typed, TypeOK

-----------------------------------------------------------------------------
(***************************************************************************)
(* The kernel boots with interrupts off and nothing on its stack.          *)
(***************************************************************************)
LEMMA InitIInv ==
  ASSUME Init
  PROVE  IInv
<1> USE DEF Init
<1>1. ticks \in 0 .. Wrap - 1
  BY InterruptAssumption
<1>2. Typed /\ Switched
  BY <1>1 DEF Typed, Switched
<1>3. AtRest /\ One /\ Service /\ Frame /\ Faults
  BY DEF AtRest, One, Service, Frame, Faults, Inside
<1>4. Registers
  BY Layout DEF Registers, Inside
<1>5. QED
  BY <1>2, <1>3, <1>4 DEF IInv

(***************************************************************************)
(* A raised line waits; a registered handler is a driver's; interrupts go  *)
(* on when all are there.                                                  *)
(***************************************************************************)
LEMMA OutsideIInv ==
  ASSUME IInv, \/ \E l \in Lines : Raise(l)
               \/ \E i \in DOMAIN BootOrder : Register(i)
               \/ Activate
  PROVE  IInv'
<1> USE DEF IInv
<1>1. CASE \E l \in Lines : Raise(l)
  <2>1. PICK l \in Lines : Raise(l)
    BY <1>1
  <2> USE <2>1 DEF Raise, cpu, kernel
  <2>2. Typed' /\ Switched' /\ Faults'
    BY DEF Typed, Switched, Faults
  <2>3. AtRest' /\ One' /\ Service'
    BY DEF AtRest, One, Service
  <2>4. Registers' /\ Frame'
    BY DEF Registers, Frame
  <2>5. QED
    BY <2>2, <2>3, <2>4
<1>2. CASE \E i \in DOMAIN BootOrder : Register(i)
  <2>1. PICK i \in DOMAIN BootOrder : Register(i)
    BY <1>2
  <2> USE <2>1 DEF Register, cpu, pic
  <2>2. handlers' \subseteq Drivers
    BY DEF Drivers, Switched
  <2>3. Typed' /\ Switched' /\ Faults'
    BY <2>2 DEF Typed, Switched, Faults
  <2>4. AtRest' /\ One' /\ Service'
    BY DEF AtRest, One, Service
  <2>5. Registers' /\ Frame'
    BY DEF Registers, Frame
  <2>6. QED
    BY <2>3, <2>4, <2>5
<1>3. CASE Activate
  <2> USE <1>3 DEF Activate, pic
  <2>1. Typed' /\ Switched' /\ Faults'
    BY DEF Typed, Switched, Faults
  <2>2. AtRest' /\ One' /\ Service' /\ Frame'
    BY DEF AtRest, One, Service, Frame, Inside
  <2>3. Registers'
    BY DEF Registers, Inside
  <2>4. QED
    BY <2>1, <2>2, <2>3
<1>4. QED
  BY <1>1, <1>2, <1>3

(***************************************************************************)
(* Kernel code changes no segment register.                                *)
(***************************************************************************)
LEMMA RunIInv ==
  ASSUME IInv, Run
  PROVE  IInv'
<1> USE DEF IInv
<1>1. PICK r \in {"eax", "ebx"}, w \in Words : regs' = [regs EXCEPT ![r] = w]
  BY DEF Run
<1> USE DEF Run, kernel, pic
<1>2. Typed' /\ Switched' /\ Faults'
  BY DEF Typed, Switched, Faults
<1>3. AtRest' /\ One' /\ Service' /\ Frame'
  BY DEF AtRest, One, Service, Frame, Inside
<1>4. Registers'
  BY <1>1, Layout DEF Registers, Inside
<1>5. QED
  BY <1>2, <1>3, <1>4

(***************************************************************************)
(* An interrupt of the main flow is the only one: it is entered from an    *)
(* empty stack with interrupts off.                                        *)
(***************************************************************************)
LEMMA EnterIInv ==
  ASSUME IInv, pc = "main", NEW v \in Vectors, Enter(v), UNCHANGED kernel,
         irr' \subseteq Lines,
         regs' = [r \in Regs |-> regs'[r]], \A s \in Segments : regs'[s] = Selector,
         IF v = SyscallVector
         THEN master' = {} /\ slave' = {}
         ELSE \E l \in Lines : /\ v = Vector(l)
                               /\ master' = {Input(l)}
                               /\ slave' = IF l < 8 THEN {} ELSE {l}
  PROVE  IInv'
<1> USE DEF IInv
<1> USE DEF Enter, kernel
<1>1. Typed' /\ Switched' /\ Faults'
  BY DEF Typed, Switched, Faults, Inside, Vectors
<1>2. serving = <<>> /\ stack = <<>> /\ iflag
  BY DEF AtRest, Switched
<1>3. /\ serving' = <<[vector |-> v, regs |-> regs', pc |-> pc]>>
      /\ stack' = <<pc, "cs", iflag>>
  BY <1>2
<1>4. AtRest' /\ One'
  BY <1>3 DEF AtRest, One, Inside
<1>5. Service'
  BY DEF Service, Inside
<1>6. Registers'
  BY <1>3 DEF Registers, Inside
<1>7. Frame'
  BY <1>2, <1>3 DEF Frame, Inside
<1>8. QED
  BY <1>1, <1>4, <1>5, <1>6, <1>7

(***************************************************************************)
(* The controllers put the line they deliver in service, and no other.     *)
(***************************************************************************)
LEMMA DeliverIInv ==
  ASSUME IInv, NEW l \in Lines, Deliver(l)
  PROVE  IInv'
<1>1. pc = "main"
  BY DEF Deliver, IInv, Switched
<1>2. master = {} /\ slave = {}
  BY <1>1 DEF IInv, AtRest
<1>3. Vector(l) \in Vectors /\ Vector(l) # SyscallVector
  BY LineVectors DEF Vectors
<1>4. master' = {Input(l)} /\ slave' = IF l < 8 THEN {} ELSE {l}
  BY <1>2 DEF Deliver
<1>5. irr' \subseteq Lines
  BY DEF Deliver, IInv, Typed
<1>6. regs' = [r \in Regs |-> regs'[r]] /\ \A s \in Segments : regs'[s] = Selector
  BY DEF Deliver, IInv, Registers
<1>7. QED
  BY <1>1, <1>3, <1>4, <1>5, <1>6, EnterIInv DEF Deliver

(***************************************************************************)
(* A system call puts its number and argument into two registers and       *)
(* passes no controller.                                                   *)
(***************************************************************************)
LEMMA SyscallIInv ==
  ASSUME IInv, NEW n \in Calls, NEW w \in Words, Syscall(n, w)
  PROVE  IInv'
<1>1. pc = "main"
  BY DEF Syscall
<1>2. master' = {} /\ slave' = {} /\ irr' \subseteq Lines
  BY <1>1 DEF IInv, AtRest, Typed, Syscall, pic
<1>3. regs' = [regs EXCEPT !["eax"] = n, !["ebx"] = w]
  BY DEF Syscall
<1>4. regs' = [r \in Regs |-> regs'[r]] /\ \A s \in Segments : regs'[s] = Selector
  BY <1>3, Layout DEF IInv, Registers
<1>5. SyscallVector \in Vectors
  BY DEF Vectors
<1>6. QED
  BY <1>1, <1>2, <1>4, <1>5, EnterIInv DEF Syscall

(***************************************************************************)
(* Twelve words pushed on three.                                           *)
(***************************************************************************)
LEMMA Pushed ==
  ASSUME NEW f, f = [i \in 1 .. 12 |-> f[i]], NEW a, NEW b, NEW c
  PROVE  /\ f \o <<a, b, c>> = [i \in 1 .. 15 |-> (f \o <<a, b, c>>)[i]]
         /\ Len(f \o <<a, b, c>>) = 15
         /\ (f \o <<a, b, c>>)[13] = a /\ (f \o <<a, b, c>>)[15] = c
         /\ \A i \in 1 .. 12 : (f \o <<a, b, c>>)[i] = f[i]
<1> DEFINE S == {f[i] : i \in 1 .. 12} \cup {a, b, c}
           t == <<a, b, c>>
           s == f \o t
<1>1. f \in Seq(S) /\ Len(f) = 12
  OBVIOUS
<1>2. t \in Seq(S) /\ Len(t) = 3 /\ t[1] = a /\ t[3] = c
  OBVIOUS
<1> HIDE DEF S, t
<1>3. /\ s \in Seq(S) /\ Len(s) = Len(f) + Len(t)
      /\ \A i \in 1 .. Len(f) + Len(t) : s[i] = IF i <= Len(f) THEN f[i] ELSE t[i - Len(f)]
  BY <1>1, <1>2, ConcatProperties
<1> HIDE DEF s
<1>4. Len(s) = 15
  BY <1>1, <1>2, <1>3
<1>5. s = [i \in 1 .. 15 |-> s[i]]
  <2>1. s \in [1 .. 15 -> S]
    BY <1>3, <1>4, LenProperties
  <2>2. QED
    BY <2>1
<1>6. \A i \in 1 .. 15 : s[i] = IF i <= 12 THEN f[i] ELSE t[i - 12]
  <2>1. Len(f) = 12 /\ Len(f) + Len(t) = 15
    BY <1>1, <1>2
  <2>2. QED
    BY <2>1, <1>3
<1>7. s[13] = a /\ s[15] = c /\ \A i \in 1 .. 12 : s[i] = f[i]
  BY <1>2, <1>6
<1>8. QED
  BY <1>4, <1>5, <1>7 DEF s, t

(***************************************************************************)
(* The stub puts every register of the interrupted code where its slot is. *)
(***************************************************************************)
LEMMA SaveIInv ==
  ASSUME IInv, Save
  PROVE  IInv'
<1> USE DEF IInv
<1> DEFINE f == [i \in 1 .. 12 |-> regs[Slots[i]]]
<1>1. /\ pc = "stub" /\ regs = serving[1].regs
      /\ stack = <<stack[1], stack[2], stack[3]>>
      /\ stack[1] = "main" /\ stack[3] = TRUE
  BY DEF Save, Frame
<1>2. stack' = f \o stack
  BY Layout DEF Save
<1>3. f = [i \in 1 .. 12 |-> f[i]]
  OBVIOUS
<1>4. /\ stack' = [i \in 1 .. 15 |-> stack'[i]] /\ Len(stack') = 15
      /\ stack'[13] = "main" /\ stack'[15] = TRUE
      /\ \A i \in 1 .. 12 : stack'[i] = f[i]
  <2> HIDE DEF f
  <2>1. stack' = f \o <<stack[1], stack[2], stack[3]>>
    BY <1>1, <1>2
  <2>2. QED
    BY <1>1, <1>3, <2>1, Pushed
<1>5. pc' = "call"
  BY DEF Save
<1> USE DEF kernel, pic
<1>6. Typed' /\ Switched' /\ Faults'
  BY <1>1, <1>5 DEF Save, Typed, Switched, Faults, Inside
<1>7. AtRest' /\ One' /\ Service' /\ Registers'
  BY <1>1, <1>5 DEF Save, AtRest, One, Service, Registers, Inside
<1>8. \A i \in DOMAIN Slots : stack'[i] = serving'[1].regs[Slots[i]]
  BY <1>1, <1>4, Layout DEF Save
<1> HIDE DEF f
<1>9. Frame'
  BY <1>4, <1>5, <1>8 DEF Frame, Inside
<1>10. QED
  BY <1>6, <1>7, <1>9

(***************************************************************************)
(* The handler is found and runs; only the system call's writes the frame, *)
(* and it writes the lowest slot, not what the processor pushed.           *)
(***************************************************************************)
LEMMA HandleIInv ==
  ASSUME IInv, HandleInterrupt
  PROVE  IInv'
<1> USE DEF IInv
<1>1. pc = "call" /\ pc' = "acknowledge" /\ active /\ number \in Vectors
  <2>1. pc = "call" /\ active
    BY DEF HandleInterrupt, Switched
  <2>2. number \in Vectors
    BY <2>1 DEF Service, Inside, Vectors
  <2>3. QED
    BY <2>1, <2>2 DEF HandleInterrupt
<1>2. ticks \in 0 .. Wrap - 1 => ticks' \in 0 .. Wrap - 1
  <2>1. ticks' = ticks \/ ticks' = (ticks + 1) % Wrap
    BY DEF HandleInterrupt, Handler
  <2>2. QED
    BY <2>1, InterruptAssumption
<1>3. /\ stack' = [i \in 1 .. 15 |-> stack'[i]] /\ Len(stack') = 15
      /\ \A i \in 2 .. 15 : stack'[i] = stack[i]
      /\ number # SyscallVector => stack' = stack
  <2>1. \/ stack' = stack
        \/ /\ number = SyscallVector
           /\ stack' = [stack EXCEPT ![1] =
                          SyscallResult(SyscallNumber, stack[Field("ebx")])]
    BY SlotsOfRegisters DEF HandleInterrupt, Handler
  <2>2. stack = [i \in 1 .. 15 |-> stack[i]] /\ Len(stack) = 15
    BY <1>1 DEF Frame, Inside
  <2>3. QED
    BY <2>1, <2>2
<1>4. PICK w \in Words : regs' = [regs EXCEPT !["eax"] = w, !["ebx"] = w]
  BY DEF HandleInterrupt
<1> USE DEF pic
<1>5. Typed'
  BY <1>1, <1>2 DEF HandleInterrupt, Typed, Inside
<1>6. Switched' /\ Faults'
  BY <1>1 DEF HandleInterrupt, Switched, Faults
<1>7. AtRest' /\ One' /\ Service'
  BY <1>1 DEF HandleInterrupt, AtRest, One, Service, Inside
<1>8. Registers'
  BY <1>1, <1>4, Layout DEF HandleInterrupt, Registers, Inside
<1>9. Frame'
  BY <1>1, <1>3, Layout DEF HandleInterrupt, Frame, Inside
<1>10. QED
  BY <1>5, <1>6, <1>7, <1>8, <1>9

(***************************************************************************)
(* The end of the interrupt reaches every controller that has the line in  *)
(* service; a system call ends none.                                       *)
(***************************************************************************)
LEMMA AcknowledgeIInv ==
  ASSUME IInv, Acknowledge
  PROVE  IInv'
<1> USE DEF IInv
<1>1. pc = "acknowledge" /\ pc' = "restore"
  BY DEF Acknowledge
<1>2. master' = {} /\ slave' = {}
  <2>1. CASE number = SyscallVector
    <3>1. master = {} /\ slave = {}
      BY <1>1, <2>1 DEF Service, Inside
    <3>2. ~FromHardware(number)
      BY <2>1 DEF FromHardware, SyscallVector, hardwareInterruptOffset
    <3>3. QED
      BY <3>1, <3>2 DEF Acknowledge
  <2>2. CASE number # SyscallVector
    <3>1. PICK l \in Lines : /\ number = Vector(l)
                            /\ master = {Input(l)}
                            /\ slave = IF l < 8 THEN {} ELSE {l}
      BY <1>1, <2>2 DEF Service, Inside
    <3>2. /\ l \in Int /\ Input(l) \in Int
          /\ FromHardware(number) /\ (FromSecond(number) <=> l >= 8)
      BY <3>1, LineVectors
    <3>3. Ended(master) = {}
      BY <3>1, <3>2, EndsOnly
    <3>4. l >= 8 => Ended(slave) = {}
      BY <3>1, <3>2, EndsOnly
    <3>5. l < 8 => slave = {}
      BY <3>1
    <3>6. l < 8 \/ l >= 8
      BY <3>2
    <3>7. QED
      BY <3>2, <3>3, <3>4, <3>5, <3>6 DEF Acknowledge
  <2>3. QED
    BY <2>1, <2>2
<1> USE DEF kernel
<1>3. Typed' /\ Switched' /\ Faults'
  BY <1>1 DEF Acknowledge, Typed, Switched, Faults, Inside
<1>4. AtRest' /\ One' /\ Service'
  BY <1>1, <1>2 DEF Acknowledge, AtRest, One, Service, Inside
<1>5. Registers' /\ Frame'
  BY <1>1 DEF Acknowledge, Registers, Frame, Inside
<1>6. QED
  BY <1>3, <1>4, <1>5

(***************************************************************************)
(* A device's frame is restored: its segment slots hold the selector, and  *)
(* the other slots the interrupted code's registers.                       *)
(***************************************************************************)
LEMMA DeviceRestored ==
  ASSUME IInv, Restore, number # SyscallVector
  PROVE  /\ \A s \in Segments : stack[Slot(s)] = Selector
         /\ regs' = serving[1].regs
<1> USE DEF IInv
<1>1. pc = "restore"
  BY DEF Restore
<1>2. \A r \in Regs : stack[Slot(r)] = serving[1].regs[r]
  BY <1>1, SlotsOfRegisters, Layout DEF Frame, Inside
<1>3. \A s \in Segments : stack[Slot(s)] = Selector
  BY <1>1, <1>2, Layout DEF Registers, Inside
<1>4. regs' = [r \in Regs |-> stack[Slot(r)]]
  BY <1>3 DEF Restore
<1>5. serving[1].regs = [r \in Regs |-> serving[1].regs[r]]
  BY <1>1 DEF Registers, Inside
<1>6. regs' = serving[1].regs
  BY <1>2, <1>4, <1>5
<1>7. QED
  BY <1>3, <1>6

(***************************************************************************)
(* Every frame that is popped leads back to the main flow with interrupts  *)
(* on and the segments in place; one that does not faults.                 *)
(***************************************************************************)
LEMMA RestoreIInv ==
  ASSUME IInv, Restore
  PROVE  IInv'
<1> USE DEF IInv
<1>1. pc = "restore"
  BY DEF Restore
<1> USE DEF kernel, pic
<1>2. CASE \A s \in Segments : stack[Slot(s)] = Selector
  <2>1. /\ regs' = [r \in Regs |-> stack[Slot(r)]]
        /\ pc' = stack[13] /\ iflag' = stack[15]
        /\ stack' = SubSeq(stack, 16, 15)
        /\ serving' = Tail(serving)
    <3>1. Len(stack) = 15 /\ FrameSize = 15
      BY <1>1, Layout DEF Frame, Inside
    <3>2. FrameSize - 2 = 13 /\ FrameSize + 1 = 16
      BY <3>1
    <3>3. QED
      BY <1>2, <3>1, <3>2 DEF Restore
  <2>2. pc' = "main" /\ iflag' = TRUE
    BY <1>1, <2>1 DEF Frame, Inside
  <2>3. stack' = <<>>
    BY <2>1
  <2>4. serving' = <<>>
    <3>1. serving = <<serving[1]>>
      BY <1>1 DEF One, Inside
    <3>2. \A x : Tail(<<x>>) = <<>>
      OBVIOUS
    <3>3. Tail(<<serving[1]>>) = <<>>
      BY <3>2
    <3>4. QED
      BY <2>1, <3>1, <3>3
  <2>5. \A s \in Segments : regs'[s] = Selector
    BY <1>2, <2>1, Layout
  <2>6. Typed' /\ Switched' /\ Faults'
    BY <1>1, <2>2 DEF Restore, Typed, Switched, Faults
  <2>7. AtRest' /\ One' /\ Service' /\ Frame'
    BY <1>1, <2>2, <2>3, <2>4 DEF Restore, AtRest, One, Service, Frame, Inside
  <2>8. Registers'
    BY <2>1, <2>2, <2>5 DEF Registers, Inside
  <2>9. QED
    BY <2>6, <2>7, <2>8
<1>3. CASE ~ \A s \in Segments : stack[Slot(s)] = Selector
  <2>1. number = SyscallVector
    BY <1>3, DeviceRestored
  <2>2. pc' = "faulted" /\ UNCHANGED <<iflag, regs, stack, serving, number, kernel, pic>>
    BY <1>3 DEF Restore
  <2>3. Typed' /\ Switched' /\ Faults'
    BY <1>1, <2>1, <2>2 DEF Typed, Switched, Faults, Inside
  <2>4. AtRest' /\ One' /\ Service'
    BY <1>1, <2>1, <2>2 DEF AtRest, One, Service, Inside
  <2>5. Registers' /\ Frame'
    BY <1>1, <2>2 DEF Registers, Frame, Inside
  <2>6. QED
    BY <2>3, <2>4, <2>5
<1>4. QED
  BY <1>2, <1>3

(***************************************************************************)
(* A step keeps the invariant.                                             *)
(***************************************************************************)
LEMMA StepIInv ==
  ASSUME IInv, [Next]_vars
  PROVE  IInv'
<1>1. CASE Next
  BY <1>1, OutsideIInv, RunIInv, DeliverIInv, SyscallIInv, SaveIInv, HandleIInv,
     AcknowledgeIInv, RestoreIInv DEF Next, Stub
<1>2. CASE UNCHANGED vars
  <2> USE <1>2 DEF vars, cpu, kernel, pic, IInv
  <2>1. Typed' /\ Switched' /\ Faults'
    BY DEF Typed, Switched, Faults
  <2>2. AtRest' /\ One' /\ Service'
    BY DEF AtRest, One, Service
  <2>3. Registers' /\ Frame'
    BY DEF Registers, Frame
  <2>4. QED
    BY <2>1, <2>2, <2>3
<1>3. QED
  BY <1>1, <1>2

(***************************************************************************)
(* The invariant holds.                                                    *)
(***************************************************************************)
LEMMA InvariantHolds ==
  Spec => []IInv
BY InitIInv, StepIInv, PTL DEF Spec

-----------------------------------------------------------------------------
(***************************************************************************)
(* The variables keep their types, and the stack holds one frame for each  *)
(* interrupt that is being served.                                         *)
(***************************************************************************)
THEOREM InterruptTypes ==
  Spec => []TypeOK
BY InvariantHolds, TypesFollow, PTL

(***************************************************************************)
(* Whenever interrupts are on, every line that was in service has been     *)
(* ended at every controller.                                              *)
(***************************************************************************)
THEOREM LinesEnded ==
  Spec => []NothingInService
<1>1. IInv => NothingInService
  BY DEF IInv, Switched, AtRest, NothingInService
<1>2. QED
  BY <1>1, InvariantHolds, PTL

(***************************************************************************)
(* The byte all stubs share names the interrupt being served when          *)
(* HandleInterrupt chooses the handler and the interrupt to end.           *)
(***************************************************************************)
THEOREM NumberKept ==
  Spec => []NumberIsOwn
<1>1. IInv => NumberIsOwn
  BY DEF IInv, One, Inside, NumberIsOwn
<1>2. QED
  BY <1>1, InvariantHolds, PTL

(***************************************************************************)
(* An interrupt of a device gives the code it interrupted its registers,   *)
(* its place and its interrupt flag back.                                  *)
(***************************************************************************)
THEOREM DevicesInvisible ==
  Spec => ContextRestored
<1>1. ASSUME IInv, Restore, serving[1].vector # SyscallVector
      PROVE  regs' = serving[1].regs /\ pc' = serving[1].pc /\ iflag'
  <2>1. pc = "restore"
    BY <1>1 DEF Restore
  <2>2. number # SyscallVector /\ serving[1].pc = "main"
    BY <1>1, <2>1 DEF IInv, One, Inside
  <2>3. /\ \A s \in Segments : stack[Slot(s)] = Selector
        /\ regs' = serving[1].regs
    BY <1>1, <2>2, DeviceRestored
  <2>4. stack[13] = "main" /\ stack[15] = TRUE
    BY <1>1, <2>1 DEF IInv, Frame, Inside
  <2>5. FrameSize - 2 = 13 /\ FrameSize = 15
    BY Layout
  <2>6. pc' = stack[13] /\ iflag' = stack[15]
    BY <1>1, <2>3, <2>5 DEF Restore
  <2>7. QED
    BY <2>2, <2>3, <2>4, <2>6
<1>2. IInv /\ [Next]_vars
        => [Restore /\ serving[1].vector # SyscallVector =>
              regs' = serving[1].regs /\ pc' = serving[1].pc /\ iflag']_vars
  BY <1>1
<1>3. QED
  BY <1>2, InvariantHolds, PTL DEF Spec, ContextRestored

(***************************************************************************)
(* No interrupt of a driver's device is dispatched before its handler is   *)
(* registered and the manager active.                                      *)
(***************************************************************************)
THEOREM HandlersInPlace ==
  Spec => NoneMissed
<1>1. ASSUME IInv, HandleInterrupt, number \in Drivers
      PROVE  active /\ number \in handlers
  BY <1>1 DEF HandleInterrupt, IInv, Switched
<1>2. IInv /\ [Next]_vars
        => [HandleInterrupt /\ number \in Drivers => active /\ number \in handlers]_vars
  BY <1>1
<1>3. QED
  BY <1>2, InvariantHolds, PTL DEF Spec, NoneMissed
=============================================================================
