-------------------------------- MODULE PS2 ---------------------------------
(***************************************************************************)
(* Keyboard and mouse drivers (keyboard.cpp, mouse.cpp) on the one 8042    *)
(* controller they share, and the pointer kernelMain draws (kernel.cpp).   *)
(*                                                                         *)
(* The controller has one output buffer for everything: its own replies,   *)
(* scancodes, mouse bytes and the acknowledges of both devices.  At boot   *)
(* the drivers poll it with interrupts off, one after the other; then      *)
(* their handlers read it.  Bytes are integers, with the device they come  *)
(* from and, for the properties, what they are.  Controller and devices    *)
(* are external; their latched interrupt lines too.  Button events end in  *)
(* empty handlers and are left out.                                        *)
(***************************************************************************)
EXTENDS Integers, Sequences

CONSTANTS Keys,     \* scancodes of the mapped keys that are typed
          Deltas,   \* movement bytes the mouse sends
          MaxKeys,  \* bound: keys typed
          MaxMoves, \* bound: movements
          Config,   \* command bytes the firmware may leave
          Quiet     \* at boot, do devices answer at once and does nobody touch them?

ASSUME PS2Assumption ==
  /\ Keys \subseteq 1 .. 127 /\ Deltas \subseteq 0 .. 255 /\ Config \subseteq 0 .. 255
  /\ MaxKeys \in Nat /\ MaxMoves \in Nat /\ Quiet \in BOOLEAN

VARIABLES pc,     \* how far the boot is
          got,    \* keys handed to the shell
          buffer, \* the packet the mouse driver collects
          offset, \* bytes of it collected
          px, py  \* the pointer

VARIABLES obf,       \* the output buffer, or Empty
          last,      \* the byte read last, which an empty buffer repeats
          ccb,       \* the controller's command byte
          reply,     \* replies of the controller not in the buffer yet
          kbd, aux,  \* what keyboard and mouse have still to send
          owes,      \* devices that have still to acknowledge a command
          reporting, \* does the mouse send movements
          irq        \* latched interrupt lines: 1 and 12

VARIABLES typed, \* ghost: keys typed
          moves  \* ghost: movements made

driver == <<pc, got, buffer, offset, px, py>>
controller == <<obf, last, ccb, reply, kbd, aux, owes, reporting, irq>>
vars == <<driver, controller, typed, moves>>

-----------------------------------------------------------------------------
(* Bytes and bits. *)

\* The bit of a mask, and a byte with it set or cleared.
Bit(b, mask) == (b \div mask) % 2
Set(b, mask) == b + (1 - Bit(b, mask)) * mask
Clear(b, mask) == b - Bit(b, mask) * mask
Signed(b) == IF b >= 128 THEN b - 256 ELSE b

Ack == 250 \* 0xFA
Byte(from, kind, b) == [from |-> from, kind |-> kind, b |-> b]
Empty == Byte("none", "stale", 0)

\* Bits of the command byte: lines on, ports off.
KbdLine == 1
AuxLine == 2
KbdOff == 16
AuxOff == 32

-----------------------------------------------------------------------------
(* The controller and the devices. *)

\* A free output buffer takes the next byte of the controller, of the keyboard
\* or of the mouse; a line that is on is raised.
Load(from, b) ==
  /\ obf = Empty
  /\ obf' = b
  /\ irq' = irq \cup (IF from = "aux"
                      THEN IF Bit(ccb, AuxLine) = 1 THEN {12} ELSE {}
                      ELSE IF Bit(ccb, KbdLine) = 1 THEN {1} ELSE {})
  /\ UNCHANGED <<driver, last, ccb, owes, reporting, typed, moves>>

LoadReply ==
  /\ reply # <<>> /\ reply' = Tail(reply)
  /\ Load("ctrl", Byte("ctrl", "ccb", Head(reply)))
  /\ UNCHANGED <<kbd, aux>>

LoadKeyboard ==
  /\ Bit(ccb, KbdOff) = 0
  /\ kbd # <<>> /\ kbd' = Tail(kbd)
  /\ Load("kbd", Head(kbd))
  /\ UNCHANGED <<reply, aux>>

LoadMouse ==
  /\ Bit(ccb, AuxOff) = 0
  /\ aux # <<>> /\ aux' = Tail(aux)
  /\ Load("aux", Head(aux))
  /\ UNCHANGED <<reply, kbd>>

Acknowledges ==
  /\ \/ /\ "kbd" \in owes /\ owes' = owes \ {"kbd"}
        /\ kbd' = Append(kbd, Byte("kbd", "ack", Ack))
        /\ UNCHANGED aux
     \/ /\ "aux" \in owes /\ owes' = owes \ {"aux"}
        /\ aux' = Append(aux, Byte("aux", "ack", Ack))
        /\ UNCHANGED kbd
  /\ UNCHANGED <<driver, obf, last, ccb, reply, reporting, irq, typed, moves>>

\* Someone presses and releases a key, or moves the mouse.
Touched == pc = "run" \/ ~Quiet

Type(k) ==
  /\ Touched /\ Len(typed) < MaxKeys
  /\ typed' = Append(typed, k)
  /\ kbd' = kbd \o <<Byte("kbd", "press", k), Byte("kbd", "release", k + 128)>>
  /\ UNCHANGED <<driver, obf, last, ccb, reply, aux, owes, reporting, irq, moves>>

Move(dx, dy) ==
  /\ Touched /\ moves < MaxMoves
  /\ reporting
  /\ moves' = moves + 1
  /\ aux' = aux \o <<Byte("aux", "header", 8), Byte("aux", "dx", dx), Byte("aux", "dy", dy)>>
  /\ UNCHANGED <<driver, obf, last, ccb, reply, kbd, owes, reporting, irq, typed>>

\* Nothing more would happen before the driver's next look.
Settled ==
  /\ owes = {}
  /\ obf # Empty \/ ( /\ reply = <<>>
                      /\ kbd = <<>> \/ Bit(ccb, KbdOff) = 1
                      /\ aux = <<>> \/ Bit(ccb, AuxOff) = 1 )

\* The data port is read: an empty buffer gives the last byte again.
Data == IF obf = Empty THEN last ELSE obf.b
ReadData == obf' = Empty /\ last' = Data

-----------------------------------------------------------------------------
(* Boot: KeyboardDriver::Activate, then MouseDriver::Activate. *)

Init ==
  /\ pc = "keyboard flush" /\ got = <<>>
  /\ buffer = [i \in 0 .. 2 |-> Empty] /\ offset = 0
  /\ px = 0 /\ py = 0
  /\ obf \in {Empty} \cup {Byte("kbd", "press", k) : k \in Keys}
  /\ last = 0 /\ ccb \in Config /\ reply = <<>>
  /\ kbd = <<>> /\ aux = <<>> /\ owes = {} /\ reporting = FALSE /\ irq = {}
  /\ typed = <<>> /\ moves = 0

BootStep(from, to) ==
  /\ pc = from /\ pc' = to
  /\ Quiet => Settled
  /\ UNCHANGED <<got, buffer, typed, moves>>

\* One turn of the loop that empties the output buffer, or its end.
FlushTurn(here, next) ==
  /\ BootStep(here, IF obf = Empty THEN next ELSE here)
  /\ IF obf = Empty THEN UNCHANGED <<obf, last>> ELSE ReadData
  /\ UNCHANGED <<offset, px, py, ccb, reply, kbd, aux, owes, reporting, irq>>

KeyboardFlush == FlushTurn("keyboard flush", "keyboard command")

\* Enable the port and ask for the command byte.
KeyboardCommand ==
  /\ BootStep("keyboard command", "keyboard configure")
  /\ ccb' = Clear(ccb, KbdOff) /\ reply' = Append(reply, ccb')
  /\ UNCHANGED <<offset, px, py, obf, last, kbd, aux, owes, reporting, irq>>

\* Whatever comes first is taken for the command byte.  The mouse driver's
\* Activate follows: it resets its offset, and the pointer.
KeyboardConfigure ==
  /\ obf # Empty
  /\ BootStep("keyboard configure", "mouse flush")
  /\ ReadData
  /\ ccb' = Clear(Set(Data, KbdLine), KbdOff)
  /\ owes' = owes \cup {"kbd"}
  /\ offset' = 0 /\ px' = 40 /\ py' = 12
  /\ UNCHANGED <<reply, kbd, aux, reporting, irq>>

\* Slip in MouseFlush: what the keyboard left is not flushed.
MouseFlushNot ==
  /\ BootStep("mouse flush", "mouse command")
  /\ UNCHANGED <<offset, px, py, controller>>

MouseFlush == FlushTurn("mouse flush", "mouse command")

MouseCommand ==
  /\ BootStep("mouse command", "mouse configure")
  /\ ccb' = Clear(ccb, AuxOff) /\ reply' = Append(reply, ccb')
  /\ UNCHANGED <<offset, px, py, obf, last, kbd, aux, owes, reporting, irq>>

\* Slip in MouseConfigure: the mouse's line is all that is written back.
MouseConfigureOwn ==
  /\ obf # Empty
  /\ BootStep("mouse configure", "mouse acknowledge")
  /\ ReadData
  /\ ccb' = Set(0, AuxLine)
  /\ owes' = owes \cup {"aux"} /\ reporting' = TRUE
  /\ UNCHANGED <<offset, px, py, reply, kbd, aux, irq>>

MouseConfigure ==
  /\ obf # Empty
  /\ BootStep("mouse configure", "mouse acknowledge")
  /\ ReadData
  /\ ccb' = Set(Data, AuxLine)
  /\ owes' = owes \cup {"aux"} /\ reporting' = TRUE
  /\ UNCHANGED <<offset, px, py, reply, kbd, aux, irq>>

\* Slip in MouseAcknowledge: the answer is not read at all.
MouseAcknowledgeNot ==
  /\ BootStep("mouse acknowledge", "enabled")
  /\ UNCHANGED <<offset, px, py, controller>>

\* The data port is read once, without a look at the status.
MouseAcknowledge ==
  /\ BootStep("mouse acknowledge", "enabled")
  /\ ReadData
  /\ UNCHANGED <<offset, px, py, ccb, reply, kbd, aux, owes, reporting, irq>>

\* Interrupts are on, and the lines latched during boot have been served.
Enabled ==
  /\ irq = {}
  /\ BootStep("enabled", "run")
  /\ UNCHANGED <<offset, px, py, controller>>

-----------------------------------------------------------------------------
(* The handlers. *)

Serve(line) ==
  /\ pc \in {"enabled", "run"}
  /\ line \in irq
  /\ irq' = irq \ {line}

\* Slip: released keys are handed on too.
IsKeyAlways(b) == b # Ack

\* The handler knows a scancode below 0x80 that is in its table.
IsKey(b) == b < 128 /\ b \in Keys

KeyboardInterrupt ==
  /\ Serve(1)
  /\ ReadData
  /\ got' = IF IsKey(Data) THEN Append(got, Data) ELSE got
  /\ UNCHANGED <<pc, buffer, offset, px, py, ccb, reply, kbd, aux, owes, reporting, typed, moves>>

\* Slip in Clamp: a negative position is kept.
ClampAbove(v, size) == IF v >= size THEN size - 1 ELSE v

Clamp(v, size) == IF v < 0 THEN 0 ELSE IF v >= size THEN size - 1 ELSE v

\* MouseToConsole adds to a signed byte.
Moved(p, d, size) == Clamp(Signed((p + d) % 256), size)

\* Slip in FromMouse: the status is not looked at.
FromAnyone == TRUE

\* Bit 5 of the status: the byte in the buffer is the mouse's.
FromMouse == obf.from = "aux"

MouseInterrupt ==
  /\ Serve(12)
  /\ IF FromMouse
     THEN /\ ReadData
          /\ buffer' = [buffer EXCEPT ![offset] = [obf EXCEPT !.b = Data]]
          /\ offset' = (offset + 1) % 3
          /\ IF offset' = 0 /\ (buffer'[1].b # 0 \/ buffer'[2].b # 0)
             THEN px' = Moved(px, Signed(buffer'[1].b), 80) /\ py' = Moved(py, - Signed(buffer'[2].b), 25)
             ELSE UNCHANGED <<px, py>>
     ELSE UNCHANGED <<obf, last, buffer, offset, px, py>>
  /\ UNCHANGED <<pc, got, ccb, reply, kbd, aux, owes, reporting, typed, moves>>

Boot ==
  \/ KeyboardFlush \/ KeyboardCommand \/ KeyboardConfigure
  \/ MouseFlush \/ MouseCommand \/ MouseConfigure \/ MouseAcknowledge
  \/ Enabled

Loads == LoadReply \/ LoadKeyboard \/ LoadMouse
Handlers == KeyboardInterrupt \/ MouseInterrupt

Next ==
  \/ Boot
  \/ Loads \/ Acknowledges
  \/ \E k \in Keys : Type(k)
  \/ \E dx, dy \in Deltas : Move(dx, dy)
  \/ Handlers

\* Boot and handlers go on; devices answer and the controller passes bytes on.
Spec ==
  Init /\ [][Next]_vars /\ WF_vars(Boot) /\ WF_vars(Loads) /\ WF_vars(Acknowledges) /\ WF_vars(Handlers)

-----------------------------------------------------------------------------
(* Properties. *)

\* The variables have their types; the pointer is on the screen.
TypeOK ==
  /\ offset \in 0 .. 2 /\ DOMAIN buffer = 0 .. 2
  /\ px \in 0 .. 79 /\ py \in 0 .. 24
  /\ last \in 0 .. 255 /\ ccb \in 0 .. 255 /\ Len(reply) <= 1
  /\ irq \subseteq {1, 12} /\ owes \subseteq {"kbd", "aux"}

Awake == pc \in {"enabled", "run"}

\* After boot both devices are connected and raise their lines, whatever
\* command byte the firmware left.
PortsOn ==
  Awake => /\ Bit(ccb, KbdLine) = 1 /\ Bit(ccb, AuxLine) = 1
           /\ Bit(ccb, KbdOff) = 0 /\ Bit(ccb, AuxOff) = 0

\* The keyboard handler never takes a byte the mouse sent.
BytesToOwner == [][KeyboardInterrupt => obf.from # "aux"]_vars

\* The shell gets the keys typed after a quiet boot, each once and in order,
\* although mouse bytes go through the same buffer and keyboard.cpp:58 reads it
\* without a look at the status.
KeysInOrder == Len(got) <= Len(typed) /\ got = SubSeq(typed, 1, Len(got))

\* Every key typed arrives, whatever the mouse does.
KeysArrive ==
  \A n \in 1 .. MaxKeys : pc = "run" /\ Len(typed) = n ~> Len(got) >= n

\* "Acknowledge" (mouse.cpp:69): the mouse's answer to the enable command is
\* read at boot, so a packet is always a header and two movements.  The driver
\* does not wait for the answer; one that comes later shifts every packet.
PacketsAligned ==
  [][MouseInterrupt /\ offset = 2 /\ offset' = 0 =>
       <<buffer'[0].kind, buffer'[1].kind, buffer'[2].kind>> = <<"header", "dx", "dy">>]_vars
=============================================================================
