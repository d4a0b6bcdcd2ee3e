------------------------------ MODULE PS2Proofs ------------------------------
(***************************************************************************)
(* After a quiet boot the shell gets the keys that were typed, each once   *)
(* and in order, and every mouse packet is a header and two movements, for *)
(* every set of scancodes and movements, every number of them and every    *)
(* command byte the firmware may leave.                                    *)
(***************************************************************************)
EXTENDS PS2, SequenceTheorems, TLAPS

-----------------------------------------------------------------------------
(* The inductive invariant. *)

Kinds == {"stale", "ccb", "press", "release", "ack", "header", "dx", "dy"}
Bytes == [from : {"none", "ctrl", "kbd", "aux"}, kind : Kinds, b : 0 .. 255]
Stages == {"keyboard flush", "keyboard command", "keyboard configure",
           "mouse flush", "mouse command", "mouse configure",
           "mouse acknowledge", "enabled", "run"}

\* The drivers' variables and the registers.
PTyped ==
  /\ pc \in Stages
  /\ got \in Seq(Keys) /\ typed \in Seq(Keys)
  /\ buffer \in [0 .. 2 -> Bytes] /\ offset \in 0 .. 2
  /\ px \in 0 .. 79 /\ py \in 0 .. 24

\* The controller's buffer and the queues: each device sends its own bytes.
Queued ==
  /\ obf \in Bytes /\ (obf.from = "none" => obf = Empty)
  /\ last \in 0 .. 255 /\ ccb \in 0 .. 255
  /\ reply \in Seq(0 .. 255)
  /\ kbd \in Seq(Bytes) /\ \A i \in 1 .. Len(kbd) : kbd[i].from = "kbd"
  /\ aux \in Seq(Bytes) /\ \A i \in 1 .. Len(aux) : aux[i].from = "aux"
  /\ irq \subseteq {1, 12} /\ owes \subseteq {"kbd", "aux"}

KbdOn == Bit(ccb, KbdLine) = 1 /\ Bit(ccb, KbdOff) = 0
AuxOn == Bit(ccb, AuxLine) = 1 /\ Bit(ccb, AuxOff) = 0

\* Nothing is under way, except that the controller answers with its command
\* byte, or that a device acknowledges the last command.
Silent == obf = Empty /\ reply = <<>> /\ kbd = <<>> /\ aux = <<>> /\ owes = {}

Answering ==
  /\ kbd = <<>> /\ aux = <<>> /\ owes = {}
  /\ \/ obf = Empty /\ reply = <<ccb>>
     \/ obf = Byte("ctrl", "ccb", ccb) /\ reply = <<>>

KbdAnswers ==
  /\ reply = <<>> /\ aux = <<>>
  /\ \/ obf = Empty /\ kbd = <<>> /\ owes = {"kbd"}
     \/ obf = Empty /\ kbd = <<Byte("kbd", "ack", Ack)>> /\ owes = {}
     \/ obf = Byte("kbd", "ack", Ack) /\ kbd = <<>> /\ owes = {}

AuxAnswers ==
  /\ reply = <<>> /\ kbd = <<>>
  /\ \/ obf = Empty /\ aux = <<>> /\ owes = {"aux"}
     \/ obf = Empty /\ aux = <<Byte("aux", "ack", Ack)>> /\ owes = {}
     \/ obf = Byte("aux", "ack", Ack) /\ aux = <<>> /\ owes = {}

\* The boot, stage by stage.
Booting ==
  /\ pc = "keyboard flush" =>
       reply = <<>> /\ kbd = <<>> /\ aux = <<>> /\ owes = {}
  /\ pc = "keyboard command" => Silent
  /\ pc = "keyboard configure" => Answering
  /\ pc = "mouse flush" => KbdOn /\ (Silent \/ KbdAnswers)
  /\ pc = "mouse command" => KbdOn /\ Silent
  /\ pc = "mouse configure" => KbdOn /\ Bit(ccb, AuxOff) = 0 /\ Answering
  /\ pc = "mouse acknowledge" => KbdOn /\ AuxOn /\ AuxAnswers
  /\ pc = "enabled" => KbdOn /\ AuxOn /\ Silent /\ last = Ack
  /\ pc # "run" => offset = 0 /\ typed = <<>> /\ got = <<>>

\* In operation the controller and the devices have nothing to say of their
\* own, and a latched line is that of the byte in the buffer.
Running ==
  pc = "run" =>
    /\ KbdOn /\ AuxOn /\ reply = <<>> /\ owes = {}
    /\ \/ obf = Empty /\ irq = {}
       \/ obf.from = "kbd" /\ irq = {1}
       \/ obf.from = "aux" /\ irq = {12}

\* Scancodes that have left the keyboard, and that the driver has read.
Left == 2 * Len(typed) - Len(kbd)
Read == IF obf.from = "kbd" THEN Left - 1 ELSE Left

Press(j) == Byte("kbd", "press", typed[j])
Release(j) == Byte("kbd", "release", typed[j] + 128)

\* Each key typed is a press and a release, in order, in the keyboard or in the
\* buffer; what has been read is what the shell got.
KeyStream ==
  pc = "run" =>
    /\ Left >= 0
    /\ \A j \in 1 .. Len(typed) :
         /\ 2 * j - 1 > Left => kbd[2 * j - 1 - Left] = Press(j)
         /\ 2 * j > Left => kbd[2 * j - Left] = Release(j)
    /\ obf.from = "kbd" =>
         /\ Left >= 1
         /\ \A j \in 1 .. Len(typed) :
              /\ 2 * j - 1 = Left => obf = Press(j)
              /\ 2 * j = Left => obf = Release(j)
    /\ Read = 2 * Len(got) \/ Read = 2 * Len(got) - 1
    /\ \A i \in 1 .. Len(got) : got[i] = typed[i]

Kind(n) == <<"header", "dx", "dy">>[n + 1]

\* Bytes of the packet that is being collected that have left the mouse.
Begun == IF obf.from = "aux" THEN offset + 1 ELSE offset

\* What the mouse sends goes on where the packet that is collected stands.
PacketStream ==
  pc = "run" =>
    /\ \A i \in 1 .. Len(aux) : aux[i].kind = Kind((Begun + i - 1) % 3)
    /\ (Begun + Len(aux)) % 3 = 0
    /\ obf.from = "aux" => obf.kind = Kind(offset)
    /\ \A j \in 0 .. 2 : j < offset => buffer[j].kind = Kind(j)

IInv == PTyped /\ Queued /\ Booting /\ Running /\ KeyStream /\ PacketStream

-----------------------------------------------------------------------------
(* Bits and bytes. *)

(***************************************************************************)
(* What the drivers do to the command byte with one mask leaves the bits   *)
(* of the other masks alone.                                               *)
(***************************************************************************)
LEMMA Bits ==
  ASSUME NEW c \in 0 .. 255
  PROVE  /\ Clear(c, KbdOff) \in 0 .. 255 /\ Bit(Clear(c, KbdOff), KbdOff) = 0
         /\ LET k == Clear(Set(c, KbdLine), KbdOff)
            IN  k \in 0 .. 255 /\ Bit(k, KbdLine) = 1 /\ Bit(k, KbdOff) = 0
         /\ LET m == Clear(c, AuxOff)
            IN  /\ m \in 0 .. 255 /\ Bit(m, AuxOff) = 0
                /\ Bit(m, KbdOff) = Bit(c, KbdOff)
                /\ Bit(m, KbdLine) = Bit(c, KbdLine)
         /\ LET m == Set(c, AuxLine)
            IN  /\ m \in 0 .. 255 /\ Bit(m, AuxLine) = 1
                /\ Bit(m, AuxOff) = Bit(c, AuxOff)
                /\ Bit(m, KbdOff) = Bit(c, KbdOff)
                /\ Bit(m, KbdLine) = Bit(c, KbdLine)
<1> USE DEF Clear, Set, Bit, KbdOff, KbdLine, AuxOff, AuxLine
<1>1. Clear(c, KbdOff) \in 0 .. 255 /\ Bit(Clear(c, KbdOff), KbdOff) = 0
  OBVIOUS
<1>2. LET k == Clear(Set(c, KbdLine), KbdOff)
      IN  k \in 0 .. 255 /\ Bit(k, KbdLine) = 1 /\ Bit(k, KbdOff) = 0
  OBVIOUS
<1>3. LET m == Clear(c, AuxOff)
      IN  /\ m \in 0 .. 255 /\ Bit(m, AuxOff) = 0
          /\ Bit(m, KbdOff) = Bit(c, KbdOff)
          /\ Bit(m, KbdLine) = Bit(c, KbdLine)
  OBVIOUS
<1>4. LET m == Set(c, AuxLine)
      IN  /\ m \in 0 .. 255 /\ Bit(m, AuxLine) = 1
          /\ Bit(m, AuxOff) = Bit(c, AuxOff)
          /\ Bit(m, KbdOff) = Bit(c, KbdOff)
          /\ Bit(m, KbdLine) = Bit(c, KbdLine)
  OBVIOUS
<1>5. QED
  BY <1>1, <1>2, <1>3, <1>4

(***************************************************************************)
(* The bytes the devices and the controller send are bytes.                *)
(***************************************************************************)
LEMMA BytesSent ==
  /\ Empty \in Bytes /\ Empty.from = "none" /\ Empty.b = 0
  /\ \A f \in {"kbd", "aux"} : Byte(f, "ack", Ack) \in Bytes
  /\ \A c \in 0 .. 255 : Byte("ctrl", "ccb", c) \in Bytes
  /\ \A k \in Keys : /\ Byte("kbd", "press", k) \in Bytes
                      /\ Byte("kbd", "release", k + 128) \in Bytes
  /\ \A k \in {"header", "dx", "dy"}, d \in 0 .. 255 : Byte("aux", k, d) \in Bytes
<1> USE DEF Byte, Empty, Bytes, Kinds, Ack
<1>1. Empty \in Bytes /\ Empty.from = "none" /\ Empty.b = 0
  OBVIOUS
<1>2. /\ \A f \in {"kbd", "aux"} : Byte(f, "ack", Ack) \in Bytes
      /\ \A c \in 0 .. 255 : Byte("ctrl", "ccb", c) \in Bytes
  OBVIOUS
<1>3. ASSUME NEW k \in Keys
      PROVE  Byte("kbd", "press", k) \in Bytes /\ Byte("kbd", "release", k + 128) \in Bytes
  <2>1. k \in 0 .. 255 /\ k + 128 \in 0 .. 255
    BY PS2Assumption
  <2>2. QED
    BY <2>1
<1>4. \A k \in {"header", "dx", "dy"}, d \in 0 .. 255 : Byte("aux", k, d) \in Bytes
  OBVIOUS
<1>5. QED
  BY <1>1, <1>2, <1>3, <1>4

(***************************************************************************)
(* The parts of a byte.                                                    *)
(***************************************************************************)
LEMMA Parts ==
  ASSUME NEW f, NEW k, NEW b
  PROVE  Byte(f, k, b).from = f /\ Byte(f, k, b).kind = k /\ Byte(f, k, b).b = b
BY DEF Byte

(***************************************************************************)
(* A queue with nothing before.                                            *)
(***************************************************************************)
LEMMA AppendsOne ==
  ASSUME NEW x
  PROVE  Append(<<>>, x) = <<x>>
OBVIOUS

(***************************************************************************)
(* A read of the data port gives a byte.                                   *)
(***************************************************************************)
LEMMA DataIsByte ==
  ASSUME Queued
  PROVE  Data \in 0 .. 255
BY DEF Queued, Data, Bytes

-----------------------------------------------------------------------------
(* The boot. *)

(***************************************************************************)
(* The firmware leaves any command byte, and perhaps a scancode.           *)
(***************************************************************************)
LEMMA InitIInv ==
  ASSUME Init
  PROVE  IInv
<1>1. got = <<>> /\ typed = <<>> /\ offset = 0 /\ px = 0 /\ py = 0
  BY DEF Init
<1>2. buffer = [i \in 0 .. 2 |-> Empty] /\ pc = "keyboard flush"
  BY DEF Init
<1>3. /\ reply = <<>> /\ kbd = <<>> /\ aux = <<>> /\ owes = {} /\ irq = {}
      /\ last = 0 /\ ccb \in Config
      /\ obf \in {Empty} \cup {Byte("kbd", "press", k) : k \in Keys}
  BY DEF Init
<1>4. PTyped
  <2>1. buffer \in [0 .. 2 -> Bytes]
    BY <1>2, BytesSent
  <2>2. got \in Seq(Keys) /\ typed \in Seq(Keys)
    BY <1>1
  <2>3. offset \in 0 .. 2 /\ px \in 0 .. 79 /\ py \in 0 .. 24
    BY <1>1
  <2>4. QED
    BY <1>2, <2>1, <2>2, <2>3 DEF PTyped, Stages
<1>5. Queued
  <2>1. obf \in Bytes
    BY <1>3, BytesSent
  <2>2. obf.from = "none" => obf = Empty
    BY <1>3, Parts
  <2>3. ccb \in 0 .. 255
    BY <1>3, PS2Assumption
  <2>4. QED
    BY <1>3, <2>1, <2>3, <2>2 DEF Queued
<1>6. Booting
  BY <1>1, <1>3, <1>2 DEF Booting
<1>7. Running /\ KeyStream /\ PacketStream
  BY <1>2 DEF Running, KeyStream, PacketStream
<1>8. QED
  BY <1>4, <1>5, <1>6, <1>7 DEF IInv

(***************************************************************************)
(* The first loop empties the buffer, and in a quiet boot it stays empty.  *)
(***************************************************************************)
LEMMA KeyboardFlushIInv ==
  ASSUME Quiet, IInv, KeyboardFlush
  PROVE  IInv'
<1> USE DEF IInv, KeyboardFlush, FlushTurn, BootStep, ReadData
<1>1. PTyped'
  BY DEF PTyped, Stages
<1>2. Queued'
  <2>1. obf' \in Bytes /\ (obf'.from = "none" => obf' = Empty)
    BY BytesSent, ZenonT(60) DEF Queued
  <2>2. last' \in 0 .. 255
    BY DataIsByte DEF Queued
  <2>3. QED
    BY <2>1, <2>2 DEF Queued
<1>3. Booting'
  BY DEF Booting, Silent
<1>4. pc' # "run"
  OBVIOUS
<1>5. (Running /\ KeyStream /\ PacketStream)'
  BY <1>4 DEF Running, KeyStream, PacketStream
<1>6. QED
  BY <1>1, <1>2, <1>3, <1>5

(***************************************************************************)
(* The keyboard driver asks for the command byte of a silent controller.   *)
(***************************************************************************)
LEMMA KeyboardCommandIInv ==
  ASSUME Quiet, IInv, KeyboardCommand
  PROVE  IInv'
<1> USE DEF IInv, KeyboardCommand, BootStep
<1>1. PTyped'
  BY DEF PTyped, Stages
<1>2. Queued'
  <2>1. ccb' \in 0 .. 255 /\ reply' = Append(reply, ccb')
    BY Bits DEF Queued
  <2>2. reply \in Seq(0 .. 255)
    BY DEF Queued
  <2>3. reply' \in Seq(0 .. 255)
    <3> HIDE DEF IInv, KeyboardCommand, BootStep
    <3>1. QED
      BY <2>1, <2>2, AppendProperties
  <2>4. QED
    BY <2>1, <2>3 DEF Queued
<1>3. Booting'
  <2>1. reply' = <<ccb'>>
    BY AppendsOne DEF Booting, Silent
  <2>2. QED
    BY <2>1 DEF Booting, Silent, Answering
<1>4. pc' # "run"
  OBVIOUS
<1>5. (Running /\ KeyStream /\ PacketStream)'
  BY <1>4 DEF Running, KeyStream, PacketStream
<1>6. QED
  BY <1>1, <1>2, <1>3, <1>5

(***************************************************************************)
(* The answer is the command byte, and it is written back with the         *)
(* keyboard on.                                                            *)
(***************************************************************************)
LEMMA KeyboardConfigureIInv ==
  ASSUME Quiet, IInv, KeyboardConfigure
  PROVE  IInv'
<1> USE DEF IInv, KeyboardConfigure, BootStep
<1>1. PTyped'
  <2>1. offset' = 0 /\ px' = 40 /\ py' = 12
    OBVIOUS
  <2>2. px' \in 0 .. 79 /\ py' \in 0 .. 24 /\ offset' \in 0 .. 2
    <3> HIDE DEF IInv, KeyboardConfigure, BootStep
    <3>1. QED
      BY <2>1
  <2>3. QED
    BY <2>2 DEF PTyped, Stages
<1>2. Queued'
  <2>1. Data \in 0 .. 255
    BY DataIsByte
  <2>2. ccb' \in 0 .. 255
    BY <2>1, Bits
  <2>3. QED
    BY <2>1, <2>2, BytesSent, ZenonT(60) DEF Queued, ReadData
<1>3. Booting'
  <2>1. KbdOn'
    BY DataIsByte, Bits DEF KbdOn
  <2>2. obf' = Empty /\ reply' = <<>> /\ kbd' = <<>> /\ aux' = <<>> /\ owes' = {"kbd"}
    BY DEF Booting, Answering, ReadData
  <2>3. QED
    BY <2>1, <2>2 DEF Booting, KbdAnswers
<1>4. pc' # "run"
  OBVIOUS
<1>5. (Running /\ KeyStream /\ PacketStream)'
  BY <1>4 DEF Running, KeyStream, PacketStream
<1>6. QED
  BY <1>1, <1>2, <1>3, <1>5

(***************************************************************************)
(* The second loop takes what the keyboard has left, its acknowledge at    *)
(* most.                                                                   *)
(***************************************************************************)
LEMMA MouseFlushIInv ==
  ASSUME Quiet, IInv, MouseFlush
  PROVE  IInv'
<1> USE DEF IInv, MouseFlush, FlushTurn, BootStep, ReadData
<1>1. PTyped'
  BY DEF PTyped, Stages
<1>2. Queued'
  <2>1. obf' \in Bytes /\ (obf'.from = "none" => obf' = Empty)
    BY BytesSent, ZenonT(60) DEF Queued
  <2>2. last' \in 0 .. 255
    BY DataIsByte DEF Queued
  <2>3. QED
    BY <2>1, <2>2 DEF Queued
<1>3. Booting'
  <2>1. KbdOn' /\ (Silent \/ KbdAnswers) /\ offset' = 0 /\ typed' = <<>> /\ got' = <<>>
    BY DEF Booting, KbdOn
  <2>2. CASE obf = Empty
    <3>1. Silent
      <4>1. Settled
        OBVIOUS
      <4>2. Bit(ccb, KbdOff) = 0
        BY <2>1 DEF KbdOn
      <4>3. owes = {} /\ reply = <<>> /\ kbd = <<>>
        <5> HIDE DEF IInv, MouseFlush, FlushTurn, BootStep, ReadData
        <5>1. QED
          BY <2>2, <4>1, <4>2 DEF Settled
      <4>4. aux = <<>>
        BY <2>1 DEF Silent, KbdAnswers
      <4>5. QED
        BY <2>2, <4>3, <4>4 DEF Silent
    <3>2. Silent' /\ pc' = "mouse command"
      BY <2>2, <3>1 DEF Silent
    <3>3. QED
      BY <2>1, <3>2 DEF Booting
  <2>3. CASE obf # Empty
    <3>1. Silent' /\ pc' = "mouse flush"
      BY <2>1, <2>3 DEF Silent, KbdAnswers
    <3>2. QED
      BY <2>1, <3>1 DEF Booting
  <2>4. QED
    BY <2>2, <2>3
<1>4. pc' # "run"
  OBVIOUS
<1>5. (Running /\ KeyStream /\ PacketStream)'
  BY <1>4 DEF Running, KeyStream, PacketStream
<1>6. QED
  BY <1>1, <1>2, <1>3, <1>5

(***************************************************************************)
(* The mouse driver asks the silent controller again.                      *)
(***************************************************************************)
LEMMA MouseCommandIInv ==
  ASSUME Quiet, IInv, MouseCommand
  PROVE  IInv'
<1> USE DEF IInv, MouseCommand, BootStep
<1>1. PTyped'
  BY DEF PTyped, Stages
<1>2. Queued'
  <2>1. ccb' \in 0 .. 255 /\ reply' = Append(reply, ccb')
    BY Bits DEF Queued
  <2>2. reply \in Seq(0 .. 255)
    BY DEF Queued
  <2>3. reply' \in Seq(0 .. 255)
    <3> HIDE DEF IInv, MouseCommand, BootStep
    <3>1. QED
      BY <2>1, <2>2, AppendProperties
  <2>4. QED
    BY <2>1, <2>3 DEF Queued
<1>3. Booting'
  <2>1. reply' = <<ccb'>>
    BY AppendsOne DEF Booting, Silent
  <2>2. KbdOn' /\ Bit(ccb', AuxOff) = 0
    BY Bits, ZenonT(60) DEF Booting, KbdOn, Queued
  <2>3. QED
    BY <2>1, <2>2 DEF Booting, Silent, Answering
<1>4. pc' # "run"
  OBVIOUS
<1>5. (Running /\ KeyStream /\ PacketStream)'
  BY <1>4 DEF Running, KeyStream, PacketStream
<1>6. QED
  BY <1>1, <1>2, <1>3, <1>5

(***************************************************************************)
(* The answer is written back with the mouse on, and the keyboard as it    *)
(* was.                                                                    *)
(***************************************************************************)
LEMMA MouseConfigureIInv ==
  ASSUME Quiet, IInv, MouseConfigure
  PROVE  IInv'
<1> USE DEF IInv, MouseConfigure, BootStep
<1>1. PTyped'
  BY DEF PTyped, Stages
<1>2. Queued'
  <2>1. Data \in 0 .. 255
    BY DataIsByte
  <2>2. ccb' \in 0 .. 255
    BY <2>1, Bits
  <2>3. QED
    BY <2>1, <2>2, BytesSent, ZenonT(60) DEF Queued, ReadData
<1>3. Booting'
  <2>1. obf = Byte("ctrl", "ccb", ccb) /\ reply = <<>> /\ kbd = <<>> /\ aux = <<>> /\ owes = {}
    BY DEF Booting, Answering
  <2>2. Data = ccb
    BY <2>1 DEF Data, Byte, Empty
  <2>3. KbdOn' /\ AuxOn'
    BY <2>2, Bits, ZenonT(60) DEF Booting, KbdOn, AuxOn, Queued
  <2>4. obf' = Empty /\ reply' = <<>> /\ kbd' = <<>> /\ aux' = <<>> /\ owes' = {"aux"}
    BY <2>1 DEF ReadData
  <2>5. QED
    BY <2>3, <2>4 DEF Booting, AuxAnswers
<1>4. pc' # "run"
  OBVIOUS
<1>5. (Running /\ KeyStream /\ PacketStream)'
  BY <1>4 DEF Running, KeyStream, PacketStream
<1>6. QED
  BY <1>1, <1>2, <1>3, <1>5

(***************************************************************************)
(* In a quiet boot the answer that is read without a look is there: the    *)
(* acknowledge.                                                            *)
(***************************************************************************)
LEMMA MouseAcknowledgeIInv ==
  ASSUME Quiet, IInv, MouseAcknowledge
  PROVE  IInv'
<1> USE DEF IInv, MouseAcknowledge, BootStep
<1>1. PTyped'
  BY DEF PTyped, Stages
<1>2. Queued'
  BY DataIsByte, BytesSent DEF Queued, ReadData
<1>3. Booting'
  <2>1. KbdOn /\ AuxOn /\ AuxAnswers /\ Settled
    BY DEF Booting
  <2>2. obf = Byte("aux", "ack", Ack) /\ reply = <<>> /\ kbd = <<>> /\ aux = <<>> /\ owes = {}
    <3> HIDE DEF IInv, MouseAcknowledge, BootStep
    <3>1. owes = {} /\ (obf = Empty => aux = <<>>)
      BY <2>1 DEF Settled, AuxOn
    <3>2. QED
      BY <2>1, <3>1 DEF AuxAnswers
  <2>3. Data = Ack
    BY <2>2 DEF Data, Byte, Empty
  <2>4. Silent' /\ last' = Ack
    BY <2>2, <2>3 DEF Silent, ReadData
  <2>5. KbdOn' /\ AuxOn'
    BY <2>1 DEF KbdOn, AuxOn
  <2>6. QED
    BY <2>4, <2>5 DEF Booting
<1>4. pc' # "run"
  OBVIOUS
<1>5. (Running /\ KeyStream /\ PacketStream)'
  BY <1>4 DEF Running, KeyStream, PacketStream
<1>6. QED
  BY <1>1, <1>2, <1>3, <1>5

(***************************************************************************)
(* The handlers start with nothing under way.                              *)
(***************************************************************************)
LEMMA EnabledIInv ==
  ASSUME Quiet, IInv, Enabled
  PROVE  IInv'
<1> USE DEF IInv, Enabled, BootStep, controller
<1>1. PTyped'
  BY DEF PTyped, Stages
<1>2. Queued'
  BY DEF Queued
<1>3. Booting'
  BY DEF Booting
<1>4. KbdOn /\ AuxOn /\ Silent /\ offset = 0 /\ typed = <<>> /\ got = <<>>
  BY DEF Booting
<1>5. Running'
  BY <1>4 DEF Running, KbdOn, AuxOn, Silent
<1>6. Len(typed') = 0 /\ Len(kbd') = 0 /\ Len(got') = 0 /\ Len(aux') = 0
  BY <1>4 DEF Silent
<1>7. obf'.from = "none" /\ offset' = 0
  BY <1>4, BytesSent DEF Silent
<1>8. KeyStream'
  BY <1>6, <1>7 DEF KeyStream, Left, Read
<1>9. PacketStream'
  BY <1>6, <1>7 DEF PacketStream, Begun
<1>10. QED
  BY <1>1, <1>2, <1>3, <1>5, <1>8, <1>9

-----------------------------------------------------------------------------
(* The controller and the devices. *)

(***************************************************************************)
(* A reply is the command byte that was asked for; the drivers do not run  *)
(* yet.                                                                    *)
(***************************************************************************)
LEMMA LoadReplyIInv ==
  ASSUME Quiet, IInv, LoadReply
  PROVE  IInv'
<1>1. /\ reply # <<>> /\ reply' = Tail(reply) /\ obf = Empty
      /\ obf' = Byte("ctrl", "ccb", Head(reply))
      /\ UNCHANGED <<kbd, aux, driver, last, ccb, owes, reporting, typed, moves>>
  BY DEF LoadReply, Load
<1>2. /\ pc \in {"keyboard configure", "mouse configure"}
      /\ Answering
      /\ pc = "mouse configure" => KbdOn /\ Bit(ccb, AuxOff) = 0
  BY <1>1 DEF IInv, PTyped, Stages, Booting, Running, Silent, KbdAnswers, AuxAnswers
<1>3. reply = <<ccb>> /\ kbd = <<>> /\ aux = <<>> /\ owes = {}
  BY <1>1, <1>2 DEF Answering
<1>4. reply' = <<>> /\ obf' = Byte("ctrl", "ccb", ccb')
  BY <1>1, <1>3
<1>5. PTyped'
  BY <1>1 DEF IInv, PTyped, driver
<1>6. irq' \subseteq {1, 12}
  BY DEF LoadReply, Load, IInv, Queued
<1>7. obf' \in Bytes /\ obf'.from = "ctrl"
  <2>1. ccb' \in 0 .. 255
    BY <1>1 DEF IInv, Queued
  <2>2. obf' \in Bytes
    BY <1>4, <2>1, BytesSent
  <2>3. QED
    BY <1>4, <2>2 DEF Byte
<1>8. Queued'
  BY <1>1, <1>4, <1>6, <1>7 DEF IInv, Queued
<1>9. Answering'
  BY <1>1, <1>3, <1>4 DEF Answering
<1>10. Booting'
  BY <1>1, <1>2, <1>9 DEF IInv, Booting, KbdOn, driver
<1>11. (Running /\ KeyStream /\ PacketStream)'
  BY <1>1, <1>2 DEF Running, KeyStream, PacketStream, driver
<1>12. QED
  BY <1>5, <1>8, <1>10, <1>11 DEF IInv

(***************************************************************************)
(* At boot the keyboard and the mouse send an acknowledge each, when they  *)
(* are asked.                                                              *)
(***************************************************************************)
LEMMA LoadDeviceBootIInv ==
  ASSUME Quiet, IInv, LoadKeyboard \/ LoadMouse, pc # "run"
  PROVE  IInv'
<1>1. /\ obf = Empty /\ pc' = pc
      /\ UNCHANGED <<reply, driver, last, ccb, owes, reporting, typed, moves>>
  BY DEF LoadKeyboard, LoadMouse, Load, driver
<1>2. irq' \subseteq {1, 12}
  BY DEF LoadKeyboard, LoadMouse, Load, IInv, Queued
<1>3. PTyped'
  BY <1>1 DEF IInv, PTyped, driver
<1>4. (Running /\ KeyStream /\ PacketStream)'
  BY <1>1 DEF Running, KeyStream, PacketStream
<1>5. CASE LoadKeyboard
  <2>1. kbd # <<>> /\ kbd' = Tail(kbd) /\ obf' = Head(kbd) /\ aux' = aux
    BY <1>5 DEF LoadKeyboard, Load
  <2>2. pc = "mouse flush" /\ KbdAnswers /\ KbdOn
    BY <1>1, <2>1 DEF IInv, PTyped, Stages, Booting, Silent, Answering, AuxAnswers
  <2>3. kbd = <<Byte("kbd", "ack", Ack)>> /\ reply = <<>> /\ aux = <<>> /\ owes = {}
    BY <2>1, <2>2 DEF KbdAnswers
  <2>4. kbd' = <<>> /\ obf' = Byte("kbd", "ack", Ack)
    BY <2>1, <2>3
  <2>5. obf' \in Bytes /\ obf'.from = "kbd"
    <3>1. obf' \in Bytes
      BY <2>4, BytesSent
    <3>2. QED
      BY <2>4, <3>1 DEF Byte
  <2>6. Queued'
    BY <1>1, <1>2, <2>1, <2>4, <2>5 DEF IInv, Queued
  <2>7. KbdAnswers'
    BY <1>1, <2>1, <2>3, <2>4 DEF KbdAnswers
  <2>8. Booting'
    BY <1>1, <2>2, <2>7 DEF IInv, Booting, KbdOn, driver
  <2>9. QED
    BY <1>3, <1>4, <2>6, <2>8 DEF IInv
<1>6. CASE LoadMouse
  <2>1. aux # <<>> /\ aux' = Tail(aux) /\ obf' = Head(aux) /\ kbd' = kbd
    BY <1>6 DEF LoadMouse, Load
  <2>2. pc = "mouse acknowledge" /\ AuxAnswers /\ KbdOn /\ AuxOn
    BY <1>1, <2>1 DEF IInv, PTyped, Stages, Booting, Silent, Answering, KbdAnswers
  <2>3. aux = <<Byte("aux", "ack", Ack)>> /\ reply = <<>> /\ kbd = <<>> /\ owes = {}
    BY <2>1, <2>2 DEF AuxAnswers
  <2>4. aux' = <<>> /\ obf' = Byte("aux", "ack", Ack)
    BY <2>1, <2>3
  <2>5. obf' \in Bytes /\ obf'.from = "aux"
    <3>1. obf' \in Bytes
      BY <2>4, BytesSent
    <3>2. QED
      BY <2>4, <3>1 DEF Byte
  <2>6. Queued'
    BY <1>1, <1>2, <2>1, <2>4, <2>5 DEF IInv, Queued
  <2>7. AuxAnswers'
    BY <1>1, <2>1, <2>3, <2>4 DEF AuxAnswers
  <2>8. Booting'
    BY <1>1, <2>2, <2>7 DEF IInv, Booting, KbdOn, AuxOn, driver
  <2>9. QED
    BY <1>3, <1>4, <2>6, <2>8 DEF IInv
<1>7. QED
  BY <1>5, <1>6

(***************************************************************************)
(* A device that is asked acknowledges; after boot none is.                *)
(***************************************************************************)
LEMMA AcknowledgesIInv ==
  ASSUME Quiet, IInv, Acknowledges
  PROVE  IInv'
<1>1. UNCHANGED <<driver, obf, last, ccb, reply, reporting, irq, typed, moves>> /\ pc' = pc
  BY DEF Acknowledges, driver
<1>2. PTyped'
  BY <1>1 DEF IInv, PTyped, driver
<1>3. owes # {}
  BY DEF Acknowledges
<1>4. pc # "run"
  BY <1>3 DEF IInv, Running
<1>5. (Running /\ KeyStream /\ PacketStream)'
  BY <1>1, <1>4 DEF Running, KeyStream, PacketStream
<1>6. \/ pc = "mouse flush" /\ KbdAnswers /\ KbdOn /\ owes = {"kbd"}
      \/ pc = "mouse acknowledge" /\ AuxAnswers /\ KbdOn /\ AuxOn /\ owes = {"aux"}
  BY <1>3, <1>4 DEF IInv, PTyped, Stages, Booting, Silent, Answering, KbdAnswers,
                    AuxAnswers
<1>7. CASE pc = "mouse flush" /\ KbdAnswers /\ KbdOn /\ owes = {"kbd"}
  <2>1. owes' = {} /\ kbd' = Append(kbd, Byte("kbd", "ack", Ack)) /\ aux' = aux
    BY <1>7 DEF Acknowledges
  <2>2. obf = Empty /\ kbd = <<>> /\ reply = <<>> /\ aux = <<>>
    BY <1>7 DEF KbdAnswers
  <2>3. kbd' = <<Byte("kbd", "ack", Ack)>>
    BY <2>1, <2>2, AppendsOne
  <2>4. kbd' \in Seq(Bytes) /\ \A i \in 1 .. Len(kbd') : kbd'[i].from = "kbd"
    <3>1. Byte("kbd", "ack", Ack) \in Bytes
      BY BytesSent
    <3>2. Byte("kbd", "ack", Ack).from = "kbd"
      BY DEF Byte
    <3>3. QED
      BY <2>3, <3>1, <3>2
  <2>5. Queued'
    BY <1>1, <2>1, <2>4 DEF IInv, Queued
  <2>6. KbdAnswers'
    BY <1>1, <2>1, <2>2, <2>3 DEF KbdAnswers
  <2>7. Booting'
    BY <1>1, <1>7, <2>6 DEF IInv, Booting, KbdOn, driver
  <2>8. QED
    BY <1>2, <1>5, <2>5, <2>7 DEF IInv
<1>8. CASE pc = "mouse acknowledge" /\ AuxAnswers /\ KbdOn /\ AuxOn /\ owes = {"aux"}
  <2>1. owes' = {} /\ aux' = Append(aux, Byte("aux", "ack", Ack)) /\ kbd' = kbd
    BY <1>8 DEF Acknowledges
  <2>2. obf = Empty /\ kbd = <<>> /\ reply = <<>> /\ aux = <<>>
    BY <1>8 DEF AuxAnswers
  <2>3. aux' = <<Byte("aux", "ack", Ack)>>
    BY <2>1, <2>2, AppendsOne
  <2>4. aux' \in Seq(Bytes) /\ \A i \in 1 .. Len(aux') : aux'[i].from = "aux"
    <3>1. Byte("aux", "ack", Ack) \in Bytes
      BY BytesSent
    <3>2. Byte("aux", "ack", Ack).from = "aux"
      BY DEF Byte
    <3>3. QED
      BY <2>3, <3>1, <3>2
  <2>5. Queued'
    BY <1>1, <2>1, <2>4 DEF IInv, Queued
  <2>6. AuxAnswers'
    BY <1>1, <2>1, <2>2, <2>3 DEF AuxAnswers
  <2>7. Booting'
    BY <1>1, <1>8, <2>6 DEF IInv, Booting, KbdOn, AuxOn, driver
  <2>8. QED
    BY <1>2, <1>5, <2>5, <2>7 DEF IInv
<1>9. QED
  BY <1>6, <1>7, <1>8

-----------------------------------------------------------------------------
(* Keys and packets. *)

(***************************************************************************)
(* In operation only the streams need a proof: what the boot established   *)
(* stays.                                                                  *)
(***************************************************************************)
LEMMA RunStays ==
  ASSUME pc = "run", pc' = "run"
  PROVE  Booting'
BY DEF Booting

(***************************************************************************)
(* What follows the head of a queue.                                       *)
(***************************************************************************)
LEMMA Tails ==
  ASSUME NEW S, NEW q \in Seq(S), q # <<>>
  PROVE  /\ Head(q) = q[1] /\ Head(q) \in S /\ Len(q) \in Nat \ {0}
         /\ Tail(q) \in Seq(S) /\ Len(Tail(q)) = Len(q) - 1
         /\ \A i \in 1 .. Len(q) - 1 : Tail(q)[i] = q[i + 1]
BY HeadTailProperties

(***************************************************************************)
(* Counts are natural numbers.                                             *)
(***************************************************************************)
LEMMA Counts ==
  ASSUME PTyped, Queued
  PROVE  Len(typed) \in Nat /\ Len(kbd) \in Nat /\ Len(aux) \in Nat /\ Len(got) \in Nat
BY LenProperties DEF PTyped, Queued

(***************************************************************************)
(* The keyboard's next byte goes into the buffer: one more has left.       *)
(***************************************************************************)
LEMMA LoadKeyboardRunIInv ==
  ASSUME IInv, LoadKeyboard, pc = "run"
  PROVE  IInv'
<1>1. /\ obf = Empty /\ kbd # <<>> /\ kbd' = Tail(kbd) /\ obf' = Head(kbd) /\ pc' = "run"
      /\ UNCHANGED <<reply, aux, driver, last, ccb, owes, reporting, typed, moves>>
  BY DEF LoadKeyboard, Load, driver
<1>2. obf.from # "kbd" /\ obf.from # "aux"
  BY <1>1 DEF Byte, Empty
<1>3. irq = {} /\ KbdOn /\ AuxOn /\ reply = <<>> /\ owes = {}
  BY <1>2 DEF IInv, Running
<1>4. irq' = {1}
  BY <1>3 DEF LoadKeyboard, Load, KbdOn
<1>5. kbd \in Seq(Bytes) /\ (\A i \in 1 .. Len(kbd) : kbd[i].from = "kbd")
  BY DEF IInv, Queued
<1>6. /\ obf' = kbd[1] /\ obf' \in Bytes /\ Len(kbd) \in Nat \ {0}
      /\ kbd' \in Seq(Bytes) /\ Len(kbd') = Len(kbd) - 1
      /\ \A i \in 1 .. Len(kbd) - 1 : kbd'[i] = kbd[i + 1]
  BY <1>1, <1>5, Tails
<1>7. obf'.from = "kbd"
  BY <1>5, <1>6
<1>8. \A i \in 1 .. Len(kbd') : kbd'[i].from = "kbd"
  <2>1. \A i \in 1 .. Len(kbd') : i + 1 \in 1 .. Len(kbd) /\ kbd'[i] = kbd[i + 1]
    BY <1>6
  <2>2. QED
    BY <1>5, <2>1
<1>9. PTyped' /\ Running' /\ Booting'
  <2>1. PTyped'
    BY <1>1 DEF IInv, PTyped, driver
  <2>2. Running'
    BY <1>1, <1>3, <1>4, <1>7 DEF Running, KbdOn, AuxOn
  <2>3. QED
    BY <1>1, <2>1, <2>2, RunStays
<1>10. Queued'
  BY <1>1, <1>4, <1>6, <1>7, <1>8 DEF IInv, Queued
<1>11. KeyStream'
  <2>1. Len(typed) \in Nat /\ Len(kbd) \in Nat /\ Len(got) \in Nat
    BY Counts DEF IInv
  <2>2. Left' = Left + 1 /\ Left \in Int /\ Left >= 0
    BY <1>1, <1>6, <2>1 DEF Left, IInv, KeyStream
  <2>3. Read = Left /\ Read' = Left
    BY <1>2, <1>7, <2>2 DEF Read
  <2>4. typed' = typed /\ got' = got
    BY <1>1 DEF driver
  <2>5. ASSUME NEW j \in 1 .. Len(typed)
        PROVE  /\ 2 * j - 1 > Left + 1 => kbd'[2 * j - 1 - (Left + 1)] = Press(j)
               /\ 2 * j > Left + 1 => kbd'[2 * j - (Left + 1)] = Release(j)
               /\ 2 * j - 1 = Left + 1 => obf' = Press(j)
               /\ 2 * j = Left + 1 => obf' = Release(j)
    <3>1. /\ 2 * j - 1 > Left => kbd[2 * j - 1 - Left] = Press(j)
          /\ 2 * j > Left => kbd[2 * j - Left] = Release(j)
      BY DEF IInv, KeyStream
    <3>2. ASSUME 2 * j - 1 > Left + 1
          PROVE  kbd'[2 * j - 1 - (Left + 1)] = Press(j)
      <4>1. 2 * j - 1 - (Left + 1) \in 1 .. Len(kbd) - 1
        BY <2>1, <2>2, <3>2 DEF Left
      <4>2. (2 * j - 1 - (Left + 1)) + 1 = 2 * j - 1 - Left /\ 2 * j - 1 > Left
        BY <2>2, <3>2
      <4>3. QED
        BY <1>6, <2>2, <3>1, <3>2, <4>1, <4>2
    <3>3. ASSUME 2 * j > Left + 1
          PROVE  kbd'[2 * j - (Left + 1)] = Release(j)
      <4>1. 2 * j - (Left + 1) \in 1 .. Len(kbd) - 1
        BY <2>1, <2>2, <3>3 DEF Left
      <4>2. (2 * j - (Left + 1)) + 1 = 2 * j - Left /\ 2 * j > Left
        BY <2>2, <3>3
      <4>3. QED
        BY <1>6, <2>2, <3>1, <3>3, <4>1, <4>2
    <3>4. ASSUME 2 * j - 1 = Left + 1
          PROVE  obf' = Press(j)
      <4>1. 2 * j - 1 - Left = 1 /\ 2 * j - 1 > Left
        BY <2>2, <3>4
      <4>2. QED
        BY <1>6, <3>1, <4>1
    <3>5. ASSUME 2 * j = Left + 1
          PROVE  obf' = Release(j)
      <4>1. 2 * j - Left = 1 /\ 2 * j > Left
        BY <2>2, <3>5
      <4>2. QED
        BY <1>6, <3>1, <4>1
    <3>6. QED
      BY <3>2, <3>3, <3>4, <3>5
  <2>6. \A j : Press(j)' = Press(j) /\ Release(j)' = Release(j)
    BY <2>4 DEF Press, Release
  <2>7. Left' >= 0 /\ Left' >= 1
    BY <2>2
  <2>8. Read = 2 * Len(got) \/ Read = 2 * Len(got) - 1
    BY DEF IInv, KeyStream
  <2>9. \A i \in 1 .. Len(got) : got[i] = typed[i]
    BY DEF IInv, KeyStream
  <2>10. QED
    BY <2>2, <2>3, <2>4, <2>5, <2>6, <2>7, <2>8, <2>9 DEF KeyStream
<1>12. PacketStream'
  <2>1. Begun' = Begun /\ aux' = aux /\ buffer' = buffer /\ offset' = offset
    BY <1>1, <1>2, <1>7 DEF Begun, driver
  <2>2. QED
    BY <1>7, <2>1 DEF IInv, PacketStream
<1>13. QED
  BY <1>9, <1>10, <1>11, <1>12 DEF IInv

(***************************************************************************)
(* The mouse's next byte goes into the buffer: one more of the packet has  *)
(* begun.                                                                  *)
(***************************************************************************)
LEMMA LoadMouseRunIInv ==
  ASSUME IInv, LoadMouse, pc = "run"
  PROVE  IInv'
<1>1. /\ obf = Empty /\ aux # <<>> /\ aux' = Tail(aux) /\ obf' = Head(aux) /\ pc' = "run"
      /\ UNCHANGED <<reply, kbd, driver, last, ccb, owes, reporting, typed, moves>>
  BY DEF LoadMouse, Load, driver
<1>2. obf.from # "kbd" /\ obf.from # "aux"
  BY <1>1 DEF Byte, Empty
<1>3. irq = {} /\ KbdOn /\ AuxOn /\ reply = <<>> /\ owes = {}
  BY <1>2 DEF IInv, Running
<1>4. irq' = {12}
  BY <1>3 DEF LoadMouse, Load, AuxOn
<1>5. aux \in Seq(Bytes) /\ (\A i \in 1 .. Len(aux) : aux[i].from = "aux")
  BY DEF IInv, Queued
<1>6. /\ obf' = aux[1] /\ obf' \in Bytes /\ Len(aux) \in Nat \ {0}
      /\ aux' \in Seq(Bytes) /\ Len(aux') = Len(aux) - 1
      /\ \A i \in 1 .. Len(aux) - 1 : aux'[i] = aux[i + 1]
  BY <1>1, <1>5, Tails
<1>7. obf'.from = "aux"
  BY <1>5, <1>6
<1>8. \A i \in 1 .. Len(aux') : i + 1 \in 1 .. Len(aux) /\ aux'[i] = aux[i + 1]
  BY <1>6
<1>9. \A i \in 1 .. Len(aux') : aux'[i].from = "aux"
  BY <1>5, <1>8
<1>10. PTyped' /\ Running' /\ Booting'
  <2>1. PTyped'
    BY <1>1 DEF IInv, PTyped, driver
  <2>2. Running'
    BY <1>1, <1>3, <1>4, <1>7 DEF Running, KbdOn, AuxOn
  <2>3. QED
    BY <1>1, <2>1, <2>2, RunStays
<1>11. Queued'
  BY <1>1, <1>4, <1>6, <1>7, <1>9 DEF IInv, Queued
<1>12. KeyStream'
  <2>1. Left' = Left /\ Read' = Read /\ typed' = typed /\ got' = got /\ kbd' = kbd
    BY <1>1, <1>2, <1>7 DEF Left, Read, driver
  <2>2. \A j : Press(j)' = Press(j) /\ Release(j)' = Release(j)
    BY <2>1 DEF Press, Release
  <2>3. QED
    BY <1>7, <2>1, <2>2 DEF IInv, KeyStream
<1>13. PacketStream'
  <2>1. offset \in 0 .. 2 /\ Begun = offset /\ Begun' = offset + 1
    BY <1>1, <1>2, <1>7 DEF IInv, PTyped, Begun, driver
  <2>2. /\ \A i \in 1 .. Len(aux) : aux[i].kind = Kind((offset + i - 1) % 3)
        /\ (offset + Len(aux)) % 3 = 0
    BY <2>1 DEF IInv, PacketStream
  <2>3. ASSUME NEW i \in 1 .. Len(aux')
        PROVE  aux'[i].kind = Kind((Begun' + i - 1) % 3)
    <3>1. offset + (i + 1) - 1 = Begun' + i - 1
      BY <1>6, <2>1
    <3>2. aux[i + 1].kind = Kind((offset + (i + 1) - 1) % 3)
      BY <1>8, <2>2
    <3>3. QED
      BY <1>8, <3>1, <3>2
  <2>4. (Begun' + Len(aux')) % 3 = 0
    <3>1. Begun' + Len(aux') = offset + Len(aux)
      BY <1>6, <2>1
    <3>2. QED
      BY <2>2, <3>1
  <2>5. obf'.kind = Kind(offset)
    <3>1. aux[1].kind = Kind((offset + 1 - 1) % 3)
      BY <1>6, <2>2
    <3>2. (offset + 1 - 1) % 3 = offset
      BY <2>1
    <3>3. QED
      BY <1>6, <3>1, <3>2
  <2>6. \A j \in 0 .. 2 : j < offset' => buffer'[j].kind = Kind(j)
    BY <1>1 DEF IInv, PacketStream, driver
  <2>7. offset' = offset /\ \A n : Kind(n)' = Kind(n)
    BY <1>1 DEF Kind, driver
  <2>8. QED
    BY <2>3, <2>4, <2>5, <2>6, <2>7 DEF PacketStream
<1>14. QED
  BY <1>10, <1>11, <1>12, <1>13 DEF IInv

(***************************************************************************)
(* What two sequences in a row hold.                                       *)
(***************************************************************************)
LEMMA Joined ==
  ASSUME NEW S, NEW q \in Seq(S), NEW r \in Seq(S)
  PROVE  /\ q \o r \in Seq(S) /\ Len(q \o r) = Len(q) + Len(r)
         /\ \A i \in 1 .. Len(q) : (q \o r)[i] = q[i]
         /\ \A i \in 1 .. Len(r) : (q \o r)[Len(q) + i] = r[i]
<1>1. Len(q) \in Nat /\ Len(r) \in Nat
  BY LenProperties
<1>2. /\ q \o r \in Seq(S) /\ Len(q \o r) = Len(q) + Len(r)
      /\ \A i \in 1 .. Len(q) + Len(r) :
           (q \o r)[i] = IF i <= Len(q) THEN q[i] ELSE r[i - Len(q)]
  BY ConcatProperties
<1>3. \A i \in 1 .. Len(q) : i \in 1 .. Len(q) + Len(r) /\ i <= Len(q)
  BY <1>1
<1>4. \A i \in 1 .. Len(r) : /\ Len(q) + i \in 1 .. Len(q) + Len(r)
                             /\ ~(Len(q) + i <= Len(q)) /\ (Len(q) + i) - Len(q) = i
  BY <1>1
<1>5. \A i \in 1 .. Len(q) : (q \o r)[i] = q[i]
  BY <1>2, <1>3
<1>6. \A i \in 1 .. Len(r) : (q \o r)[Len(q) + i] = r[i]
  BY <1>2, <1>4
<1>7. QED
  BY <1>2, <1>5, <1>6

(***************************************************************************)
(* A key typed is a press and a release behind what waits.                 *)
(***************************************************************************)
LEMMA TypeIInv ==
  ASSUME Quiet, IInv, NEW k \in Keys, Type(k)
  PROVE  IInv'
<1> DEFINE two == <<Byte("kbd", "press", k), Byte("kbd", "release", k + 128)>>
<1>1. /\ pc = "run" /\ pc' = "run" /\ typed' = Append(typed, k) /\ kbd' = kbd \o two
      /\ UNCHANGED <<driver, obf, last, ccb, reply, aux, owes, reporting, irq, moves>>
  BY DEF Type, Touched, driver
<1>2. /\ two \in Seq(Bytes) /\ Len(two) = 2
      /\ two[1] = Byte("kbd", "press", k) /\ two[2] = Byte("kbd", "release", k + 128)
  BY BytesSent
<1>3. two[1].from = "kbd" /\ two[2].from = "kbd"
  BY DEF Byte
<1> HIDE DEF two
<1>4. kbd \in Seq(Bytes) /\ typed \in Seq(Keys) /\ got \in Seq(Keys)
  BY DEF IInv, Queued, PTyped
<1>5. Len(typed) \in Nat /\ Len(kbd) \in Nat /\ Len(got) \in Nat
  BY Counts DEF IInv
<1>6. /\ kbd' \in Seq(Bytes) /\ Len(kbd') = Len(kbd) + 2
      /\ \A i \in 1 .. Len(kbd) : kbd'[i] = kbd[i]
      /\ \A i \in 1 .. 2 : kbd'[Len(kbd) + i] = two[i]
  <2> DEFINE q == kbd \o two
  <2>1. /\ q \in Seq(Bytes) /\ Len(q) = Len(kbd) + Len(two)
        /\ \A i \in 1 .. Len(kbd) : q[i] = kbd[i]
        /\ \A i \in 1 .. Len(two) : q[Len(kbd) + i] = two[i]
    <3>1. two \in Seq(Bytes)
      BY <1>2
    <3>2. QED
      BY <1>4, <3>1, Joined
  <2>2. kbd' = q
    BY <1>1
  <2> HIDE DEF q
  <2>3. QED
    BY <1>2, <2>1, <2>2
<1>7. kbd'[Len(kbd) + 1] = two[1] /\ kbd'[Len(kbd) + 2] = two[2]
  BY <1>2, <1>6
<1>8. /\ typed' \in Seq(Keys) /\ Len(typed') = Len(typed) + 1
      /\ \A j \in 1 .. Len(typed) : typed'[j] = typed[j]
      /\ typed'[Len(typed) + 1] = k
  BY <1>1, <1>4, AppendProperties
<1>9. \A i \in 1 .. Len(kbd') : kbd'[i].from = "kbd"
  <2>1. ASSUME NEW i \in 1 .. Len(kbd')
        PROVE  i \in 1 .. Len(kbd) \/ i = Len(kbd) + 1 \/ i = Len(kbd) + 2
    BY <1>5, <1>6
  <2>2. \A i \in 1 .. Len(kbd) : kbd[i].from = "kbd"
    BY DEF IInv, Queued
  <2>3. QED
    BY <1>3, <1>6, <1>7, <2>1, <2>2
<1>10. PTyped' /\ Running' /\ Booting'
  <2>1. PTyped'
    BY <1>1, <1>8 DEF IInv, PTyped, driver
  <2>2. Running'
    BY <1>1 DEF IInv, Running, KbdOn, AuxOn
  <2>3. QED
    BY <1>1, <2>1, <2>2, RunStays
<1>11. Queued'
  BY <1>1, <1>6, <1>9 DEF IInv, Queued
<1>12. KeyStream'
  <2>1. Left' = Left /\ Left \in Int /\ Left >= 0 /\ Left = 2 * Len(typed) - Len(kbd)
    BY <1>1, <1>5, <1>6, <1>8 DEF Left, IInv, KeyStream
  <2>2. Read' = Read /\ Read <= Left
    BY <1>1, <2>1 DEF Read
  <2>3. \A j \in 1 .. Len(typed) : Press(j)' = Press(j) /\ Release(j)' = Release(j)
    BY <1>8 DEF Press, Release
  <2>4. ASSUME NEW j, j = Len(typed) + 1
        PROVE  Press(j)' = two[1] /\ Release(j)' = two[2]
    <3>1. typed'[j] = k
      BY <1>8, <2>4
    <3>2. QED
      BY <1>2, <3>1 DEF Press, Release
  <2>5. \A j \in 1 .. Len(typed') : j \in 1 .. Len(typed) \/ j = Len(typed) + 1
    BY <1>5, <1>8
  <2>6. ASSUME NEW j \in 1 .. Len(typed)
        PROVE  /\ 2 * j - 1 > Left => kbd'[2 * j - 1 - Left] = Press(j)
               /\ 2 * j > Left => kbd'[2 * j - Left] = Release(j)
    <3>1. /\ 2 * j - 1 > Left => kbd[2 * j - 1 - Left] = Press(j)
          /\ 2 * j > Left => kbd[2 * j - Left] = Release(j)
      BY <1>1 DEF IInv, KeyStream
    <3>2. /\ 2 * j - 1 > Left => 2 * j - 1 - Left \in 1 .. Len(kbd)
          /\ 2 * j > Left => 2 * j - Left \in 1 .. Len(kbd)
      BY <1>5, <2>1
    <3>3. QED
      BY <1>6, <3>1, <3>2
  <2>7. LET j == Len(typed) + 1
        IN  /\ kbd'[2 * j - 1 - Left] = two[1] /\ kbd'[2 * j - Left] = two[2]
            /\ ~(2 * j - 1 = Left) /\ ~(2 * j = Left)
    <3>1. LET j == Len(typed) + 1
          IN  /\ 2 * j - 1 - Left = Len(kbd) + 1 /\ 2 * j - Left = Len(kbd) + 2
              /\ ~(2 * j - 1 = Left) /\ ~(2 * j = Left)
      BY <1>5, <2>1
    <3>2. QED
      BY <1>7, <3>1
  <2>8. ASSUME NEW j \in 1 .. Len(typed')
        PROVE  /\ 2 * j - 1 > Left => kbd'[2 * j - 1 - Left] = Press(j)'
               /\ 2 * j > Left => kbd'[2 * j - Left] = Release(j)'
               /\ obf.from = "kbd" => /\ 2 * j - 1 = Left => obf = Press(j)'
                                      /\ 2 * j = Left => obf = Release(j)'
    <3>1. CASE j \in 1 .. Len(typed)
      <4>1. obf.from = "kbd" => /\ 2 * j - 1 = Left => obf = Press(j)
                                /\ 2 * j = Left => obf = Release(j)
        BY <1>1, <3>1 DEF IInv, KeyStream
      <4>2. QED
        BY <2>3, <2>6, <3>1, <4>1
    <3>2. CASE j = Len(typed) + 1
      BY <2>4, <2>7, <3>2
    <3>3. QED
      BY <2>5, <3>1, <3>2
  <2>9. /\ Read = 2 * Len(got) \/ Read = 2 * Len(got) - 1
        /\ obf.from = "kbd" => Left >= 1
        /\ \A i \in 1 .. Len(got) : got[i] = typed[i]
    BY <1>1 DEF IInv, KeyStream
  <2>10. Len(got) <= Len(typed)
    <3>1. Read \in Int /\ Read <= 2 * Len(typed)
      BY <1>5, <2>1, <2>2 DEF Read
    <3>2. QED
      BY <1>5, <2>9, <3>1
  <2>11. \A i \in 1 .. Len(got) : got[i] = typed'[i]
    <3>1. \A i \in 1 .. Len(got) : i \in 1 .. Len(typed)
      BY <1>5, <2>10
    <3>2. QED
      BY <1>8, <2>9, <3>1
  <2>12. QED
    BY <1>1, <2>1, <2>2, <2>8, <2>9, <2>11 DEF KeyStream, driver
<1>13. PacketStream'
  <2>1. Begun' = Begun /\ aux' = aux /\ buffer' = buffer /\ offset' = offset /\ obf' = obf
    BY <1>1 DEF Begun, driver
  <2>2. QED
    BY <1>1, <2>1 DEF IInv, PacketStream
<1>14. QED
  BY <1>10, <1>11, <1>12, <1>13 DEF IInv

(***************************************************************************)
(* The byte after whole packets is the first of a packet.                  *)
(***************************************************************************)
LEMMA Thirds ==
  \A a \in Nat, n \in 1 .. 3 : a % 3 = 0 => (a + n - 1) % 3 = n - 1
<1>1. ASSUME NEW a \in Nat, a % 3 = 0
      PROVE  a % 3 = 0 /\ (a + 1) % 3 = 1 /\ (a + 2) % 3 = 2
  BY <1>1
<1>2. \A a \in Nat : a + 1 - 1 = a /\ a + 2 - 1 = a + 1 /\ a + 3 - 1 = a + 2
  OBVIOUS
<1>3. ASSUME NEW a \in Nat, NEW n \in 1 .. 3, a % 3 = 0
      PROVE  (a + n - 1) % 3 = n - 1
  <2>1. n = 1 \/ n = 2 \/ n = 3
    OBVIOUS
  <2>2. QED
    BY <1>1, <1>2, <1>3, <2>1
<1>4. QED
  BY <1>3

(***************************************************************************)
(* A movement is a header and two movements behind what waits.             *)
(***************************************************************************)
LEMMA MoveIInv ==
  ASSUME Quiet, IInv, NEW dx \in Deltas, NEW dy \in Deltas, Move(dx, dy)
  PROVE  IInv'
<1> DEFINE three == <<Byte("aux", "header", 8), Byte("aux", "dx", dx), Byte("aux", "dy", dy)>>
<1>1. /\ pc = "run" /\ pc' = "run" /\ aux' = aux \o three
      /\ UNCHANGED <<driver, obf, last, ccb, reply, kbd, owes, reporting, irq, typed>>
  BY DEF Move, Touched, driver
<1>2. three \in Seq(Bytes) /\ Len(three) = 3
  <2>1. dx \in 0 .. 255 /\ dy \in 0 .. 255 /\ 8 \in 0 .. 255
    BY PS2Assumption
  <2>2. /\ Byte("aux", "header", 8) \in Bytes /\ Byte("aux", "dx", dx) \in Bytes
        /\ Byte("aux", "dy", dy) \in Bytes
    BY <2>1, BytesSent
  <2>3. QED
    BY <2>2
<1>3. /\ \A i \in 1 .. 3 : three[i].from = "aux"
      /\ \A i \in 1 .. 3 : three[i].kind = Kind(i - 1)
  <2>1. /\ three[1].kind = "header" /\ three[2].kind = "dx" /\ three[3].kind = "dy"
        /\ three[1].from = "aux" /\ three[2].from = "aux" /\ three[3].from = "aux"
    BY DEF Byte
  <2>2. Kind(0) = "header" /\ Kind(1) = "dx" /\ Kind(2) = "dy"
    BY DEF Kind
  <2> HIDE DEF three
  <2>3. QED
    BY <2>1, <2>2
<1> HIDE DEF three
<1>4. aux \in Seq(Bytes) /\ Len(aux) \in Nat
  BY Counts DEF IInv, Queued
<1>5. /\ aux' \in Seq(Bytes) /\ Len(aux') = Len(aux) + 3
      /\ \A i \in 1 .. Len(aux) : aux'[i] = aux[i]
      /\ \A i \in 1 .. 3 : aux'[Len(aux) + i] = three[i]
  <2> DEFINE q == aux \o three
  <2>1. /\ q \in Seq(Bytes) /\ Len(q) = Len(aux) + Len(three)
        /\ \A i \in 1 .. Len(aux) : q[i] = aux[i]
        /\ \A i \in 1 .. Len(three) : q[Len(aux) + i] = three[i]
    <3>1. three \in Seq(Bytes)
      BY <1>2
    <3>2. QED
      BY <1>4, <3>1, Joined
  <2>2. aux' = q
    BY <1>1
  <2> HIDE DEF q
  <2>3. QED
    BY <1>2, <2>1, <2>2
<1>6. \A i \in 1 .. Len(aux') : i \in 1 .. Len(aux) \/ \E n \in 1 .. 3 : i = Len(aux) + n
  <2>1. ASSUME NEW i \in 1 .. Len(aux'), i \notin 1 .. Len(aux)
        PROVE  i - Len(aux) \in 1 .. 3 /\ i = Len(aux) + (i - Len(aux))
    BY <1>4, <1>5, <2>1
  <2>2. QED
    BY <2>1
<1>7. \A i \in 1 .. Len(aux') : aux'[i].from = "aux"
  <2>1. \A i \in 1 .. Len(aux) : aux[i].from = "aux"
    BY DEF IInv, Queued
  <2>2. QED
    BY <1>3, <1>5, <1>6, <2>1
<1>8. PTyped' /\ Running' /\ Booting'
  <2>1. PTyped'
    BY <1>1 DEF IInv, PTyped, driver
  <2>2. Running'
    BY <1>1 DEF IInv, Running, KbdOn, AuxOn
  <2>3. QED
    BY <1>1, <2>1, <2>2, RunStays
<1>9. Queued'
  BY <1>1, <1>5, <1>7 DEF IInv, Queued
<1>10. KeyStream'
  <2>1. /\ Left' = Left /\ Read' = Read /\ typed' = typed /\ got' = got /\ kbd' = kbd
        /\ obf' = obf
    BY <1>1 DEF Left, Read, driver
  <2>2. \A j : Press(j)' = Press(j) /\ Release(j)' = Release(j)
    BY <2>1 DEF Press, Release
  <2>3. QED
    BY <1>1, <2>1, <2>2 DEF IInv, KeyStream
<1>11. PacketStream'
  <2>1. Begun \in 0 .. 3 /\ Begun' = Begun
    BY <1>1 DEF IInv, PTyped, Begun, driver
  <2>2. /\ \A i \in 1 .. Len(aux) : aux[i].kind = Kind((Begun + i - 1) % 3)
        /\ (Begun + Len(aux)) % 3 = 0
    BY <1>1 DEF IInv, PacketStream
  <2>3. ASSUME NEW i \in 1 .. Len(aux')
        PROVE  aux'[i].kind = Kind((Begun + i - 1) % 3)
    <3>1. CASE i \in 1 .. Len(aux)
      BY <1>5, <2>2, <3>1
    <3>2. ASSUME NEW n \in 1 .. 3, i = Len(aux) + n
          PROVE  aux'[i].kind = Kind((Begun + i - 1) % 3)
      <4>1. (Begun + i - 1) % 3 = n - 1
        <5>1. Begun + Len(aux) \in Nat /\ Begun + i - 1 = (Begun + Len(aux)) + n - 1
          BY <1>4, <2>1, <3>2
        <5>2. QED
          BY <2>2, <3>2, <5>1, Thirds
      <4>2. aux'[i].kind = Kind(n - 1)
        BY <1>3, <1>5, <3>2
      <4>3. QED
        BY <4>1, <4>2
    <3>3. QED
      BY <1>6, <3>1, <3>2
  <2>4. (Begun + Len(aux')) % 3 = 0
    BY <1>4, <1>5, <2>1, <2>2
  <2>5. /\ obf'.from = "aux" => obf'.kind = Kind(offset)
        /\ \A j \in 0 .. 2 : j < offset => buffer'[j].kind = Kind(j)
    BY <1>1 DEF IInv, PacketStream, driver
  <2>6. offset' = offset /\ \A n : Kind(n)' = Kind(n)
    BY <1>1 DEF Kind, driver
  <2>7. QED
    BY <2>1, <2>3, <2>4, <2>5, <2>6 DEF PacketStream
<1>12. QED
  BY <1>8, <1>9, <1>10, <1>11 DEF IInv

-----------------------------------------------------------------------------
(* The handlers. *)

(***************************************************************************)
(* The pointer stays on the screen, wherever it is moved.                  *)
(***************************************************************************)
LEMMA OnScreen ==
  \A p, d \in Int : Moved(p, d, 80) \in 0 .. 79 /\ Moved(p, d, 25) \in 0 .. 24
BY DEF Moved, Clamp, Signed

(***************************************************************************)
(* A latched line is one the handlers serve after boot: right after it     *)
(* there is no byte behind the line, in operation there is one.            *)
(***************************************************************************)
LEMMA Served ==
  ASSUME IInv, KeyboardInterrupt \/ MouseInterrupt
  PROVE  /\ pc \in {"enabled", "run"} /\ pc' = pc
         /\ KeyboardInterrupt /\ pc = "run" => irq = {1} /\ obf.from = "kbd"
         /\ MouseInterrupt /\ pc = "run" => irq = {12} /\ obf.from = "aux"
<1>1. /\ pc \in {"enabled", "run"} /\ pc' = pc
      /\ KeyboardInterrupt => 1 \in irq
      /\ MouseInterrupt => 12 \in irq
  BY DEF KeyboardInterrupt, MouseInterrupt, Serve
<1>2. pc = "run" => \/ obf = Empty /\ irq = {}
                    \/ obf.from = "kbd" /\ irq = {1}
                    \/ obf.from = "aux" /\ irq = {12}
  BY DEF IInv, Running
<1>3. QED
  BY <1>1, <1>2

(***************************************************************************)
(* The keyboard handler that serves a line latched at boot reads the last  *)
(* byte again, which is no key.                                            *)
(***************************************************************************)
LEMMA KeyboardInterruptBootIInv ==
  ASSUME IInv, KeyboardInterrupt, pc = "enabled"
  PROVE  IInv'
<1>1. /\ KbdOn /\ AuxOn /\ Silent /\ last = Ack
      /\ offset = 0 /\ typed = <<>> /\ got = <<>>
  BY DEF IInv, Booting
<1>2. /\ irq' = irq \ {1} /\ obf' = Empty /\ last' = Data
      /\ got' = IF IsKey(Data) THEN Append(got, Data) ELSE got
      /\ UNCHANGED <<pc, buffer, offset, px, py, ccb, reply, kbd, aux, owes, reporting, typed, moves>>
  BY DEF KeyboardInterrupt, Serve, ReadData
<1>3. obf = Empty /\ Data = Ack
  BY <1>1 DEF Silent, Data
<1>4. ~IsKey(Data)
  BY <1>3 DEF IsKey, Ack
<1>5. got' = got /\ obf' = obf /\ last' = last
  BY <1>1, <1>2, <1>3, <1>4
<1>6. PTyped'
  BY <1>2, <1>5 DEF IInv, PTyped
<1>7. Queued'
  BY <1>2, <1>5 DEF IInv, Queued
<1>8. Booting'
  BY <1>1, <1>2, <1>5, pc = "enabled" DEF Booting, KbdOn, AuxOn, Silent
<1>9. (Running /\ KeyStream /\ PacketStream)'
  BY <1>2 DEF Running, KeyStream, PacketStream
<1>10. QED
  BY <1>6, <1>7, <1>8, <1>9 DEF IInv

(***************************************************************************)
(* The mouse handler that serves a line latched at boot sees no byte of    *)
(* the mouse.                                                              *)
(***************************************************************************)
LEMMA MouseInterruptBootIInv ==
  ASSUME IInv, MouseInterrupt, pc = "enabled"
  PROVE  IInv'
<1>1. /\ KbdOn /\ AuxOn /\ Silent /\ last = Ack
      /\ offset = 0 /\ typed = <<>> /\ got = <<>>
  BY DEF IInv, Booting
<1>2. ~FromMouse
  BY <1>1 DEF Silent, FromMouse, Empty, Byte
<1>3. /\ irq' = irq \ {12}
      /\ UNCHANGED <<obf, last, buffer, offset, px, py>>
      /\ UNCHANGED <<pc, got, ccb, reply, kbd, aux, owes, reporting, typed, moves>>
  BY <1>2 DEF MouseInterrupt, Serve
<1>4. PTyped'
  BY <1>3 DEF IInv, PTyped
<1>5. Queued'
  BY <1>3 DEF IInv, Queued
<1>6. Booting'
  BY <1>1, <1>3, pc = "enabled" DEF Booting, KbdOn, AuxOn, Silent
<1>7. (Running /\ KeyStream /\ PacketStream)'
  BY <1>3 DEF Running, KeyStream, PacketStream
<1>8. QED
  BY <1>4, <1>5, <1>6, <1>7 DEF IInv

(***************************************************************************)
(* In operation the keyboard handler gets the next scancode: a press is    *)
(* the key the shell waits for, a release is no key.                       *)
(***************************************************************************)
LEMMA KeyboardInterruptRunIInv ==
  ASSUME IInv, KeyboardInterrupt, pc = "run"
  PROVE  IInv'
<1>0. KeyStream /\ pc = "run"
  BY DEF IInv
<1>1. irq = {1} /\ obf.from = "kbd" /\ pc' = "run"
  BY Served
<1>2. /\ irq' = irq \ {1} /\ obf' = Empty /\ last' = Data
      /\ got' = IF IsKey(Data) THEN Append(got, Data) ELSE got
      /\ UNCHANGED <<pc, buffer, offset, px, py, ccb, reply, kbd, aux, owes, reporting, typed, moves>>
  BY DEF KeyboardInterrupt, Serve, ReadData
<1>3. Data = obf.b /\ obf'.from = "none" /\ irq' = {}
  BY <1>1, <1>2, BytesSent DEF Data
<1>4. /\ got \in Seq(Keys) /\ typed \in Seq(Keys)
      /\ Len(got) \in Nat /\ Len(typed) \in Nat /\ Len(kbd) \in Nat
  BY Counts DEF IInv, PTyped
<1>5. /\ Left >= 1
      /\ Left - 1 = 2 * Len(got) \/ Left - 1 = 2 * Len(got) - 1
      /\ Left = 2 * Len(typed) - Len(kbd) /\ Left \in Int
  <2>1. Left >= 1 /\ (Read = 2 * Len(got) \/ Read = 2 * Len(got) - 1)
    BY <1>0, <1>1 DEF KeyStream
  <2>2. Read = Left - 1
    BY <1>1 DEF Read
  <2>3. Left = 2 * Len(typed) - Len(kbd) /\ Left \in Int
    BY <1>4 DEF Left
  <2>4. QED
    BY <2>1, <2>2, <2>3
<1>6. \A j \in 1 .. Len(typed) : /\ 2 * j - 1 = Left => obf = Press(j)
                                 /\ 2 * j = Left => obf = Release(j)
  BY <1>0, <1>1 DEF KeyStream
<1>7. \A j \in 1 .. Len(typed) : typed[j] \in Keys /\ typed[j] \in 1 .. 127
  <2>1. \A j \in 1 .. Len(typed) : typed[j] \in Keys
    BY <1>4
  <2>2. Keys \subseteq 1 .. 127
    BY PS2Assumption
  <2>3. QED
    BY <2>1, <2>2, Zenon
<1>8. \A i \in 1 .. Len(got) : got[i] = typed[i]
  BY <1>0 DEF KeyStream
<1>9. /\ got' \in Seq(Keys)
      /\ Left = 2 * Len(got') \/ Left = 2 * Len(got') - 1
      /\ \A i \in 1 .. Len(got') : got'[i] = typed[i]
  <2>1. CASE Left - 1 = 2 * Len(got)
    <3> DEFINE j == Len(got) + 1
    <3>1. j \in 1 .. Len(typed) /\ 2 * j - 1 = Left
      BY <1>4, <1>5, <2>1
    <3> HIDE DEF j
    <3>2. obf.b = typed[j]
      BY <1>6, <3>1 DEF Press, Byte
    <3>3. Data = typed[j] /\ IsKey(Data)
      <4>1. Data = typed[j] /\ typed[j] \in 1 .. 127 /\ typed[j] \in Keys
        BY <1>3, <1>7, <3>1, <3>2
      <4>2. Data < 128 /\ Data \in Keys
        BY <4>1
      <4>3. QED
        BY <4>1, <4>2 DEF IsKey
    <3>4. got' = Append(got, typed[j]) /\ typed[j] \in Keys
      BY <1>2, <1>7, <3>1, <3>3
    <3>5. /\ got' \in Seq(Keys) /\ Len(got') = Len(got) + 1
          /\ \A i \in 1 .. Len(got) : got'[i] = got[i]
          /\ got'[Len(got) + 1] = typed[j]
      BY <1>4, <3>4, AppendProperties
    <3>6. Left = 2 * Len(got') - 1
      <4>1. Len(got') = Len(got) + 1 /\ Left = 2 * Len(got) + 1 /\ Len(got) \in Nat
        BY <1>4, <1>5, <2>1, <3>5
      <4>2. QED
        BY <4>1
    <3>7. \A i \in 1 .. Len(got') : i \in 1 .. Len(got) \/ i = j
      BY <1>4, <3>5 DEF j
    <3>8. \A i \in 1 .. Len(got') : got'[i] = typed[i]
      BY <1>8, <3>5, <3>7 DEF j
    <3>9. QED
      BY <3>5, <3>6, <3>8
  <2>2. CASE Left - 1 = 2 * Len(got) - 1
    <3> DEFINE j == Len(got)
    <3>1. j \in 1 .. Len(typed) /\ 2 * j = Left
      BY <1>4, <1>5, <2>2
    <3> HIDE DEF j
    <3>2. obf.b = typed[j] + 128
      BY <1>6, <3>1 DEF Release, Byte
    <3>3. ~IsKey(Data)
      <4>1. Data = typed[j] + 128 /\ typed[j] \in 1 .. 127
        BY <1>3, <1>7, <3>1, <3>2
      <4>2. ~(Data < 128)
        BY <4>1
      <4>3. QED
        BY <4>2 DEF IsKey
    <3>4. got' = got
      BY <1>2, <3>3
    <3>5. QED
      BY <1>4, <1>8, <3>1, <3>4 DEF j
  <2>3. QED
    BY <1>5, <2>1, <2>2
<1>10. PTyped' /\ Running' /\ Booting'
  <2>1. PTyped'
    BY <1>2, <1>9 DEF IInv, PTyped
  <2>2. Running'
    BY <1>2, <1>3 DEF IInv, Running, KbdOn, AuxOn
  <2>3. QED
    BY <1>1, <2>1, <2>2, RunStays
<1>11. Queued'
  <2>1. obf' \in Bytes /\ last' \in 0 .. 255
    BY <1>2, BytesSent, DataIsByte DEF IInv
  <2>2. QED
    BY <1>2, <1>3, <2>1 DEF IInv, Queued
<1>12. KeyStream'
  <2>1. Left' = Left /\ Read' = Left
    BY <1>2, <1>3 DEF Left, Read
  <2>2. \A j : Press(j)' = Press(j) /\ Release(j)' = Release(j)
    BY <1>2 DEF Press, Release
  <2>3. Left >= 0
    BY <1>5
  <2>4. \A j \in 1 .. Len(typed) : /\ 2 * j - 1 > Left => kbd[2 * j - 1 - Left] = Press(j)
                                   /\ 2 * j > Left => kbd[2 * j - Left] = Release(j)
    BY pc = "run" DEF IInv, KeyStream
  <2>5. QED
    BY <1>2, <1>3, <1>9, <2>1, <2>2, <2>3, <2>4 DEF KeyStream
<1>13. PacketStream'
  <2>1. Begun' = Begun /\ aux' = aux /\ buffer' = buffer /\ offset' = offset
    BY <1>1, <1>2, <1>3 DEF Begun
  <2>2. obf'.from # "aux"
    BY <1>3
  <2>3. QED
    BY <2>1, <2>2, pc = "run" DEF IInv, PacketStream
<1>14. QED
  BY <1>10, <1>11, <1>12, <1>13 DEF IInv

(***************************************************************************)
(* In operation the mouse handler gets the next byte of the packet.        *)
(***************************************************************************)
LEMMA MouseInterruptRunIInv ==
  ASSUME IInv, MouseInterrupt, pc = "run"
  PROVE  IInv'
<1>1. irq = {12} /\ obf.from = "aux" /\ pc' = "run"
  BY Served
<1>2. FromMouse
  BY <1>1 DEF FromMouse
<1>3. /\ irq' = irq \ {12} /\ obf' = Empty /\ last' = Data
      /\ buffer' = [buffer EXCEPT ![offset] = [obf EXCEPT !.b = Data]]
      /\ offset' = (offset + 1) % 3
      /\ IF offset' = 0 /\ (buffer'[1].b # 0 \/ buffer'[2].b # 0)
         THEN px' = Moved(px, Signed(buffer'[1].b), 80) /\ py' = Moved(py, - Signed(buffer'[2].b), 25)
         ELSE UNCHANGED <<px, py>>
      /\ UNCHANGED <<pc, got, ccb, reply, kbd, aux, owes, reporting, typed, moves>>
  BY <1>2 DEF MouseInterrupt, Serve, ReadData
<1>4. obf'.from = "none" /\ irq' = {} /\ Data \in 0 .. 255
  BY <1>1, <1>3, BytesSent, DataIsByte DEF IInv
<1>5. offset \in 0 .. 2 /\ buffer \in [0 .. 2 -> Bytes] /\ obf \in Bytes
  BY DEF IInv, PTyped, Queued
<1>6. /\ buffer' \in [0 .. 2 -> Bytes] /\ buffer'[offset].kind = obf.kind
      /\ \A j \in 0 .. 2 : j # offset => buffer'[j] = buffer[j]
  <2> DEFINE read == [obf EXCEPT !.b = Data]
  <2>1. read \in Bytes /\ read.kind = obf.kind
    BY <1>4, <1>5 DEF Bytes
  <2>2. buffer' = [buffer EXCEPT ![offset] = read]
    BY <1>3
  <2> HIDE DEF read
  <2>3. QED
    BY <1>5, <2>1, <2>2
<1>7. offset' \in 0 .. 2 /\ (offset = 2 => offset' = 0) /\ (offset < 2 => offset' = offset + 1)
  BY <1>3, <1>5
<1>8. px' \in 0 .. 79 /\ py' \in 0 .. 24
  <2>1. buffer'[1].b \in 0 .. 255 /\ buffer'[2].b \in 0 .. 255
    <3>1. buffer'[1] \in Bytes /\ buffer'[2] \in Bytes
      BY <1>6
    <3>2. QED
      BY <3>1 DEF Bytes
  <2>2. px \in 0 .. 79 /\ py \in 0 .. 24
    BY DEF IInv, PTyped
  <2>3. Signed(buffer'[1].b) \in Int /\ - Signed(buffer'[2].b) \in Int
    BY <2>1, SMTT(30) DEF Signed
  <2>4. Moved(px, Signed(buffer'[1].b), 80) \in 0 .. 79
    <3>1. px \in Int
      BY <2>2
    <3>2. QED
      BY <2>3, <3>1, OnScreen
  <2>5. Moved(py, - Signed(buffer'[2].b), 25) \in 0 .. 24
    <3>1. py \in Int
      BY <2>2
    <3>2. QED
      BY <2>3, <3>1, OnScreen
  <2>6. QED
    BY <1>3, <2>2, <2>4, <2>5
<1>9. PTyped' /\ Running' /\ Booting'
  <2>1. PTyped'
    BY <1>3, <1>6, <1>7, <1>8 DEF IInv, PTyped
  <2>2. Running'
    BY <1>3, <1>4 DEF IInv, Running, KbdOn, AuxOn
  <2>3. QED
    BY <1>1, <2>1, <2>2, RunStays
<1>10. Queued'
  <2>1. obf' \in Bytes
    BY <1>3, BytesSent
  <2>2. QED
    BY <1>3, <1>4, <2>1 DEF IInv, Queued
<1>11. KeyStream'
  <2>1. /\ Left' = Left /\ Read' = Read /\ typed' = typed /\ got' = got /\ kbd' = kbd
    BY <1>1, <1>3, <1>4 DEF Left, Read
  <2>2. \A j : Press(j)' = Press(j) /\ Release(j)' = Release(j)
    BY <2>1 DEF Press, Release
  <2>3. obf'.from # "kbd"
    BY <1>4
  <2>4. QED
    BY <2>1, <2>2, <2>3, pc = "run" DEF IInv, KeyStream
<1>12. PacketStream'
  <2>1. Begun = offset + 1 /\ Begun' = offset' /\ aux' = aux
    BY <1>1, <1>3, <1>4 DEF Begun
  <2>2. /\ \A i \in 1 .. Len(aux) : aux[i].kind = Kind((Begun + i - 1) % 3)
        /\ (Begun + Len(aux)) % 3 = 0
        /\ obf.kind = Kind(offset)
        /\ \A j \in 0 .. 2 : j < offset => buffer[j].kind = Kind(j)
    BY <1>1, pc = "run" DEF IInv, PacketStream
  <2>3. ASSUME NEW n \in Nat
        PROVE  (Begun' + n) % 3 = (Begun + n) % 3
    BY <1>5, <1>7, <2>1
  <2>4. Len(aux) \in Nat
    BY Counts DEF IInv
  <2>5. ASSUME NEW i \in 1 .. Len(aux)
        PROVE  aux[i].kind = Kind((Begun' + i - 1) % 3)
    <3>1. /\ i - 1 \in Nat /\ Begun' + i - 1 = Begun' + (i - 1)
          /\ Begun + i - 1 = Begun + (i - 1)
      BY <1>5, <1>7, <2>1, <2>4
    <3>2. QED
      BY <2>2, <2>3, <3>1
  <2>6. (Begun' + Len(aux)) % 3 = 0
    BY <2>2, <2>3, <2>4
  <2>7. ASSUME NEW j \in 0 .. 2, j < offset'
        PROVE  buffer'[j].kind = Kind(j)
    <3>1. j = offset \/ (j < offset /\ j # offset)
      BY <1>5, <1>7, <2>7
    <3>2. QED
      BY <1>6, <2>2, <3>1
  <2>8. \A n : Kind(n)' = Kind(n)
    BY DEF Kind
  <2>9. QED
    BY <1>4, <2>1, <2>5, <2>6, <2>7, <2>8 DEF PacketStream
<1>13. QED
  BY <1>9, <1>10, <1>11, <1>12 DEF IInv

-----------------------------------------------------------------------------
(* The theorems. *)

(***************************************************************************)
(* No step of the boot, of the controller, of the devices or of a handler  *)
(* leaves the invariant, when nobody touches the devices during the boot.  *)
(***************************************************************************)
LEMMA StepIInv ==
  ASSUME Quiet, IInv, [Next]_vars
  PROVE  IInv'
<1>1. CASE Boot
  BY <1>1, KeyboardFlushIInv, KeyboardCommandIInv, KeyboardConfigureIInv, MouseFlushIInv,
     MouseCommandIInv, MouseConfigureIInv, MouseAcknowledgeIInv, EnabledIInv DEF Boot
<1>2. CASE LoadReply
  BY <1>2, LoadReplyIInv
<1>3. CASE LoadKeyboard
  BY <1>3, LoadDeviceBootIInv, LoadKeyboardRunIInv
<1>4. CASE LoadMouse
  BY <1>4, LoadDeviceBootIInv, LoadMouseRunIInv
<1>5. CASE Acknowledges
  BY <1>5, AcknowledgesIInv
<1>6. ASSUME NEW k \in Keys, Type(k)
      PROVE  IInv'
  BY <1>6, TypeIInv
<1>7. ASSUME NEW dx \in Deltas, NEW dy \in Deltas, Move(dx, dy)
      PROVE  IInv'
  BY <1>7, MoveIInv
<1>8. CASE KeyboardInterrupt
  BY <1>8, Served, KeyboardInterruptBootIInv, KeyboardInterruptRunIInv
<1>9. CASE MouseInterrupt
  BY <1>9, Served, MouseInterruptBootIInv, MouseInterruptRunIInv
<1>10. CASE UNCHANGED vars
  <2>1. /\ UNCHANGED <<pc, got, buffer, offset, px, py, typed>>
        /\ UNCHANGED <<obf, last, ccb, reply, kbd, aux, owes, irq>>
    BY <1>10 DEF vars, driver, controller
  <2>2. PTyped' /\ Queued'
    BY <2>1 DEF IInv, PTyped, Queued
  <2>3. Booting'
    BY <2>1 DEF IInv, Booting, Silent, Answering, KbdAnswers, AuxAnswers, KbdOn, AuxOn
  <2>4. Running'
    BY <2>1 DEF IInv, Running, KbdOn, AuxOn
  <2>5. /\ Left' = Left /\ Read' = Read
        /\ \A j : Press(j)' = Press(j) /\ Release(j)' = Release(j)
    BY <2>1 DEF Left, Read, Press, Release
  <2>6. KeyStream'
    BY <2>1, <2>5 DEF IInv, KeyStream
  <2>7. Begun' = Begun /\ \A n : Kind(n)' = Kind(n)
    BY <2>1 DEF Begun, Kind
  <2>8. PacketStream'
    BY <2>1, <2>7 DEF IInv, PacketStream
  <2>9. QED
    BY <2>2, <2>3, <2>4, <2>6, <2>8 DEF IInv
<1>11. QED
  BY <1>1, <1>2, <1>3, <1>4, <1>5, <1>6, <1>7, <1>8, <1>9, <1>10 DEF Next, Loads, Handlers

(***************************************************************************)
(* The invariant holds in every state after a quiet boot and during it.    *)
(***************************************************************************)
THEOREM InvariantHolds == Quiet => (Spec => []IInv)
<1>1. SUFFICES ASSUME Quiet
               PROVE  Spec => []IInv
  OBVIOUS
<1>2. Init => IInv
  BY InitIInv
<1>3. IInv /\ [Next]_vars => IInv'
  BY <1>1, StepIInv
<1>4. QED
  BY <1>2, <1>3, PTL DEF Spec

(***************************************************************************)
(* The variables have their types, the pointer is on the screen and the    *)
(* controller owes no more than one command byte.                          *)
(***************************************************************************)
THEOREM PS2Types == Quiet => (Spec => []TypeOK)
<1>1. IInv => TypeOK
  <2>1. ASSUME IInv
        PROVE  Len(reply) <= 1
    <3>1. reply = <<>> \/ reply = <<ccb>>
      BY <2>1 DEF IInv, PTyped, Stages, Booting, Running, Silent, Answering,
                  KbdAnswers, AuxAnswers
    <3>2. Len(<<>>) <= 1 /\ Len(<<ccb>>) <= 1
      OBVIOUS
    <3>3. QED
      BY <3>1, <3>2
  <2>2. QED
    BY <2>1 DEF IInv, PTyped, Queued, TypeOK
<1>2. QED
  BY <1>1, InvariantHolds, PTL

(***************************************************************************)
(* Whatever command byte the firmware left, after the boot both devices    *)
(* are connected and raise their lines (keyboard.cpp and mouse.cpp each    *)
(* change only their own bits of the byte they read back).                 *)
(***************************************************************************)
THEOREM BothConnected == Quiet => (Spec => []PortsOn)
<1>1. IInv => PortsOn
  BY DEF IInv, Booting, Running, KbdOn, AuxOn, PortsOn, Awake
<1>2. QED
  BY <1>1, InvariantHolds, PTL

(***************************************************************************)
(* The keyboard handler, which reads the data port without a look at the   *)
(* status, never takes a byte of the mouse.                                *)
(***************************************************************************)
THEOREM OwnBytes == Quiet => (Spec => BytesToOwner)
<1>1. IInv /\ [Next]_vars => [KeyboardInterrupt => obf.from # "aux"]_vars
  <2>1. ASSUME IInv, KeyboardInterrupt
        PROVE  obf.from # "aux"
    <3>1. CASE pc = "run"
      BY <2>1, <3>1, Served
    <3>2. CASE pc = "enabled"
      <4>1. obf = Empty
        BY <2>1, <3>2 DEF IInv, Booting, Silent
      <4>2. QED
        BY <4>1 DEF Empty, Byte
    <3>3. QED
      BY <2>1, <3>1, <3>2, Served
  <2>2. QED
    BY <2>1
<1>2. QED
  BY <1>1, InvariantHolds, PTL DEF Spec, BytesToOwner

(***************************************************************************)
(* The shell has got the keys typed, each once and in order.               *)
(***************************************************************************)
THEOREM KeysArriveInOrder == Quiet => (Spec => []KeysInOrder)
<1>1. ASSUME IInv
      PROVE  KeysInOrder
  <2>1. /\ got \in Seq(Keys) /\ typed \in Seq(Keys)
        /\ Len(got) \in Nat /\ Len(typed) \in Nat /\ Len(kbd) \in Nat
    BY <1>1, Counts DEF IInv, PTyped
  <2>2. Len(got) <= Len(typed) /\ \A i \in 1 .. Len(got) : got[i] = typed[i]
    <3>1. CASE pc # "run"
      <4>1. got = <<>> /\ typed = <<>>
        BY <1>1, <3>1 DEF IInv, Booting
      <4>2. QED
        BY <4>1
    <3>2. CASE pc = "run"
      <4>1. /\ Read = 2 * Len(got) \/ Read = 2 * Len(got) - 1
            /\ \A i \in 1 .. Len(got) : got[i] = typed[i]
        BY <1>1, <3>2 DEF IInv, KeyStream
      <4>2. Read <= 2 * Len(typed) /\ Read \in Int
        BY <2>1 DEF Read, Left
      <4>3. QED
        BY <2>1, <4>1, <4>2
    <3>3. QED
      BY <3>1, <3>2
  <2>3. /\ SubSeq(typed, 1, Len(got)) \in Seq(Keys)
        /\ Len(SubSeq(typed, 1, Len(got))) = Len(got)
        /\ \A i \in 1 .. Len(got) : SubSeq(typed, 1, Len(got))[i] = typed[i]
    BY <2>1, <2>2
  <2>4. got = SubSeq(typed, 1, Len(got))
    BY <2>1, <2>2, <2>3, SeqEqual
  <2>5. QED
    BY <2>2, <2>4 DEF KeysInOrder
<1>2. QED
  BY <1>1, InvariantHolds, PTL

(***************************************************************************)
(* Every packet the mouse driver acts on is a header and two movements.    *)
(***************************************************************************)
THEOREM PacketsWhole == Quiet => (Spec => PacketsAligned)
<1>1. IInv /\ IInv' /\ [Next]_vars =>
        [MouseInterrupt /\ offset = 2 /\ offset' = 0 =>
           <<buffer'[0].kind, buffer'[1].kind, buffer'[2].kind>> = <<"header", "dx", "dy">>]_vars
  <2>1. ASSUME IInv, MouseInterrupt, offset = 2
        PROVE  <<buffer'[0].kind, buffer'[1].kind, buffer'[2].kind>> = <<"header", "dx", "dy">>
    <3>1. pc = "run"
      <4>1. pc # "run" => offset = 0
        BY <2>1 DEF IInv, Booting
      <4>2. QED
        BY <2>1, <4>1
    <3>2. obf.from = "aux"
      BY <2>1, <3>1, Served
    <3>3. /\ obf.kind = Kind(2)
          /\ buffer[0].kind = Kind(0) /\ buffer[1].kind = Kind(1)
      BY <2>1, <3>1, <3>2 DEF IInv, PacketStream
    <3>4. buffer' = [buffer EXCEPT ![2] = [obf EXCEPT !.b = Data]]
      BY <2>1, <3>2 DEF MouseInterrupt, FromMouse
    <3>5. buffer \in [0 .. 2 -> Bytes] /\ obf \in Bytes
      BY <2>1 DEF IInv, PTyped, Queued
    <3>6. [obf EXCEPT !.b = Data].kind = obf.kind
      BY <3>5 DEF Bytes
    <3>7. buffer'[0] = buffer[0] /\ buffer'[1] = buffer[1] /\ buffer'[2].kind = obf.kind
      <4> DEFINE read == [obf EXCEPT !.b = Data]
      <4>1. read.kind = obf.kind /\ buffer' = [buffer EXCEPT ![2] = read]
        BY <3>4, <3>6
      <4> HIDE DEF read
      <4>2. QED
        BY <3>5, <4>1
    <3>8. QED
      BY <3>3, <3>7 DEF Kind
  <2>2. QED
    BY <2>1
<1>2. QED
  BY <1>1, InvariantHolds, PTL DEF Spec, PacketsAligned

=============================================================================
