------------------------------ MODULE ATAProofs ------------------------------
(***************************************************************************)
(* Every transfer of the driver belongs to the command its call sent, for  *)
(* every set of sectors and values and every timeout, as long as no call   *)
(* gave up on a command that still runs; and a failed command is not       *)
(* forgotten by reads and writes.                                          *)
(***************************************************************************)
EXTENDS ATA, TLAPS

-----------------------------------------------------------------------------
(* The type invariant, of the driver, of the drive and of what it holds. *)

DriverTypes ==
  /\ pc \in Loops \cup {"idle", "command", "flush"}
  /\ op \in {"read", "write", "identify"} /\ lba \in Sectors
  /\ data \in Values \cup {NoData}
  /\ result \in {"none", "done", "gave up"} /\ late \in BOOLEAN

DriveTypes ==
  /\ dev \in {"ready", "busy", "drq"} /\ err \in BOOLEAN /\ at \in Sectors
  /\ dev = "ready" <=> cmd = "none"
  /\ held # NoData => dev = "busy" /\ cmd = "write"

SectorTypes ==
  /\ cache \in [Sectors -> Values \cup {NoData}]
  /\ media \in [Sectors -> Values \cup {NoData}]

(***************************************************************************)
(* Every loop starts with a timeout in range.                              *)
(***************************************************************************)
LEMMA GotoPolls ==
  ASSUME NEW p, Goto(p)
  PROVE  polls' \in 0 .. Polls
BY ATAAssumption DEF Goto

(***************************************************************************)
(* The three parts and the timeout's range are the type invariant.         *)
(***************************************************************************)
LEMMA TypesOK ==
  TypeOK <=> DriverTypes /\ polls \in 0 .. Polls /\ DriveTypes /\ SectorTypes
BY DEF TypeOK, DriverTypes, DriveTypes, SectorTypes

-----------------------------------------------------------------------------
(* The inductive invariant. *)

\* Work a call may leave behind without having given up: nobody looks at what
\* WaitReady says of the flush, so it, or the write it should follow, may run.
Leftover == dev = "busy" /\ (cmd = "flush" \/ (cmd = "write" /\ held # NoData))

\* The command of this call, not yet given its data.
Own == cmd = op /\ (op # "identify" => at = lba) /\ held = NoData

\* The status read last is out of date in one way only: the drive may have
\* stopped being busy since.
SeenHolds ==
  seen # Unread =>
    /\ seen.bsy \/ dev # "busy"
    /\ seen.drq => dev = "drq"
    /\ seen.bsy \/ seen.err \/ ~err

\* A read or write that is about to be sent goes to a drive without an error.
SentClean == pc = "command" /\ op # "identify" => ~err /\ dev # "busy"

\* What the drive may be doing, by the place of the driver, unless a call gave
\* up on it.
Working ==
  CASE pc = "command" /\ op # "identify" -> dev = "ready"
    [] pc \in {"accepted", "drq"} ->
         dev = "ready" \/ Own \/ (op = "identify" /\ Leftover)
    [] OTHER -> dev = "ready" \/ Leftover

\* A write has data to write, the drive holds nothing else, and it is a write
\* that is flushed.
HasData ==
  /\ pc \in {"flush", "flushing"} => op = "write"
  /\ op = "write" /\ pc # "idle" => data \in Values
  /\ held \in Values \cup {NoData}

\* A read that returned left the drive at rest, and its sector with the caller.
HasRead ==
  pc = "idle" /\ op = "read" /\ result = "done" /\ ~late
    => dev = "ready" /\ data = cache[lba]

IInv ==
  /\ TypeOK
  /\ SeenHolds
  /\ SentClean
  /\ HasData
  /\ ~late => Working
  /\ HasRead

-----------------------------------------------------------------------------
(***************************************************************************)
(* A loop that ends before its timeout has seen what it waited for, and    *)
(* the drive has not moved on since: from there only the driver moves it.  *)
(***************************************************************************)
LEMMA LastPoll ==
  ASSUME TypeOK, SeenHolds, LoopEnds, polls # 0
  PROVE  /\ pc \in WaitReadyLoops => dev # "busy" /\ (seen.err \/ ~err)
         /\ pc = "drq" => dev = "drq"
<1>1. polls \in 0 .. Polls
  BY DEF TypeOK
<1>2. polls > 0
  BY <1>1, ATAAssumption
<1>3. ~Again /\ seen # Unread
  BY <1>2 DEF LoopEnds
<1>4. QED
  BY <1>3 DEF Again, SeenHolds, WaitReadyLoops

(***************************************************************************)
(* The driver starts idle, with the drive at rest.                         *)
(***************************************************************************)
LEMMA InitIInv ==
  ASSUME Init
  PROVE  IInv
<1>1. TypeOK
  <2>1. DriverTypes
    BY DEF DriverTypes, Loops, WaitReadyLoops, Init
  <2>2. (polls \in 0 .. Polls)
    BY ATAAssumption DEF Loops, WaitReadyLoops, Init
  <2>3. DriveTypes
    BY DEF DriveTypes, Loops, WaitReadyLoops, Init
  <2>4. SectorTypes
    BY DEF SectorTypes, Init
  <2>5. QED
    BY <2>1, <2>2, <2>3, <2>4, TypesOK
<1>2. SeenHolds
  BY DEF SeenHolds, Init
<1>3. SentClean
  BY DEF SentClean, Init
<1>4. HasData
  BY DEF HasData, Init
<1>5. (~late => Working)
  BY DEF Working, Own, Leftover, Init
<1>6. HasRead
  BY DEF HasRead, Init
<1>7. QED
  BY <1>1, <1>2, <1>3, <1>4, <1>5, <1>6 DEF IInv

(***************************************************************************)
(* A call starts with a fresh timeout; the drive may still flush.          *)
(***************************************************************************)
LEMMA CallIInv ==
  ASSUME IInv, NEW o \in {"read", "write", "identify"}, NEW s \in Sectors,
         NEW v \in Values \cup {NoData}, NEW first \in {"ready", "command"},
         Call(o, s, v, first), o = "write" => v \in Values,
         first = "command" <=> o = "identify"
  PROVE  IInv'
<1> USE DEF IInv
<1>1. TypeOK'
  <2>1. DriverTypes'
    BY DEF DriverTypes, TypeOK, Loops, WaitReadyLoops, Call, Goto, drive
  <2>2. (polls \in 0 .. Polls)'
    BY GotoPolls DEF Call
  <2>3. DriveTypes'
    BY DEF DriveTypes, TypeOK, HasData, Loops, WaitReadyLoops, Call, Goto, drive
  <2>4. SectorTypes'
    BY DEF SectorTypes, TypeOK, Call, Goto, drive
  <2>5. QED
    BY <2>1, <2>2, <2>3, <2>4, TypesOK, PTL
<1>2. SeenHolds'
  BY DEF SeenHolds, TypeOK, Call, Goto, drive
<1>3. SentClean'
  BY DEF SentClean, TypeOK, SeenHolds, Call, Goto, drive
<1>4. HasData'
  BY DEF HasData, TypeOK, Call, Goto, drive
<1>5. (~late => Working)'
  BY DEF Working, Own, Leftover, TypeOK, SeenHolds, SentClean, HasData, Call,
     Goto, drive
<1>6. HasRead'
  BY DEF HasRead, TypeOK, SeenHolds, Working, Own, Leftover, Call, Goto, drive
<1>7. QED
  BY <1>1, <1>2, <1>3, <1>4, <1>5, <1>6

(***************************************************************************)
(* A poll reads the status as it is.                                       *)
(***************************************************************************)
LEMMA PollIInv ==
  ASSUME IInv, Poll
  PROVE  IInv'
<1> USE DEF IInv
<1>1. TypeOK'
  <2>1. DriverTypes'
    BY DEF DriverTypes, TypeOK, Loops, WaitReadyLoops, Poll, Again, Status,
       drive
  <2>2. polls \in 0 .. Polls
    BY DEF TypeOK
  <2>3. (polls \in 0 .. Polls)'
    BY <2>2, ATAAssumption DEF Poll
  <2>4. DriveTypes'
    BY DEF DriveTypes, TypeOK, HasData, Loops, WaitReadyLoops, Poll, Again,
       Status, drive
  <2>5. SectorTypes'
    BY DEF SectorTypes, TypeOK, Poll, Again, Status, drive
  <2>6. QED
    BY <2>1, <2>4, <2>5, <2>3, TypesOK, PTL
<1>2. SeenHolds'
  BY DEF SeenHolds, TypeOK, Poll, Loops, WaitReadyLoops, Again, Status, drive
<1>3. SentClean'
  BY DEF SentClean, TypeOK, SeenHolds, Poll, Loops, WaitReadyLoops, Again,
     Status, drive
<1>4. HasData'
  BY DEF HasData, TypeOK, Poll, Loops, WaitReadyLoops, Again, Status, drive
<1>5. (~late => Working)'
  BY DEF Working, Own, Leftover, TypeOK, SeenHolds, SentClean, HasData, Poll,
     Loops, WaitReadyLoops, Again, Status, drive
<1>6. HasRead'
  BY DEF HasRead, TypeOK, SeenHolds, Working, Own, Leftover, Poll, Loops,
     WaitReadyLoops, Again, Status, drive
<1>7. QED
  BY <1>1, <1>2, <1>3, <1>4, <1>5, <1>6

(***************************************************************************)
(* A wait that ends with a drive that is ready lets the call go on.        *)
(***************************************************************************)
LEMMA WaitReadyIInv ==
  ASSUME IInv, WaitReady
  PROVE  IInv'
<1> USE DEF IInv
<1>1. Ready => ~err /\ dev # "busy"
  BY LastPoll DEF WaitReady, Ready, WaitReadyLoops
<1>2. TypeOK'
  <2>1. DriverTypes'
    BY DEF DriverTypes, TypeOK, Loops, WaitReadyLoops, WaitReady, LoopEnds,
       Again, Ready, Goto, Return, drive
  <2>2. (polls \in 0 .. Polls)'
    BY GotoPolls DEF WaitReady, Return
  <2>3. DriveTypes'
    BY DEF DriveTypes, TypeOK, HasData, Loops, WaitReadyLoops, WaitReady,
       LoopEnds, Again, Ready, Goto, Return, drive
  <2>4. SectorTypes'
    BY DEF SectorTypes, TypeOK, WaitReady, LoopEnds, Again, Ready, Goto, Return,
       drive
  <2>5. QED
    BY <2>1, <2>2, <2>3, <2>4, TypesOK, PTL
<1>3. SeenHolds'
  BY DEF SeenHolds, TypeOK, WaitReady, LoopEnds, Again, Loops, WaitReadyLoops,
     Ready, Goto, Return, drive
<1>4. SentClean'
  BY <1>1 DEF SentClean, WaitReady, Goto, Return, drive
<1>5. HasData'
  BY DEF HasData, TypeOK, WaitReady, LoopEnds, Again, Loops, WaitReadyLoops,
     Ready, Goto, Return, drive
<1>6. (~late => Working)'
  <2>1. CASE pc = "ready"
    BY <1>1, <2>1 DEF Working, Own, Leftover, TypeOK, WaitReady, Goto, Return,
       drive
  <2>2. CASE pc = "accepted"
    BY <1>1, <2>2 DEF Working, Own, Leftover, TypeOK, WaitReady, Goto, Return,
       drive
  <2>3. QED
    BY <2>1, <2>2 DEF WaitReady
<1>7. HasRead'
  BY DEF HasRead, TypeOK, SeenHolds, Working, Own, Leftover, WaitReady,
     LoopEnds, Again, Loops, WaitReadyLoops, Ready, Goto, Return, drive
<1>8. QED
  BY <1>2, <1>3, <1>4, <1>5, <1>6, <1>7

(***************************************************************************)
(* A command the drive takes makes the call its own, whatever came before. *)
(***************************************************************************)
LEMMA SendCommandIInv ==
  ASSUME IInv, SendCommand
  PROVE  IInv'
<1> USE DEF IInv
<1>1. TypeOK'
  <2>1. DriverTypes'
    BY DEF DriverTypes, TypeOK, Loops, WaitReadyLoops, SendCommand, Command,
       Goto, drive
  <2>2. (polls \in 0 .. Polls)'
    BY GotoPolls DEF SendCommand
  <2>3. DriveTypes'
    BY DEF DriveTypes, TypeOK, HasData, Loops, WaitReadyLoops, SendCommand,
       Command, Goto, drive
  <2>4. SectorTypes'
    BY DEF SectorTypes, TypeOK, SendCommand, Command, Goto, drive
  <2>5. QED
    BY <2>1, <2>2, <2>3, <2>4, TypesOK, PTL
<1>2. SeenHolds'
  BY DEF SeenHolds, TypeOK, SendCommand, Command, Goto, drive
<1>3. SentClean'
  BY DEF SentClean, TypeOK, SeenHolds, SendCommand, Command, Goto, drive
<1>4. HasData'
  BY DEF HasData, TypeOK, SendCommand, Command, Goto, drive
<1>5. (~late => Working)'
  BY DEF Working, Own, Leftover, TypeOK, SeenHolds, SentClean, HasData,
     SendCommand, Command, Goto, drive
<1>6. HasRead'
  BY DEF HasRead, TypeOK, SeenHolds, Working, Own, Leftover, SendCommand,
     Command, Goto, drive
<1>7. QED
  BY <1>1, <1>2, <1>3, <1>4, <1>5, <1>6

(***************************************************************************)
(* A call that gives up on a running command is late.                      *)
(***************************************************************************)
LEMMA GiveUpIInv ==
  ASSUME IInv, GiveUp
  PROVE  IInv'
<1> USE DEF IInv
<1>1. TypeOK'
  <2>1. DriverTypes'
    BY DEF DriverTypes, TypeOK, Loops, WaitReadyLoops, GiveUp, LoopEnds, Again,
       Goto, Return, drive
  <2>2. (polls \in 0 .. Polls)'
    BY GotoPolls DEF GiveUp, Return
  <2>3. DriveTypes'
    BY DEF DriveTypes, TypeOK, HasData, Loops, WaitReadyLoops, GiveUp, LoopEnds,
       Again, Goto, Return, drive
  <2>4. SectorTypes'
    BY DEF SectorTypes, TypeOK, GiveUp, LoopEnds, Again, Goto, Return, drive
  <2>5. QED
    BY <2>1, <2>2, <2>3, <2>4, TypesOK, PTL
<1>2. SeenHolds'
  BY DEF SeenHolds, TypeOK, GiveUp, LoopEnds, Again, Goto, Return, drive, Loops,
     WaitReadyLoops
<1>3. SentClean'
  BY DEF SentClean, TypeOK, SeenHolds, GiveUp, LoopEnds, Again, Goto, Return,
     drive, Loops, WaitReadyLoops
<1>4. HasData'
  BY DEF HasData, TypeOK, GiveUp, LoopEnds, Again, Goto, Return, drive, Loops,
     WaitReadyLoops
<1>5. (~late => Working)'
  BY DEF Working, Own, Leftover, TypeOK, SeenHolds, SentClean, HasData, GiveUp,
     LoopEnds, Again, Goto, Return, drive, Loops, WaitReadyLoops
<1>6. HasRead'
  BY DEF HasRead, TypeOK, SeenHolds, Working, Own, Leftover, GiveUp, LoopEnds,
     Again, Goto, Return, drive, Loops, WaitReadyLoops
<1>7. QED
  BY <1>1, <1>2, <1>3, <1>4, <1>5, <1>6

(***************************************************************************)
(* A read takes the sector of its own command and leaves the drive at      *)
(* rest.                                                                   *)
(***************************************************************************)
LEMMA ReadDataIInv ==
  ASSUME IInv, ReadData
  PROVE  IInv'
<1> USE DEF IInv
<1>1. dev = "drq"
  BY LastPoll DEF ReadData
<1>2. ~late => cmd = op /\ (op # "identify" => at = lba)
  BY <1>1 DEF Working, Own, Leftover, ReadData
<1>3. ~late => cmd \in {"read", "identify"}
  BY <1>2 DEF TypeOK, ReadData
<1>4. TypeOK'
  <2>1. DriverTypes'
    BY DEF DriverTypes, TypeOK, Loops, WaitReadyLoops, ReadData, LoopEnds,
       Again, Goto, Return, Rest, drive
  <2>2. (polls \in 0 .. Polls)'
    BY GotoPolls DEF ReadData, Return
  <2>3. DriveTypes'
    BY DEF DriveTypes, TypeOK, HasData, Loops, WaitReadyLoops, ReadData,
       LoopEnds, Again, Goto, Return, Rest, drive
  <2>4. SectorTypes'
    BY DEF SectorTypes, TypeOK, ReadData, LoopEnds, Again, Goto, Return, Rest,
       drive
  <2>5. QED
    BY <2>1, <2>2, <2>3, <2>4, TypesOK, PTL
<1>5. SeenHolds'
  BY DEF SeenHolds, TypeOK, ReadData, LoopEnds, Again, Loops, WaitReadyLoops,
     Goto, Return, Rest, drive
<1>6. SentClean'
  BY DEF SentClean, TypeOK, SeenHolds, ReadData, LoopEnds, Again, Loops,
     WaitReadyLoops, Goto, Return, Rest, drive
<1>7. HasData'
  BY DEF HasData, TypeOK, ReadData, LoopEnds, Again, Loops, WaitReadyLoops,
     Goto, Return, Rest, drive
<1>8. (~late => Working)'
  BY <1>1, <1>3 DEF Working, ReadData, Goto, Return, Rest
<1>9. HasRead'
  BY <1>1, <1>2, <1>3 DEF HasRead, ReadData, Goto, Return, Rest
<1>10. QED
  BY <1>4, <1>5, <1>6, <1>7, <1>8, <1>9

(***************************************************************************)
(* A write gives its sector to its own command.                            *)
(***************************************************************************)
LEMMA WriteDataIInv ==
  ASSUME IInv, WriteData
  PROVE  IInv'
<1> USE DEF IInv
<1>1. dev = "drq" /\ data \in Values
  BY LastPoll DEF WriteData, HasData
<1>2. ~late => cmd = op
  BY <1>1 DEF Working, Own, Leftover, WriteData
<1>3. TypeOK'
  <2>1. DriverTypes'
    BY DEF DriverTypes, TypeOK, Loops, WaitReadyLoops, WriteData, LoopEnds,
       Again, Goto, drive
  <2>2. (polls \in 0 .. Polls)'
    BY GotoPolls DEF WriteData
  <2>3. DriveTypes'
    BY DEF DriveTypes, TypeOK, HasData, Loops, WaitReadyLoops, WriteData,
       LoopEnds, Again, Goto, drive
  <2>4. SectorTypes'
    BY DEF SectorTypes, TypeOK, WriteData, LoopEnds, Again, Goto, drive
  <2>5. QED
    BY <2>1, <2>2, <2>3, <2>4, TypesOK, PTL
<1>4. SeenHolds'
  BY DEF SeenHolds, TypeOK, WriteData, LoopEnds, Again, Loops, WaitReadyLoops,
     Goto, drive
<1>5. SentClean'
  BY DEF SentClean, TypeOK, SeenHolds, WriteData, LoopEnds, Again, Loops,
     WaitReadyLoops, Goto, drive
<1>6. HasData'
  BY DEF HasData, TypeOK, WriteData, LoopEnds, Again, Loops, WaitReadyLoops,
     Goto, drive
<1>7. (~late => Working)'
  BY <1>1, <1>2, ATAAssumption DEF Working, Leftover, WriteData, Goto
<1>8. HasRead'
  BY DEF HasRead, TypeOK, SeenHolds, Working, Own, Leftover, WriteData,
     LoopEnds, Again, Loops, WaitReadyLoops, Goto, drive
<1>9. QED
  BY <1>3, <1>4, <1>5, <1>6, <1>7, <1>8

(***************************************************************************)
(* The flush is taken by a drive at rest and ignored by one that writes.   *)
(***************************************************************************)
LEMMA SendFlushIInv ==
  ASSUME IInv, SendFlush
  PROVE  IInv'
<1> USE DEF IInv
<1>1. TypeOK'
  <2>1. DriverTypes'
    BY DEF DriverTypes, TypeOK, Loops, WaitReadyLoops, SendFlush, Command, Goto,
       drive
  <2>2. (polls \in 0 .. Polls)'
    BY GotoPolls DEF SendFlush
  <2>3. DriveTypes'
    BY DEF DriveTypes, TypeOK, HasData, Loops, WaitReadyLoops, SendFlush,
       Command, Goto, drive
  <2>4. SectorTypes'
    BY DEF SectorTypes, TypeOK, SendFlush, Command, Goto, drive
  <2>5. QED
    BY <2>1, <2>2, <2>3, <2>4, TypesOK, PTL
<1>2. SeenHolds'
  BY DEF SeenHolds, TypeOK, SendFlush, Command, Goto, drive
<1>3. SentClean'
  BY DEF SentClean, TypeOK, SeenHolds, SendFlush, Command, Goto, drive
<1>4. HasData'
  BY DEF HasData, TypeOK, SendFlush, Command, Goto, drive
<1>5. (~late => Working)'
  BY DEF Working, Own, Leftover, TypeOK, SeenHolds, SentClean, HasData,
     SendFlush, Command, Goto, drive
<1>6. HasRead'
  BY DEF HasRead, TypeOK, SeenHolds, Working, Own, Leftover, SendFlush, Command,
     Goto, drive
<1>7. QED
  BY <1>1, <1>2, <1>3, <1>4, <1>5, <1>6

(***************************************************************************)
(* The flush may still run when the call returns.                          *)
(***************************************************************************)
LEMMA FlushedIInv ==
  ASSUME IInv, Flushed
  PROVE  IInv'
<1> USE DEF IInv
<1>1. TypeOK'
  <2>1. DriverTypes'
    BY DEF DriverTypes, TypeOK, Loops, WaitReadyLoops, Flushed, LoopEnds, Again,
       Goto, Return, drive
  <2>2. (polls \in 0 .. Polls)'
    BY GotoPolls DEF Flushed, Return
  <2>3. DriveTypes'
    BY DEF DriveTypes, TypeOK, HasData, Loops, WaitReadyLoops, Flushed,
       LoopEnds, Again, Goto, Return, drive
  <2>4. SectorTypes'
    BY DEF SectorTypes, TypeOK, Flushed, LoopEnds, Again, Goto, Return, drive
  <2>5. QED
    BY <2>1, <2>2, <2>3, <2>4, TypesOK, PTL
<1>2. SeenHolds'
  BY DEF SeenHolds, TypeOK, Flushed, LoopEnds, Again, Loops, WaitReadyLoops,
     Goto, Return, drive
<1>3. SentClean'
  BY DEF SentClean, TypeOK, SeenHolds, Flushed, LoopEnds, Again, Loops,
     WaitReadyLoops, Goto, Return, drive
<1>4. HasData'
  BY DEF HasData, TypeOK, Flushed, LoopEnds, Again, Loops, WaitReadyLoops, Goto,
     Return, drive
<1>5. (~late => Working)'
  BY DEF Working, Own, Leftover, TypeOK, SeenHolds, SentClean, HasData, Flushed,
     LoopEnds, Again, Loops, WaitReadyLoops, Goto, Return, drive
<1>6. HasRead'
  BY DEF HasRead, HasData, Flushed, Goto, Return, drive
<1>7. QED
  BY <1>1, <1>2, <1>3, <1>4, <1>5, <1>6

(***************************************************************************)
(* The drive requests data only for a command without its data.            *)
(***************************************************************************)
LEMMA DriveOffersIInv ==
  ASSUME IInv, DriveOffers
  PROVE  IInv'
<1> USE DEF IInv
<1>1. TypeOK'
  <2>1. DriverTypes'
    BY DEF DriverTypes, TypeOK, Loops, WaitReadyLoops, DriveOffers, driver
  <2>2. (polls \in 0 .. Polls)'
    BY ATAAssumption DEF TypeOK, Loops, WaitReadyLoops, DriveOffers, driver
  <2>3. DriveTypes'
    BY DEF DriveTypes, TypeOK, HasData, Loops, WaitReadyLoops, DriveOffers,
       driver
  <2>4. SectorTypes'
    BY DEF SectorTypes, TypeOK, DriveOffers, driver
  <2>5. QED
    BY <2>1, <2>2, <2>3, <2>4, TypesOK, PTL
<1>2. SeenHolds'
  BY DEF SeenHolds, TypeOK, DriveOffers, driver
<1>3. SentClean'
  BY DEF SentClean, TypeOK, SeenHolds, DriveOffers, driver
<1>4. HasData'
  BY DEF HasData, TypeOK, DriveOffers, driver
<1>5. (~late => Working)'
  BY DEF Working, Own, Leftover, TypeOK, SeenHolds, SentClean, HasData,
     DriveOffers, driver
<1>6. HasRead'
  BY DEF HasRead, TypeOK, SeenHolds, Working, Own, Leftover, DriveOffers, driver
<1>7. QED
  BY <1>1, <1>2, <1>3, <1>4, <1>5, <1>6

(***************************************************************************)
(* The drive ends a write.                                                 *)
(***************************************************************************)
LEMMA DriveWritesIInv ==
  ASSUME IInv, DriveWrites
  PROVE  IInv'
<1> USE DEF IInv
<1>1. TypeOK'
  <2>1. DriverTypes'
    BY DEF DriverTypes, TypeOK, Loops, WaitReadyLoops, DriveWrites, Rest, driver
  <2>2. (polls \in 0 .. Polls)'
    BY ATAAssumption DEF TypeOK, Loops, WaitReadyLoops, DriveWrites, Rest,
       driver
  <2>3. DriveTypes'
    BY DEF DriveTypes, TypeOK, HasData, Loops, WaitReadyLoops, DriveWrites,
       Rest, driver
  <2>4. SectorTypes'
    BY DEF SectorTypes, TypeOK, HasData, DriveWrites, Rest, driver
  <2>5. QED
    BY <2>1, <2>2, <2>3, <2>4, TypesOK, PTL
<1>2. SeenHolds'
  BY DEF SeenHolds, TypeOK, DriveWrites, Rest, driver
<1>3. SentClean'
  BY DEF SentClean, TypeOK, SeenHolds, DriveWrites, Rest, driver
<1>4. HasData'
  BY DEF HasData, TypeOK, DriveWrites, Rest, driver
<1>5. (~late => Working)'
  BY DEF Working, Own, Leftover, TypeOK, SeenHolds, SentClean, HasData,
     DriveWrites, Rest, driver
<1>6. HasRead'
  BY DEF HasRead, TypeOK, SeenHolds, Working, Own, Leftover, DriveWrites, Rest,
     driver
<1>7. QED
  BY <1>1, <1>2, <1>3, <1>4, <1>5, <1>6

(***************************************************************************)
(* The drive ends a flush.                                                 *)
(***************************************************************************)
LEMMA DriveFlushesIInv ==
  ASSUME IInv, DriveFlushes
  PROVE  IInv'
<1> USE DEF IInv
<1>1. TypeOK'
  <2>1. DriverTypes'
    BY DEF DriverTypes, TypeOK, Loops, WaitReadyLoops, DriveFlushes, Rest,
       driver
  <2>2. (polls \in 0 .. Polls)'
    BY ATAAssumption DEF TypeOK, Loops, WaitReadyLoops, DriveFlushes, Rest,
       driver
  <2>3. DriveTypes'
    BY DEF DriveTypes, TypeOK, HasData, Loops, WaitReadyLoops, DriveFlushes,
       Rest, driver
  <2>4. SectorTypes'
    BY DEF SectorTypes, TypeOK, DriveFlushes, Rest, driver
  <2>5. QED
    BY <2>1, <2>2, <2>3, <2>4, TypesOK, PTL
<1>2. SeenHolds'
  BY DEF SeenHolds, TypeOK, DriveFlushes, Rest, driver
<1>3. SentClean'
  BY DEF SentClean, TypeOK, SeenHolds, DriveFlushes, Rest, driver
<1>4. HasData'
  BY DEF HasData, TypeOK, DriveFlushes, Rest, driver
<1>5. (~late => Working)'
  BY DEF Working, Own, Leftover, TypeOK, SeenHolds, SentClean, HasData,
     DriveFlushes, Rest, driver
<1>6. HasRead'
  BY DEF HasRead, TypeOK, SeenHolds, Working, Own, Leftover, DriveFlushes, Rest,
     driver
<1>7. QED
  BY <1>1, <1>2, <1>3, <1>4, <1>5, <1>6

(***************************************************************************)
(* The drive ends a command with its error bit.                            *)
(***************************************************************************)
LEMMA DriveFailsIInv ==
  ASSUME IInv, DriveFails
  PROVE  IInv'
<1> USE DEF IInv
<1>1. TypeOK'
  <2>1. DriverTypes'
    BY DEF DriverTypes, TypeOK, Loops, WaitReadyLoops, DriveFails, Rest, driver
  <2>2. (polls \in 0 .. Polls)'
    BY ATAAssumption DEF TypeOK, Loops, WaitReadyLoops, DriveFails, Rest, driver
  <2>3. DriveTypes'
    BY DEF DriveTypes, TypeOK, HasData, Loops, WaitReadyLoops, DriveFails, Rest,
       driver
  <2>4. SectorTypes'
    BY DEF SectorTypes, TypeOK, DriveFails, Rest, driver
  <2>5. QED
    BY <2>1, <2>2, <2>3, <2>4, TypesOK, PTL
<1>2. SeenHolds'
  BY DEF SeenHolds, TypeOK, DriveFails, Rest, driver
<1>3. SentClean'
  BY DEF SentClean, TypeOK, SeenHolds, DriveFails, Rest, driver
<1>4. HasData'
  BY DEF HasData, TypeOK, DriveFails, Rest, driver
<1>5. (~late => Working)'
  BY DEF Working, Own, Leftover, TypeOK, SeenHolds, SentClean, HasData,
     DriveFails, Rest, driver
<1>6. HasRead'
  BY DEF HasRead, TypeOK, SeenHolds, Working, Own, Leftover, DriveFails, Rest,
     driver
<1>7. QED
  BY <1>1, <1>2, <1>3, <1>4, <1>5, <1>6

(***************************************************************************)
(* A step keeps the invariant.                                             *)
(***************************************************************************)
LEMMA StepIInv ==
  ASSUME IInv, [Next]_vars
  PROVE  IInv'
<1>1. CASE Next
  <2>1. ASSUME NEW s \in Sectors, Read28(s)
        PROVE  IInv'
    BY <2>1, CallIInv DEF Read28
  <2>2. ASSUME NEW s \in Sectors, NEW v \in Values, Write28(s, v)
        PROVE  IInv'
    BY <2>2, CallIInv DEF Write28
  <2>3. ASSUME Identify
        PROVE  IInv'
    <3>1. lba \in Sectors
      BY DEF IInv, TypeOK
    <3>2. QED
      BY <2>3, <3>1, CallIInv DEF Identify
  <2>4. ASSUME DriverStep
        PROVE  IInv'
    BY <2>4, PollIInv, WaitReadyIInv, SendCommandIInv, GiveUpIInv, ReadDataIInv,
       WriteDataIInv, SendFlushIInv, FlushedIInv DEF DriverStep
  <2>5. QED
    BY <1>1, <2>1, <2>2, <2>3, <2>4, DriveOffersIInv, DriveWritesIInv,
       DriveFlushesIInv, DriveFailsIInv DEF Next
<1>2. CASE UNCHANGED vars
  <2>1. TypeOK'
    <3>1. DriverTypes' /\ DriveTypes' /\ SectorTypes' /\ (polls \in 0 .. Polls)'
      BY <1>2, TypesOK DEF vars, driver, drive, IInv, DriverTypes, DriveTypes,
         SectorTypes
    <3>2. QED
      BY <3>1, TypesOK, PTL
  <2>2. SeenHolds' /\ SentClean'
    BY <1>2 DEF vars, driver, drive, IInv, SeenHolds, SentClean
  <2>3. HasData' /\ HasRead'
    BY <1>2 DEF vars, driver, drive, IInv, HasData, HasRead
  <2>4. (~late => Working)'
    BY <1>2 DEF vars, driver, drive, IInv, Working, Own, Leftover
  <2>5. QED
    BY <2>1, <2>2, <2>3, <2>4 DEF IInv
<1>3. QED
  BY <1>1, <1>2

(***************************************************************************)
(* The invariant holds.                                                    *)
(***************************************************************************)
LEMMA InvariantHolds == Spec => []IInv
<1>1. QED
  BY InitIInv, StepIInv, PTL DEF Spec

(***************************************************************************)
(* The variables keep their types: the timeout never goes below zero, a    *)
(* drive at rest has no command, and it holds a sector only while it       *)
(* writes it.                                                              *)
(***************************************************************************)
THEOREM DriverTypesOK == Spec => []TypeOK
<1>1. IInv => TypeOK
  BY DEF IInv
<1>2. QED
  BY <1>1, InvariantHolds, PTL

(***************************************************************************)
(* Unless a call gave up on a running command, the data ReadData and       *)
(* WriteData move belongs to the command the call itself sent.             *)
(***************************************************************************)
THEOREM TransfersClean == Spec => CleanTransfers
<1>1. ASSUME IInv, Moves, ~late
      PROVE  OwnTransfer
  <2>1. dev = "drq"
    BY <1>1, LastPoll DEF Moves, ReadData, WriteData, IInv
  <2>2. QED
    BY <1>1, <2>1 DEF Moves, ReadData, WriteData, IInv, Working, Own, Leftover,
                      OwnTransfer
<1>2. IInv /\ [Next]_vars => [Moves /\ ~late => OwnTransfer]_vars
  BY <1>1
<1>3. QED
  BY <1>2, InvariantHolds, PTL DEF Spec, CleanTransfers

(***************************************************************************)
(* Unless a call gave up on a running command, a read that returned left   *)
(* the caller what the drive holds of that sector.                         *)
(***************************************************************************)
THEOREM ReadsAreRight == Spec => []ReadsRight
<1>1. IInv => ReadsRight
  BY DEF IInv, HasRead, ReadsRight
<1>2. QED
  BY <1>1, InvariantHolds, PTL

(***************************************************************************)
(* The error bit of a failed command is cleared only by Identify and by    *)
(* the flush: SendCommand of a read or write meets a drive without it.     *)
(***************************************************************************)
THEOREM ErrorsStick == Spec => ErrorSticks
<1>1. ASSUME IInv, Next, err, ~err'
      PROVE  op = "identify" \/ pc = "flush"
  <2>1. err' = err \/ SendCommand \/ SendFlush \/ DriveFails
    BY <1>1 DEF Next, Read28, Write28, Identify, Call, DriverStep, Poll,
       WaitReady,
                GiveUp, ReadData, WriteData, Flushed, DriveOffers, DriveWrites,
                DriveFlushes, drive, Return
  <2>2. CASE SendCommand
    BY <1>1, <2>2 DEF SendCommand, IInv, SentClean
  <2>3. CASE SendFlush
    BY <2>3 DEF SendFlush
  <2>4. QED
    BY <1>1, <2>1, <2>2, <2>3 DEF DriveFails
<1>2. IInv /\ [Next]_vars => [err /\ ~err' => op = "identify" \/ pc = "flush"]_vars
  BY <1>1
<1>3. QED
  BY <1>2, InvariantHolds, PTL DEF Spec, ErrorSticks
=============================================================================
