-------------------------------- MODULE ATA ---------------------------------
(***************************************************************************)
(* The polling disk driver (ata.cpp, ata.h) and the drive it talks to.     *)
(*                                                                         *)
(* Each read of the status port is a step, the drive works in between, and *)
(* the driver gives up after a fixed number of polls, whatever the drive   *)
(* is doing.  Every caller passes count = 1, so the loop over sectors is   *)
(* one transfer.  The drive is external: it takes a command only when it   *)
(* is neither busy nor holding a data request, clears its error bit when   *)
(* it does, keeps written sectors in a cache until it flushes, and may     *)
(* fail any command.  ERR and DF are one bit, for the driver treats them   *)
(* alike; a drive that is absent is not modelled.                          *)
(***************************************************************************)
EXTENDS Integers

CONSTANTS Sectors, \* sector numbers used
          Values,  \* what a sector can hold
          NoData,  \* a buffer with nothing in it
          Polls    \* the timeout: 100000 polls in the code

ASSUME ATAAssumption == Polls \in Nat \ {0} /\ NoData \notin Values

VARIABLES pc,     \* where the driver is
          op,     \* "read", "write" or "identify": the call it runs or ran last
          lba,    \* the sector of the call
          data,   \* the caller's buffer
          seen,   \* the status read last, or Unread
          polls,  \* timeout
          result, \* how the last call ended: nobody is told
          late    \* ghost: a call gave up on a command that still runs

driver == <<pc, op, lba, data, seen, polls, result, late>>

VARIABLES dev,    \* the drive: "ready", "busy" or "drq"
          err,    \* its error bit
          cmd,    \* the command it works on
          at,     \* the sector of that command
          held,   \* the sector it was given to write
          cache,  \* what it reads back
          media   \* what survives a power loss

drive == <<dev, err, cmd, at, held, cache, media>>
vars == <<driver, drive>>

-----------------------------------------------------------------------------
(* The drive. *)

Status == [bsy |-> dev = "busy", drq |-> dev = "drq", err |-> err]

\* A command is written to the command port; a drive at work ignores it.
Command(c) ==
  IF dev = "ready"
  THEN /\ dev' = "busy" /\ cmd' = c /\ at' = lba
       /\ err' = FALSE /\ held' = NoData
       /\ UNCHANGED <<cache, media>>
  ELSE UNCHANGED drive

Rest == dev' = "ready" /\ cmd' = "none" /\ held' = NoData /\ UNCHANGED at

DriveOffers ==
  /\ dev = "busy"
  /\ cmd \in {"read", "identify"} \/ (cmd = "write" /\ held = NoData)
  /\ dev' = "drq"
  /\ UNCHANGED <<err, cmd, at, held, cache, media, driver>>

DriveWrites ==
  /\ dev = "busy" /\ cmd = "write" /\ held # NoData
  /\ cache' = [cache EXCEPT ![at] = held]
  /\ Rest
  /\ UNCHANGED <<err, media, driver>>

DriveFlushes ==
  /\ dev = "busy" /\ cmd = "flush"
  /\ media' = cache
  /\ Rest
  /\ UNCHANGED <<err, cache, driver>>

DriveFails ==
  /\ dev = "busy"
  /\ err' = TRUE
  /\ Rest
  /\ UNCHANGED <<cache, media, driver>>

-----------------------------------------------------------------------------
(* The driver. *)

Unread == [bsy |-> FALSE, drq |-> FALSE, err |-> FALSE, none |-> TRUE]

\* The driver goes on at p; if that is a loop, with a fresh timeout.
Goto(p) == pc' = p /\ seen' = Unread /\ polls' = Polls

Return(r) ==
  /\ Goto("idle")
  /\ result' = r
  /\ UNCHANGED <<op, lba>>

Init ==
  /\ pc = "idle" /\ op = "identify" /\ lba \in Sectors /\ data = NoData
  /\ seen = Unread /\ polls = Polls /\ result = "none" /\ late = FALSE
  /\ dev = "ready" /\ err = FALSE /\ cmd = "none" /\ at = lba /\ held = NoData
  /\ cache = [s \in Sectors |-> NoData] /\ media = cache

\* Read28, Write28 and Identify are called.
Call(o, s, v, first) ==
  /\ pc = "idle"
  /\ op' = o /\ lba' = s /\ data' = v
  /\ Goto(first)
  /\ result' = "none"
  /\ UNCHANGED <<late, drive>>

Read28(s) == Call("read", s, NoData, "ready")
Write28(s, v) == Call("write", s, v, "ready")
Identify == Call("identify", lba, NoData, "command")

\* WaitReady polls while the drive is busy: before a command ("ready"), after
\* IDENTIFY ("accepted") and after the flush ("flushing").  The loops before a
\* transfer ("drq") poll until the drive requests data.
WaitReadyLoops == {"ready", "accepted", "flushing"}
Loops == WaitReadyLoops \cup {"drq"}
\* Slip in the loop before a transfer: it waits for the drive not to be busy.
AgainWhileBusy == seen.bsy

Again == IF pc \in WaitReadyLoops THEN seen.bsy ELSE ~seen.drq

\* Slip: the loop condition loses its timeout.
PollPastZero ==
  /\ pc \in Loops
  /\ \/ seen = Unread /\ UNCHANGED polls
     \/ seen # Unread /\ Again /\ polls' = polls - 1
  /\ seen' = Status
  /\ UNCHANGED <<pc, op, lba, data, result, late, drive>>

\* Slip: the timeout is not counted down.
PollForever ==
  /\ pc \in Loops
  /\ seen = Unread \/ Again
  /\ seen' = Status
  /\ UNCHANGED <<pc, op, lba, data, polls, result, late, drive>>

Poll ==
  /\ pc \in Loops
  /\ \/ seen = Unread /\ UNCHANGED polls
     \/ seen # Unread /\ Again /\ polls > 0 /\ polls' = polls - 1
  /\ seen' = Status
  /\ UNCHANGED <<pc, op, lba, data, result, late, drive>>

LoopEnds == pc \in Loops /\ seen # Unread /\ ~(Again /\ polls > 0)

\* Slip in WaitReady's verdict: the error bit is not looked at.
ReadyIgnoresErr == polls # 0

\* What WaitReady returns: a drive that is ready at the last poll is too late.
Ready == polls # 0 /\ ~seen.err

WaitReady ==
  /\ LoopEnds
  /\ pc \in {"ready", "accepted"}
  /\ IF Ready
     THEN /\ Goto(IF pc = "ready" THEN "command" ELSE "drq")
          /\ UNCHANGED <<op, lba, result>>
     ELSE Return("gave up")
  /\ late' = (late \/ (pc = "accepted" /\ ~Ready /\ dev # "ready"))
  /\ UNCHANGED <<data, drive>>

SendCommand ==
  /\ pc = "command"
  /\ Command(op)
  /\ late' = (late /\ dev # "ready")
  /\ Goto(IF op = "identify" THEN "accepted" ELSE "drq")
  /\ UNCHANGED <<op, lba, data, result>>

\* No data request came, or only at the last poll.
GiveUp ==
  /\ LoopEnds
  /\ pc = "drq"
  /\ polls = 0
  /\ Return("gave up")
  /\ late' = (late \/ dev # "ready")
  /\ UNCHANGED <<data, drive>>

\* Slip in ReadData: the check of the timeout after the loop is left out.
ReadDataAnyway ==
  /\ LoopEnds
  /\ pc = "drq" /\ op # "write"
  /\ IF dev = "drq" /\ cmd \in {"read", "identify"}
     THEN /\ data' = IF cmd = "read" THEN cache[at] ELSE NoData
          /\ Rest
          /\ UNCHANGED <<err, cache, media>>
     ELSE data' = NoData /\ UNCHANGED drive
  /\ Return("done")
  /\ UNCHANGED late

\* 256 words are read from the data port: the drive's sector if it offers one,
\* else whatever the port floats at.
ReadData ==
  /\ LoopEnds
  /\ pc = "drq" /\ polls # 0
  /\ op # "write"
  /\ IF dev = "drq" /\ cmd \in {"read", "identify"}
     THEN /\ data' = IF cmd = "read" THEN cache[at] ELSE NoData
          /\ Rest
          /\ UNCHANGED <<err, cache, media>>
     ELSE data' = NoData /\ UNCHANGED drive
  /\ Return("done")
  /\ UNCHANGED late

\* 256 words are written to the data port.
WriteData ==
  /\ LoopEnds
  /\ pc = "drq" /\ polls # 0
  /\ op = "write"
  /\ IF dev = "drq" /\ cmd = "write"
     THEN held' = data /\ dev' = "busy" /\ UNCHANGED <<err, cmd, at, cache, media>>
     ELSE UNCHANGED drive
  /\ Goto("flush")
  /\ UNCHANGED <<op, lba, data, result, late>>

\* Flush: the command is written whether or not the drive still writes, and
\* nobody looks at what WaitReady says of it.
SendFlush ==
  /\ pc = "flush"
  /\ Command("flush")
  /\ Goto("flushing")
  /\ UNCHANGED <<op, lba, data, result, late>>

Flushed ==
  /\ LoopEnds
  /\ pc = "flushing"
  /\ Return("done")
  /\ UNCHANGED <<data, late, drive>>

DriverStep ==
  Poll \/ WaitReady \/ SendCommand \/ GiveUp \/ ReadData \/ WriteData \/ SendFlush \/ Flushed

Next ==
  \/ \E s \in Sectors : Read28(s)
  \/ \E s \in Sectors, v \in Values : Write28(s, v)
  \/ Identify
  \/ DriverStep
  \/ DriveOffers \/ DriveWrites \/ DriveFlushes \/ DriveFails

\* The driver polls in a loop of its own, with interrupts off: it goes on.
\* Nothing is assumed of the drive.
Spec == Init /\ [][Next]_vars /\ WF_vars(DriverStep)

-----------------------------------------------------------------------------
(* Properties. *)

\* The variables have their types; a drive at rest works on no command.
TypeOK ==
  /\ pc \in Loops \cup {"idle", "command", "flush"}
  /\ op \in {"read", "write", "identify"} /\ lba \in Sectors
  /\ data \in Values \cup {NoData}
  /\ polls \in 0 .. Polls
  /\ result \in {"none", "done", "gave up"} /\ late \in BOOLEAN
  /\ dev \in {"ready", "busy", "drq"} /\ err \in BOOLEAN /\ at \in Sectors
  /\ dev = "ready" <=> cmd = "none"
  /\ held # NoData => dev = "busy" /\ cmd = "write"
  /\ cache \in [Sectors -> Values \cup {NoData}] /\ media \in [Sectors -> Values \cup {NoData}]

Moves == ReadData \/ WriteData

\* The data a call moves belongs to the command that call sent.
OwnTransfer == dev = "drq" /\ cmd = op /\ (op # "identify" => at = lba)

\* Unless a call gave up on a command that still runs, every transfer is one's
\* own: no sector is read or written in place of another.
CleanTransfers == [][Moves /\ ~late => OwnTransfer]_vars

\* Unless a call gave up on a running command, a read that returns data
\* returns what was last written to that sector.
ReadsRight ==
  pc = "idle" /\ op = "read" /\ result = "done" /\ ~late => data = cache[lba]

\* After a failed command every read and write is refused, until Identify
\* clears the bit - or the flush of the very write that failed hides it.
ErrorSticks == [][err /\ ~err' => op = "identify" \/ pc = "flush"]_vars

\* Whatever the drive does, a call returns: every loop is bounded.
CallsReturn == pc # "idle" ~> pc = "idle"

\* "Wait for drive to be ready" (ata.cpp:121): a command goes to a drive that
\* can take it, so every transfer is one's own.  WaitReady looks at BSY and the
\* error bits, not at a data request left over from a call that gave up.
TransfersOwn == [][Moves /\ op # "identify" => OwnTransfer]_vars

\* "Flush cache" (ata.cpp:219): when Write28 returns without an error the
\* sector is on the media.  The flush is sent while the drive is still busy
\* with the sector and may be ignored.
WriteDurable ==
  pc = "idle" /\ op = "write" /\ result = "done" /\ dev = "ready" /\ ~err /\ ~late
    => media[lba] = data
=============================================================================
