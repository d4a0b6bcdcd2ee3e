------------------------------- MODULE Shell --------------------------------
(***************************************************************************)
(* The shell's file commands (shell.cpp) over the filesystem, on a drive   *)
(* that may refuse a read or a write: one that is busy too long refuses    *)
(* one call, one that has failed refuses all until it is identified.       *)
(* Read28 and Write28 return nothing, so neither the filesystem nor the    *)
(* shell sees it: the user is told it worked, and what a refused read      *)
(* should have brought is whatever the heap held.                          *)
(*                                                                         *)
(* A command runs to its last message before the next key is read.  What   *)
(* its messages told the user about each file is kept in told, which       *)
(* outlives a power loss; the properties relate it to the disk and to what *)
(* cat and ls answer.  A command that refuses (not mounted, no such file,  *)
(* file exists, table full) changes nothing and tells nothing new, so it   *)
(* is a stuttering step.                                                   *)
(*                                                                         *)
(* A call that gives up while its command still runs on the drive, and the *)
(* call after it that takes the transfer, are not modelled here: ATA shows *)
(* them.                                                                   *)
(***************************************************************************)
EXTENDS FileSystem

CONSTANTS Nothing,   \* no command runs
          Text,      \* what the write command writes
          Unsure,    \* the user was told nothing that still counts
          Leftovers, \* what a heap block holds before a sector is read into it
          MaxFaults  \* bound: times the drive is late or fails

Commands == {"format", "touch", "write", "rm", "disk"}

ASSUME ShellAssumption ==
  /\ Text \in Values /\ 1 \in Sizes /\ MaxFaults \in Nat
  /\ Nothing \notin [op : Commands, files : SUBSET Names]
  /\ NoFile \notin {<< >>, <<Text>>}

\* A block holds what was read into it before, or what will be written.
ASSUME LeftoverAssumption ==
  Leftovers \subseteq [super : Super, row : [0 .. (PerSector - 1) -> Inode],
                       data : Values \cup {Pattern, NoData}]

VARIABLES command,   \* the command that runs: its name and the files it changes
          told,      \* ghost: what the user was told of each file
          drive,     \* "ready", or "error": its error bit is set
          lost,      \* ghost: sectors the last write of which was refused
          faults,    \* ghost: times the drive was late or failed so far
          stale      \* ghost: the tables loaded are not what was last saved

shellVars == <<vars, command, told, drive, lost, faults, stale>>

-----------------------------------------------------------------------------
(* The drive. *)

\* The drive does what it is asked, as far as it can.
Steady == UNCHANGED <<faults, drive>>

\* The drive is busy for longer than a call waits.
Late ==
  /\ faults < MaxFaults
  /\ faults' = faults + 1
  /\ UNCHANGED drive

\* A command of the drive ends with an error, which stays.
Fails ==
  /\ faults < MaxFaults
  /\ faults' = faults + 1
  /\ drive' = "error"

-----------------------------------------------------------------------------
(* What the reading commands answer. *)

\* Slip in CommandCat: the size compared with 1.
CatAnswerOffByOne(n, taken, left) ==
  IF ~mounted \/ ~FileExists(n) \/ inodes[OpenFile(n)].size <= 1
  THEN (IF mounted /\ FileExists(n) THEN << >> ELSE NoFile)
  ELSE ReadFile(inodes, OpenFile(n))

\* CommandCat: "File not found", or for as many sectors as the file has what is
\* in them when the drive has taken the read, else what the heap block held;
\* nothing for "(empty file)".  ReadFile tells how much it meant to read, so
\* "Failed to read file" is never said.
CatAnswer(n, taken, left) ==
  IF ~mounted \/ ~FileExists(n) THEN NoFile
  ELSE IF taken THEN ReadFile(inodes, OpenFile(n))
  ELSE [b \in 1 .. inodes[OpenFile(n)].size |-> left.data]

\* Slip in CommandLs: the loop starts at inode 1.
LsLinesFromOne ==
  [i \in Live(inodes) \ {0} |-> [name |-> inodes[i].name, size |-> inodes[i].size]]

\* CommandLs: a line for each inode in use, mounted or not.
LsLines ==
  [i \in Live(inodes) |-> [name |-> inodes[i].name, size |-> inodes[i].size]]

-----------------------------------------------------------------------------
(* The commands that change something. *)

AtPrompt == command = Nothing

\* The command op on the files N has made its call.
Run(op, N) ==
  /\ AtPrompt
  /\ command' = [op |-> op, files |-> N]
  /\ UNCHANGED <<told, lost>>

CommandFormat == Format /\ Run("format", Names) /\ Steady /\ UNCHANGED stale

\* CommandMount: the answer comes without a write.  Loading a sector the disk
\* refused to take brings back what it held before.
CommandMount ==
  /\ AtPrompt
  /\ drive = "ready"
  /\ Mount
  /\ stale' = (stale \/ (mounted' /\ lost # {}))
  /\ Steady
  /\ UNCHANGED <<command, told, lost>>

\* The sectors a mount reads, and LoadInodeTable when the drive takes only the
\* reads of those in taken: a row that was not read is the one in the buffer,
\* the last that was read, or else what the heap block held.
TableSecs == SuperSec .. (DataStart - 1)
ReadUpTo(taken, s) == {k \in taken : InodeSec <= k /\ k <= s}
LastRead(taken, s) ==
  CHOOSE k \in ReadUpTo(taken, s) : \A j \in ReadUpTo(taken, s) : j <= k

LoadedTable(taken, left) ==
  [i \in Slots |->
     LET s == InodeSec + (i \div PerSector)
         row == IF ReadUpTo(taken, s) = {} THEN left.row ELSE disk[LastRead(taken, s)]
     IN row[i % PerSector]]

\* Of the reads of the sectors due, a late drive takes some, one that fails takes
\* none from then on, and one that has failed takes none.
ReadsTaken(due, taken) ==
  /\ taken \subseteq due /\ taken # due
  /\ \/ drive = "ready" /\ Late
     \/ drive = "ready" /\ Fails /\ \E s \in due : taken = SuperSec .. (s - 1)
     \/ drive = "error" /\ taken = {} /\ Steady

\* CommandMount when not every read is taken, which the code does not see.
CommandMountUnread ==
  \E taken \in SUBSET TableSecs, left \in Leftovers :
    /\ AtPrompt
    /\ Idle
    /\ sb' = IF SuperSec \in taken THEN disk[SuperSec] ELSE left.super
    /\ ReadsTaken(IF sb'.magic THEN TableSecs ELSE {SuperSec}, taken)
    /\ IF sb'.magic
       THEN inodes' = LoadedTable(taken, left) /\ mounted' = TRUE
       ELSE UNCHANGED <<inodes, mounted>>
    /\ stale' = (stale \/ mounted')
    /\ UNCHANGED <<disk, call, todo, crashes, wrote, command, told, lost>>

CommandTouch(n) ==
  CreateFile(n) /\ Run("touch", {n}) /\ Steady /\ UNCHANGED stale

\* CommandWrite: always the same text, of less than a sector.
CommandWrite(n) ==
  /\ mounted /\ FileExists(n)
  /\ WriteFile(OpenFile(n), Text, 1)
  /\ Run("write", {n})
  /\ Steady
  /\ UNCHANGED stale

CommandRm(n) == DeleteFile(n) /\ Run("rm", {n}) /\ Steady /\ UNCHANGED stale

\* CommandDisk: after Identify, which ends an error of the drive, and a read of
\* sector 0, which may fail again, the pattern is written and read back.
CommandDisk(s) ==
  /\ DiskCommand(s)
  /\ Run("disk", {})
  /\ (drive' = "ready" /\ UNCHANGED faults) \/ Fails
  /\ UNCHANGED stale

\* A cat that makes the drive fail: what it answers is CatAnswer.
CommandCat(n) ==
  /\ AtPrompt
  /\ mounted /\ FileExists(n) /\ inodes[OpenFile(n)].size > 0
  /\ drive = "ready"
  /\ Fails
  /\ UNCHANGED <<vars, command, told, lost, stale>>

\* Write28, taken by the disk; the flush after it may fail.
Taken ==
  /\ drive = "ready"
  /\ WriteSector
  /\ lost' = lost \ {Head(todo).sector}
  /\ Steady \/ Fails
  /\ UNCHANGED <<command, told, stale>>

\* Write28, given up: the caller goes on as if it had been taken.  The error of
\* a write is ended by its own flush (Late) or not (Fails); one that was there
\* before stays.
Refused ==
  /\ ~Idle
  /\ \/ drive = "ready" /\ (Late \/ Fails)
     \/ drive = "error" /\ Steady
  /\ lost' = lost \cup {Head(todo).sector}
  /\ todo' = Tail(todo)
  /\ call' = IF Len(todo) = 1 THEN "idle" ELSE call
  /\ UNCHANGED <<mounted, sb, inodes, disk, crashes, wrote, command, told, stale>>

\* What the success message of a command says has become of its files.
Outcome(op) ==
  CASE op = "write" -> <<Text>>
    [] op = "touch" -> << >>
    [] OTHER -> NoFile

\* The call has returned: the shell prints its message and the prompt.  All
\* tables are new after a format.
Report ==
  /\ ~AtPrompt
  /\ Idle
  /\ told' = [n \in Names |-> IF n \in command.files THEN Outcome(command.op) ELSE told[n]]
  /\ command' = Nothing
  /\ stale' = (stale /\ command.op # "format")
  /\ Steady
  /\ UNCHANGED <<vars, lost>>

\* The power is lost: no message came for the files of the running command.
PowerLoss ==
  /\ Crash
  /\ told' = [n \in Names |->
                IF ~AtPrompt /\ n \in command.files THEN Unsure ELSE told[n]]
  /\ command' = Nothing
  /\ drive' = "ready"
  /\ UNCHANGED <<lost, faults, stale>>

ShellInit ==
  /\ Init
  /\ command = Nothing
  /\ told = [n \in Names |-> NoFile]
  /\ drive = "ready"
  /\ lost = {}
  /\ faults = 0
  /\ stale = FALSE

\* ExecuteCommand: what a typed line starts, and what follows.
ShellNext ==
  \/ CommandFormat \/ CommandMount \/ CommandMountUnread
  \/ \E n \in Names : CommandTouch(n) \/ CommandWrite(n) \/ CommandRm(n) \/ CommandCat(n)
  \/ \E s \in TestSectors : CommandDisk(s)
  \/ Taken \/ Refused \/ Report
  \/ PowerLoss

ShellSpec == ShellInit /\ [][ShellNext]_shellVars

-----------------------------------------------------------------------------
(* Properties. *)

Told == {NoFile, Unsure, << >>, <<Text>>}

\* The variables have their types; a command runs as long as its call does,
\* and a running command is about the files its call changes.
ShellTypeOK ==
  /\ TypeOK
  /\ command \in [op : Commands, files : SUBSET Names] \cup {Nothing}
  /\ told \in [Names -> Told]
  /\ drive \in {"ready", "error"}
  /\ lost \subseteq Sectors
  /\ faults \in 0 .. MaxFaults
  /\ stale \in BOOLEAN
  /\ AtPrompt => Idle

Sure == {n \in Names : told[n] # Unsure}

\* The files the table t, with the data on disk, holds under the name n.
Held(t, n) == {ReadFile(t, i) : i \in {j \in Live(t) : t[j].name = n}}

\* What the user was told is on disk at every prompt, whatever was on it
\* before, whatever the power losses in between, unless a sector that the disk
\* refused has not been written again since.
ToldOnDisk ==
  AtPrompt /\ lost = {} /\ ~stale =>
    \A n \in Sure : Held(TableOnDisk, n) = {told[n]} \ {NoFile}

\* On a mounted disk cat shows what the user was told was written, when the
\* drive takes the read, with a transfer of the read's own, and did not refuse a
\* sector of that very file, whatever other writes it refused.  When it does not
\* take the read, cat still knows which files there are and which are empty, and
\* shows as much as was written, of something else.
CatShows ==
  AtPrompt /\ mounted /\ ~stale =>
    \A n \in Sure, left \in Leftovers, taken \in BOOLEAN :
      LET answer == CatAnswer(n, taken, left)
      IN (taken => drive = "ready") =>
           \/ answer = told[n]
           \/ ~taken /\ told[n] # NoFile /\ Len(answer) = Len(told[n])
           \/ \E i \in Found(n) : Extent(inodes[i]) \cap lost # {}

\* On a mounted disk ls lists each file the user was told of once, with its
\* size, and no other that the user was not left unsure of: also while writes
\* are refused, which is why the user cannot see that they are.
LsLists ==
  AtPrompt /\ mounted /\ ~stale =>
    \A n \in Sure :
      LET lines == {i \in DOMAIN LsLines : LsLines[i].name = n}
      IN IF told[n] = NoFile
         THEN lines = {}
         ELSE \E i \in lines : lines = {i} /\ LsLines[i].size = Len(told[n])
=============================================================================
