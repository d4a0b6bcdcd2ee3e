-------------------------- MODULE FileSystemProofs --------------------------
(***************************************************************************)
(* What the filesystem keeps, for every size of the inode table, every set *)
(* of names and values and any number of power losses.                     *)
(***************************************************************************)
EXTENDS FileSystem, TLAPS, SequenceTheorems, FiniteSetTheorems, WellFoundedInduction

-----------------------------------------------------------------------------
(* The inductive invariant. *)

RowSecs == InodeSec .. (DataStart - 1)

Writes ==
  {w \in [sector : Sectors, content : UNION {Content(s) : s \in Sectors}] :
     w.content \in Content(w.sector)}

\* The positions in a queue of writes of the superblock, and of table sectors.
Supers(q) == {j \in 1 .. Len(q) : q[j].sector = SuperSec}
Tables(q) == {j \in 1 .. Len(q) : q[j].sector \in RowSecs}

LastSuper(q, j) == j \in Supers(q) /\ \A k \in Supers(q) : k <= j

\* q saves the table t, every sector of it, and if a superblock, in the end s.
Saves(q, t, s) ==
  /\ q \in Seq(Writes)
  /\ Len(q) > 0
  /\ \A j \in Tables(q) : q[j].content = Row(t, q[j].sector - InodeSec)
  /\ \A r \in 0 .. (Rows - 1) : \E j \in 1 .. Len(q) : q[j].sector = InodeSec + r
  /\ \A j \in 1 .. Len(q) : LastSuper(q, j) => q[j].content = s

\* What WriteFile allocates for a file: a first sector, further ones, and where
\* its data starts.
First(i) == IF inodes[i].start = 0 THEN 1 ELSE 0
Extra(k) == IF k = 0 THEN 0 ELSE k - 1
Start(i) == IF inodes[i].start = 0 THEN NextSector ELSE inodes[i].start

\* q saves t and s and fills data sectors with v; the superblocks it writes on
\* the way are ever further ahead, and the last one precedes the table.
SavesFile(q, t, s, v) ==
  /\ Saves(q, t, s)
  /\ s \in Super
  /\ Supers(q) = {} => s = sb
  /\ \A j \in Supers(q) :
       /\ q[j].content.count = sb.count
       /\ sb.used <= q[j].content.used
       /\ \A l \in Supers(q) : j <= l => q[j].content.used <= q[l].content.used
  /\ \A j \in Tables(q) : s = sb \/ \E l \in Supers(q) : l < j /\ q[l].content = s
  /\ \A j \in 1 .. Len(q) : q[j].sector \in DataSecs => q[j].content = v

\* The calls whose end must find the memory on disk.
Engaged == mounted \/ call \in {"Format", "Unmount"}

QueueTyped == todo \in Seq(Writes)

CallKinds ==
  /\ call \in {"idle", "Format", "Unmount", "CreateFile", "DeleteFile", "WriteFile", "disk"}
  /\ call \in {"CreateFile", "DeleteFile", "WriteFile"} => mounted
  /\ call = "disk" => Len(todo) = 1 /\ todo[1].sector \in DataSecs
  /\ call = "Format" => Live(inodes) = {}

\* A table sector still to be written is written as it is in memory.
RowsCarryMemory ==
  \A j \in Tables(todo) : todo[j].content = Row(inodes, todo[j].sector - InodeSec)

\* A sector of the tables that is not as in memory is still to be written, and
\* the last superblock to be written is the one in memory.
WillSync ==
  Engaged =>
    /\ \A r \in 0 .. (Rows - 1) :
         \/ disk[InodeSec + r] = Row(inodes, r)
         \/ \E j \in 1 .. Len(todo) : todo[j].sector = InodeSec + r
    /\ disk[SuperSec] = sb \/ Supers(todo) # {}
    /\ \A j \in 1 .. Len(todo) : LastSuper(todo, j) => todo[j].content = sb

QueueInv == TypeOK /\ QueueTyped /\ CallKinds /\ RowsCarryMemory
SyncInv == QueueInv /\ WillSync

-----------------------------------------------------------------------------
(* Slots, rows and remainders. *)

\* What holds of the queue holds also on a disk that refuses writes.
LEMMA SyncQueue == SyncInv => QueueInv
BY DEF SyncInv

\* Every set of naturals that is not empty has a least element.
LEMMA LeastElement ==
  ASSUME NEW S \in SUBSET Nat, S # {}
  PROVE  \E x \in S : \A y \in S : x <= y
<1>1. PICK x \in S : \A y \in S : ~(<<y, x>> \in OpToRel(<, Nat))
  BY WFMin, NatLessThanWellFounded, Zenon
<1>2. \A y \in S : ~(y < x)
  BY <1>1 DEF OpToRel
<1>3. QED
  BY <1>2

\* Position j of row r is a slot, and says its row and position.
LEMMA SlotOfRow ==
  ASSUME NEW r \in 0 .. (Rows - 1), NEW j \in 0 .. (PerSector - 1)
  PROVE  /\ r * PerSector + j \in Slots
         /\ (r * PerSector + j) \div PerSector = r
         /\ (r * PerSector + j) % PerSector = j
<1>1. r * PerSector + j \in Slots
  BY FileSystemAssumption DEF Slots
<1>2. (r * PerSector + j) \div PerSector = r
  BY FileSystemAssumption
<1>3. (r * PerSector + j) % PerSector = j
  BY FileSystemAssumption
<1>4. QED
  BY <1>1, <1>2, <1>3

\* Every slot is a position of a row.
LEMMA RowOfSlot ==
  ASSUME NEW i \in Slots
  PROVE  /\ i \div PerSector \in 0 .. (Rows - 1)
         /\ i % PerSector \in 0 .. (PerSector - 1)
         /\ (i \div PerSector) * PerSector + (i % PerSector) = i
<1>1. i % PerSector \in 0 .. (PerSector - 1)
  BY FileSystemAssumption DEF Slots
<1>2. (i \div PerSector) * PerSector + (i % PerSector) = i
  BY FileSystemAssumption DEF Slots
<1>3. i \div PerSector \in 0 .. (Rows - 1)
  BY FileSystemAssumption DEF Slots
<1>4. QED
  BY <1>1, <1>2, <1>3

\* The remainder of a multiple and a rest is the rest.
LEMMA ModUnique ==
  ASSUME NEW c \in Nat \ {0}, NEW q \in Int, NEW r \in 0 .. (c - 1)
  PROVE  (c * q + r) % c = r
  OBVIOUS

\* A remainder counts on and back as the number it is the remainder of.
LEMMA ModNext ==
  ASSUME NEW a \in Int, NEW c \in Nat \ {0, 1}
  PROVE  /\ a % c \in 0 .. (c - 1)
         /\ ((a % c) + 1) % c = (a + 1) % c
         /\ ((a % c) - 1) % c = (a - 1) % c
<1> DEFINE q == a \div c
           r == a % c
<1>1. r \in 0 .. (c - 1) /\ q \in Int /\ a = c * q + r
  OBVIOUS
<1>2. (r + 1) % c = (a + 1) % c
  <2>1. CASE r + 1 < c
    <3>1. r + 1 \in 0 .. (c - 1) /\ a + 1 = c * q + (r + 1)
      BY <1>1, <2>1
    <3>2. (c * q + (r + 1)) % c = r + 1
      BY <1>1, <3>1, ModUnique
    <3>3. (c * 0 + (r + 1)) % c = r + 1
      BY <3>1, ModUnique
    <3>4. c * 0 + (r + 1) = r + 1
      BY <1>1
    <3>5. QED
      BY <3>1, <3>2, <3>3, <3>4
  <2>2. CASE r + 1 = c
    <3>1. a + 1 = c * (q + 1) + 0 /\ r + 1 = c * 1 + 0 /\ 0 \in 0 .. (c - 1)
      BY <1>1, <2>2
    <3>2. (c * (q + 1) + 0) % c = 0
      BY <1>1, <3>1, ModUnique
    <3>3. (c * 1 + 0) % c = 0
      BY <3>1, ModUnique
    <3>4. QED
      BY <3>1, <3>2, <3>3
  <2>3. QED
    BY <1>1, <2>1, <2>2
<1>3. (r - 1) % c = (a - 1) % c
  <2>1. CASE r > 0
    <3>1. r - 1 \in 0 .. (c - 1) /\ a - 1 = c * q + (r - 1)
      BY <1>1, <2>1
    <3>2. (c * q + (r - 1)) % c = r - 1
      BY <1>1, <3>1, ModUnique
    <3>3. (c * 0 + (r - 1)) % c = r - 1
      BY <3>1, ModUnique
    <3>4. c * 0 + (r - 1) = r - 1
      BY <1>1
    <3>5. QED
      BY <3>1, <3>2, <3>3, <3>4
  <2>2. CASE r = 0
    <3> DEFINE p == q - 1
               m == 0 - 1
    <3>1. p \in Int /\ m \in Int /\ c - 1 \in 0 .. (c - 1)
      BY <1>1
    <3>2. a - 1 = c * p + (c - 1)
      BY <1>1, <2>2
    <3>3. r - 1 = c * m + (c - 1)
      BY <1>1, <2>2
    <3>4. (c * p + (c - 1)) % c = c - 1
      BY <3>1, ModUnique
    <3>5. (c * m + (c - 1)) % c = c - 1
      BY <3>1, ModUnique
    <3>6. QED
      BY <3>2, <3>3, <3>4, <3>5
  <2>3. QED
    BY <1>1, <2>1, <2>2
<1>4. QED
  BY <1>1, <1>2, <1>3

-----------------------------------------------------------------------------
(* The queues of writes. *)

\* A row of a typed table is what a table sector may hold.
LEMMA RowTyped ==
  ASSUME NEW t \in [Slots -> Inode], NEW r \in 0 .. (Rows - 1)
  PROVE  /\ InodeSec + r \in RowSecs
         /\ InodeSec + r \in Sectors
         /\ InodeSec + r # SuperSec
         /\ InodeSec + r \notin DataSecs
         /\ Row(t, r) \in Content(InodeSec + r)
<1>1. /\ InodeSec + r \in RowSecs
      /\ InodeSec + r \in Sectors
      /\ InodeSec + r # SuperSec
      /\ InodeSec + r \notin DataSecs
      /\ InodeSec + r < DataStart
  BY FileSystemAssumption DEF RowSecs, InodeSec, DataStart, Sectors, SuperSec, DataSecs
<1>2. Row(t, r) \in [0 .. (PerSector - 1) -> Inode]
  BY SlotOfRow DEF Row
<1>3. QED
  BY <1>1, <1>2 DEF Content

\* Saving the superblock.
LEMMA SaveSuperWrites ==
  ASSUME NEW s \in Super
  PROVE  /\ SaveSuper(s) \in Seq(Writes)
         /\ Len(SaveSuper(s)) = 1
         /\ SaveSuper(s)[1] = [sector |-> SuperSec, content |-> s]
         /\ [sector |-> SuperSec, content |-> s] \in Writes
<1>1. SuperSec \in Sectors /\ Content(SuperSec) = Super
  BY FileSystemAssumption DEF SuperSec, Sectors, DataStart, InodeSec, Content
<1>2. [sector |-> SuperSec, content |-> s] \in Writes
  BY <1>1 DEF Writes
<1>3. QED
  BY <1>2 DEF SaveSuper

\* Saving the table: sector after sector.
LEMMA SaveTableWrites ==
  ASSUME NEW t \in [Slots -> Inode]
  PROVE  /\ SaveTable(t) \in Seq(Writes)
         /\ Len(SaveTable(t)) = Rows
         /\ \A r \in 1 .. Rows :
              SaveTable(t)[r] = [sector |-> InodeSec + (r - 1), content |-> Row(t, r - 1)]
<1>1. \A r \in 1 .. Rows :
        SaveTable(t)[r] = [sector |-> InodeSec + (r - 1), content |-> Row(t, r - 1)]
  BY FileSystemAssumption DEF SaveTable, InodeSec
<1>2. ASSUME NEW r \in 1 .. Rows
      PROVE  [sector |-> InodeSec + (r - 1), content |-> Row(t, r - 1)] \in Writes
  <2>1. r - 1 \in 0 .. (Rows - 1)
    BY FileSystemAssumption
  <2>2. /\ InodeSec + (r - 1) \in Sectors
        /\ Row(t, r - 1) \in Content(InodeSec + (r - 1))
    BY <2>1, RowTyped
  <2>3. QED
    BY <2>2 DEF Writes
<1>3. SaveTable(t) \in [1 .. Rows -> Writes]
  BY <1>1, <1>2 DEF SaveTable
<1>4. SaveTable(t) \in Seq(Writes) /\ Len(SaveTable(t)) = Rows
  BY <1>3, FileSystemAssumption
<1>5. QED
  BY <1>1, <1>4

\* What stands where in two queues one after the other.
LEMMA WritesConcat ==
  ASSUME NEW A \in Seq(Writes), NEW B \in Seq(Writes)
  PROVE  /\ A \o B \in Seq(Writes)
         /\ Len(A) \in Nat /\ Len(B) \in Nat
         /\ Len(A \o B) = Len(A) + Len(B)
         /\ \A i \in 1 .. Len(A) : (A \o B)[i] = A[i]
         /\ \A i \in 1 .. Len(B) : (A \o B)[Len(A) + i] = B[i]
<1>1. Len(A) \in Nat /\ Len(B) \in Nat
  BY LenProperties
<1>2. /\ A \o B \in Seq(Writes)
      /\ Len(A \o B) = Len(A) + Len(B)
      /\ \A i \in 1 .. Len(A) + Len(B) :
           (A \o B)[i] = IF i <= Len(A) THEN A[i] ELSE B[i - Len(A)]
  BY ConcatProperties
<1>3. \A i \in 1 .. Len(A) : (A \o B)[i] = A[i]
  BY <1>1, <1>2
<1>4. \A i \in 1 .. Len(B) : (A \o B)[Len(A) + i] = B[i]
  <2>1. TAKE i \in 1 .. Len(B)
  <2>2. /\ Len(A) + i \in 1 .. Len(A) + Len(B)
        /\ ~(Len(A) + i <= Len(A))
        /\ (Len(A) + i) - Len(A) = i
    BY <1>1
  <2>3. QED
    BY <1>2, <2>2
<1>5. QED
  BY <1>1, <1>2, <1>3, <1>4

\* Format and Unmount: the superblock, then the table.
LEMMA SuperThenTable ==
  ASSUME NEW s \in Super, NEW t \in [Slots -> Inode]
  PROVE  LET q == SaveSuper(s) \o SaveTable(t) IN
         /\ Saves(q, t, s)
         /\ Len(q) = Rows + 1
         /\ Supers(q) = {1}
         /\ q[1].content = s
         /\ \A j \in 1 .. Len(q) : q[j].sector \notin DataSecs
<1> DEFINE q == SaveSuper(s) \o SaveTable(t)
<1> HIDE DEF q
<1>1. /\ q \in Seq(Writes)
      /\ Len(q) = Rows + 1
      /\ q[1] = [sector |-> SuperSec, content |-> s]
      /\ \A j \in 2 .. (Rows + 1) :
           q[j] = [sector |-> InodeSec + (j - 2), content |-> Row(t, j - 2)]
  <2> DEFINE A == SaveSuper(s)
             B == SaveTable(t)
  <2>1. /\ A \in Seq(Writes) /\ Len(A) = 1
        /\ A[1] = [sector |-> SuperSec, content |-> s]
    BY SaveSuperWrites
  <2>2. /\ B \in Seq(Writes) /\ Len(B) = Rows
        /\ \A r \in 1 .. Rows : B[r] = [sector |-> InodeSec + (r - 1), content |-> Row(t, r - 1)]
    BY SaveTableWrites
  <2> HIDE DEF A, B
  <2>3. /\ A \o B \in Seq(Writes)
        /\ Len(A \o B) = 1 + Rows
        /\ (A \o B)[1] = A[1]
        /\ \A i \in 1 .. Rows : (A \o B)[1 + i] = B[i]
    <3>1. /\ A \o B \in Seq(Writes)
          /\ Len(A \o B) = Len(A) + Len(B)
          /\ \A i \in 1 .. Len(A) : (A \o B)[i] = A[i]
          /\ \A i \in 1 .. Len(B) : (A \o B)[Len(A) + i] = B[i]
      BY <2>1, <2>2, WritesConcat
    <3>2. QED
      BY <2>1, <2>2, <3>1, FileSystemAssumption
  <2>4. q = A \o B
    BY DEF A, B, q
  <2>5. ASSUME NEW j \in 2 .. (Rows + 1)
        PROVE  q[j] = [sector |-> InodeSec + (j - 2), content |-> Row(t, j - 2)]
    <3>1. j - 1 \in 1 .. Rows /\ (j - 1) - 1 = j - 2 /\ 1 + (j - 1) = j
      BY FileSystemAssumption
    <3>2. q[j] = B[j - 1]
      BY <2>3, <2>4, <3>1
    <3>3. QED
      BY <2>2, <3>1, <3>2
  <2>6. 1 + Rows = Rows + 1
    BY FileSystemAssumption
  <2>7. QED
    BY <2>1, <2>3, <2>4, <2>5, <2>6
<1>2. ASSUME NEW j \in 2 .. (Rows + 1)
      PROVE
        /\ j - 2 \in 0 .. (Rows - 1)
        /\ q[j].sector = InodeSec + (j - 2)
        /\ q[j].sector - InodeSec = j - 2
        /\ q[j].content = Row(t, j - 2)
        /\ q[j].sector \in RowSecs
        /\ q[j].sector # SuperSec
        /\ q[j].sector \notin DataSecs
  <2>1. j - 2 \in 0 .. (Rows - 1)
    BY FileSystemAssumption
  <2>2. q[j] = [sector |-> InodeSec + (j - 2), content |-> Row(t, j - 2)]
    BY <1>1
  <2>3. (InodeSec + (j - 2)) - InodeSec = j - 2
    BY <2>1 DEF InodeSec
  <2>4. QED
    BY <2>1, <2>2, <2>3, RowTyped
<1>3. q[1].sector = SuperSec /\ SuperSec \notin RowSecs /\ SuperSec \notin DataSecs
  BY <1>1, FileSystemAssumption DEF SuperSec, RowSecs, InodeSec, DataSecs, DataStart
<1>4. Supers(q) = {1} /\ Tables(q) = 2 .. (Rows + 1)
  BY <1>1, <1>2, <1>3, FileSystemAssumption DEF Supers, Tables
<1>5. ASSUME NEW r \in 0 .. (Rows - 1)
      PROVE  \E j \in 1 .. Len(q) : q[j].sector = InodeSec + r
  <2>1. r + 2 \in 2 .. (Rows + 1) /\ r + 2 \in 1 .. (Rows + 1) /\ (r + 2) - 2 = r
    BY FileSystemAssumption
  <2>2. QED
    BY <1>1, <1>2, <2>1
<1>6. Saves(q, t, s)
  BY <1>1, <1>2, <1>4, <1>5, FileSystemAssumption DEF Saves, LastSuper
<1>7. \A j \in 1 .. Len(q) : q[j].sector \notin DataSecs
  BY <1>1, <1>2, <1>3, FileSystemAssumption
<1>8. QED
  BY <1>1, <1>4, <1>6, <1>7 DEF q

\* CreateFile and DeleteFile: the table, then the superblock.
LEMMA TableThenSuper ==
  ASSUME NEW s \in Super, NEW t \in [Slots -> Inode]
  PROVE  LET q == SaveTable(t) \o SaveSuper(s) IN
         /\ Saves(q, t, s)
         /\ Len(q) = Rows + 1
         /\ Supers(q) = {Rows + 1}
         /\ q[Rows + 1].content = s
         /\ \A j \in 1 .. Len(q) : q[j].sector \notin DataSecs
<1> DEFINE q == SaveTable(t) \o SaveSuper(s)
<1> HIDE DEF q
<1>1. /\ q \in Seq(Writes)
      /\ Len(q) = Rows + 1
      /\ q[Rows + 1] = [sector |-> SuperSec, content |-> s]
      /\ \A j \in 1 .. Rows :
           q[j] = [sector |-> InodeSec + (j - 1), content |-> Row(t, j - 1)]
  <2> DEFINE A == SaveTable(t)
             B == SaveSuper(s)
  <2>1. /\ B \in Seq(Writes) /\ Len(B) = 1
        /\ B[1] = [sector |-> SuperSec, content |-> s]
    BY SaveSuperWrites
  <2>2. /\ A \in Seq(Writes) /\ Len(A) = Rows
        /\ \A r \in 1 .. Rows : A[r] = [sector |-> InodeSec + (r - 1), content |-> Row(t, r - 1)]
    BY SaveTableWrites
  <2> HIDE DEF A, B
  <2>3. /\ A \o B \in Seq(Writes)
        /\ Len(A \o B) = Rows + 1
        /\ (A \o B)[Rows + 1] = B[1]
        /\ \A i \in 1 .. Rows : (A \o B)[i] = A[i]
    <3>1. /\ A \o B \in Seq(Writes)
          /\ Len(A \o B) = Len(A) + Len(B)
          /\ \A i \in 1 .. Len(A) : (A \o B)[i] = A[i]
          /\ \A i \in 1 .. Len(B) : (A \o B)[Len(A) + i] = B[i]
      BY <2>1, <2>2, WritesConcat
    <3>2. QED
      BY <2>1, <2>2, <3>1, FileSystemAssumption
  <2>4. q = A \o B
    BY DEF A, B, q
  <2>5. QED
    BY <2>1, <2>2, <2>3, <2>4
<1>2. ASSUME NEW j \in 1 .. Rows
      PROVE
        /\ j - 1 \in 0 .. (Rows - 1)
        /\ q[j].sector = InodeSec + (j - 1)
        /\ q[j].sector - InodeSec = j - 1
        /\ q[j].content = Row(t, j - 1)
        /\ q[j].sector \in RowSecs
        /\ q[j].sector # SuperSec
        /\ q[j].sector \notin DataSecs
  <2>1. j - 1 \in 0 .. (Rows - 1)
    BY FileSystemAssumption
  <2>2. q[j] = [sector |-> InodeSec + (j - 1), content |-> Row(t, j - 1)]
    BY <1>1
  <2>3. (InodeSec + (j - 1)) - InodeSec = j - 1
    BY <2>1 DEF InodeSec
  <2>4. QED
    BY <2>1, <2>2, <2>3, RowTyped
<1>3. /\ q[Rows + 1].sector = SuperSec
      /\ SuperSec \notin RowSecs /\ SuperSec \notin DataSecs
  BY <1>1, FileSystemAssumption DEF SuperSec, RowSecs, InodeSec, DataSecs, DataStart
<1>4. Supers(q) = {Rows + 1} /\ Tables(q) = 1 .. Rows
  BY <1>1, <1>2, <1>3, FileSystemAssumption DEF Supers, Tables
<1>5. ASSUME NEW r \in 0 .. (Rows - 1)
      PROVE  \E j \in 1 .. Len(q) : q[j].sector = InodeSec + r
  <2>1. r + 1 \in 1 .. Rows /\ r + 1 \in 1 .. (Rows + 1) /\ (r + 1) - 1 = r
    BY FileSystemAssumption
  <2>2. QED
    BY <1>1, <1>2, <2>1
<1>6. Saves(q, t, s)
  BY <1>1, <1>2, <1>4, <1>5, FileSystemAssumption DEF Saves, LastSuper
<1>7. \A j \in 1 .. Len(q) : q[j].sector \notin DataSecs
  BY <1>1, <1>2, <1>3, FileSystemAssumption
<1>8. QED
  BY <1>1, <1>4, <1>6, <1>7 DEF q

\* The loop of WriteFile: data sectors, and between them superblocks with ever
\* more sectors allocated.
LEMMA BlockWrites ==
  ASSUME sb \in Super, NEW start \in Nat, NEW v \in Values,
         NEW k \in Nat \ {0}, NEW before \in {0, 1},
         start \in DataSecs, start + (k - 1) \in DataSecs, sb.used + before + (k - 1) \in 0 .. MaxUsed
  PROVE  /\ WriteBlocks(start, v, k, before) \in Seq(Writes)
         /\ Len(WriteBlocks(start, v, k, before)) = 2 * k - 1
<1> DEFINE B == WriteBlocks(start, v, k, before)
           odd(m) == [sector |-> start + m, content |-> v]
           even(m) == [sector |-> SuperSec, content |-> Allocated(before + m)]
<1>1. k \in Nat /\ MaxUsed \in Nat /\ start \in Nat
  BY FileSystemAssumption DEF DataSecs, DataStart, InodeSec
<1>2. ASSUME NEW m \in 0 .. (k - 1)
      PROVE  odd(m) \in Writes
  <2>1. start + m \in DataSecs
    BY <1>1, FileSystemAssumption DEF DataSecs, DataStart, InodeSec
  <2>2. start + m \in Sectors /\ v \in Content(start + m)
    BY <2>1, <1>1, FileSystemAssumption, SMTT(30)
       DEF DataSecs, DataStart, InodeSec, Sectors, Content, SuperSec
  <2>3. QED
    BY <2>2 DEF Writes
<1>3. ASSUME NEW m \in 1 .. (k - 1)
      PROVE  even(m) \in Writes
  <2>1. sb.used \in Nat /\ before \in Nat
    BY DEF Super
  <2>2. sb.used + (before + m) \in 0 .. MaxUsed
    BY <2>1, <1>1
  <2>3. Allocated(before + m) \in Super
    BY <2>2 DEF Allocated, Super
  <2>4. QED
    BY <2>3, SaveSuperWrites
<1>4. B = [j \in 1 .. (2 * k - 1) |-> IF j % 2 = 1 THEN odd(j \div 2) ELSE even(j \div 2)]
  BY DEF WriteBlocks
<1> HIDE DEF B, odd, even
<1>5. ASSUME NEW j \in 1 .. (2 * k - 1)
      PROVE  B[j] \in Writes
  <2>1. CASE j % 2 = 1
    <3>1. j \div 2 \in 0 .. (k - 1)
      BY <1>1
    <3>2. QED
      BY <1>2, <1>4, <2>1, <3>1
  <2>2. CASE j % 2 # 1
    <3>1. j \div 2 \in 1 .. (k - 1)
      BY <1>1, <2>2
    <3>2. QED
      BY <1>3, <1>4, <2>2, <3>1
  <2>3. QED
    BY <2>1, <2>2
<1>6. B \in [1 .. (2 * k - 1) -> Writes]
  BY <1>4, <1>5
<1>7. B \in Seq(Writes) /\ Len(B) = 2 * k - 1
  BY <1>1, <1>6
<1>8. QED
  BY <1>7 DEF B

\* Where the writes of WriteFile stand: superblocks and data sectors take
\* turns, and the table comes after them.
LEMMA FileWritesAt ==
  ASSUME sb \in Super, NEW first \in {0, 1}, NEW start \in DataSecs,
         NEW v \in Values, NEW k \in Sizes, NEW t \in [Slots -> Inode],
         start + Extra(k) \in DataSecs, sb.used + first + Extra(k) \in 0 .. MaxUsed
  PROVE  LET q == FileWrites(first, start, v, k, t)
             n == first + (IF k = 0 THEN 0 ELSE 2 * k - 1)
         IN  /\ q \in Seq(Writes)
             /\ Len(q) = n + Rows
             /\ \A j \in 1 .. n :
                  q[j] = IF (j - first) % 2 = 1
                         THEN [sector |-> start + ((j - first) \div 2), content |-> v]
                         ELSE [sector |-> SuperSec,
                               content |-> Allocated(first + ((j - first) \div 2))]
             /\ \A j \in (n + 1) .. (n + Rows) :
                  q[j] = [sector |-> InodeSec + (j - n - 1), content |-> Row(t, j - n - 1)]
<1> DEFINE A == IF first = 1 THEN SaveSuper(Allocated(1)) ELSE << >>
           B == WriteBlocks(start, v, k, first)
           C == SaveTable(t)
           extra == Extra(k)
           b == IF k = 0 THEN 0 ELSE 2 * k - 1
           n == first + b
           q == FileWrites(first, start, v, k, t)
<1>1. /\ k \in Nat /\ extra \in Nat /\ b \in Nat /\ n \in Nat /\ Rows \in Nat /\ first \in Nat
      /\ extra = IF k = 0 THEN 0 ELSE k - 1
  BY FileSystemAssumption DEF Extra
<1>2. /\ A \in Seq(Writes) /\ Len(A) = first
      /\ first = 1 => A[1] = [sector |-> SuperSec, content |-> Allocated(1)]
  <2>1. CASE first = 0
    <3>1. A = << >>
      BY <2>1
    <3>2. QED
      BY <2>1, <3>1, EmptySeq
  <2>2. CASE first = 1
    <3>1. sb.used \in Nat /\ sb.used + 1 \in 0 .. MaxUsed
      BY <1>1, <2>2, FileSystemAssumption DEF Super
    <3>2. Allocated(1) \in Super
      BY <3>1 DEF Allocated, Super
    <3>3. A = SaveSuper(Allocated(1))
      BY <2>2
    <3>4. QED
      BY <2>2, <3>2, <3>3, SaveSuperWrites
  <2>3. QED
    BY <2>1, <2>2
<1>3. /\ B \in Seq(Writes) /\ Len(B) = b
      /\ \A j \in 1 .. b :
           B[j] = IF j % 2 = 1
                  THEN [sector |-> start + (j \div 2), content |-> v]
                  ELSE [sector |-> SuperSec, content |-> Allocated(first + (j \div 2))]
  <2>1. CASE k = 0
    <3>1. B \in [1 .. 0 -> Writes]
      BY <2>1 DEF WriteBlocks
    <3>2. B \in Seq(Writes) /\ Len(B) = 0
      BY <3>1
    <3>3. QED
      BY <2>1, <3>2
  <2>2. CASE k > 0
    <3>1. /\ k \in Nat \ {0} /\ start \in Nat
          /\ extra = k - 1 /\ b = 2 * k - 1
          /\ start + (k - 1) \in DataSecs
          /\ sb.used + first + (k - 1) \in 0 .. MaxUsed
      BY <1>1, <2>2, FileSystemAssumption DEF DataSecs, DataStart, InodeSec
    <3>2. B \in Seq(Writes) /\ Len(B) = 2 * k - 1
      BY <3>1, BlockWrites
    <3>3. QED
      BY <3>1, <3>2 DEF WriteBlocks
  <2>3. k = 0 \/ k > 0
    BY <1>1
  <2>4. QED
    BY <2>1, <2>2, <2>3, Zenon
<1>4. /\ C \in Seq(Writes) /\ Len(C) = Rows
      /\ \A r \in 1 .. Rows :
           C[r] = [sector |-> InodeSec + (r - 1), content |-> Row(t, r - 1)]
  BY SaveTableWrites
<1>5. q = (A \o B) \o C
  BY DEF FileWrites
<1>6. /\ A \o B \in Seq(Writes)
      /\ Len(A \o B) = Len(A) + Len(B)
      /\ \A i \in 1 .. Len(A) : (A \o B)[i] = A[i]
      /\ \A i \in 1 .. Len(B) : (A \o B)[Len(A) + i] = B[i]
  <2> HIDE DEF A, B
  <2>1. QED
    BY <1>2, <1>3, WritesConcat
<1>7. Len(A \o B) = n
  BY <1>2, <1>3, <1>6
<1>8. /\ q \in Seq(Writes)
      /\ Len(q) = Len(A \o B) + Len(C)
      /\ \A i \in 1 .. Len(A \o B) : q[i] = (A \o B)[i]
      /\ \A i \in 1 .. Len(C) : q[Len(A \o B) + i] = C[i]
  <2> DEFINE AB == A \o B
  <2>1. AB \in Seq(Writes)
    BY <1>6
  <2> HIDE DEF A, B, C, AB, q
  <2>2. /\ AB \o C \in Seq(Writes)
        /\ Len(AB \o C) = Len(AB) + Len(C)
        /\ \A i \in 1 .. Len(AB) : (AB \o C)[i] = AB[i]
        /\ \A i \in 1 .. Len(C) : (AB \o C)[Len(AB) + i] = C[i]
    BY <1>4, <2>1, WritesConcat
  <2>3. q = AB \o C
    BY <1>5 DEF AB
  <2>4. QED
    BY <2>2, <2>3 DEF AB
<1> HIDE DEF A, B, C, q
<1>9. ASSUME NEW j \in 1 .. n
      PROVE  q[j] = IF (j - first) % 2 = 1
                    THEN [sector |-> start + ((j - first) \div 2), content |-> v]
                    ELSE [sector |-> SuperSec,
                          content |-> Allocated(first + ((j - first) \div 2))]
  <2>1. q[j] = (A \o B)[j]
    BY <1>7, <1>8
  <2>2. CASE j <= first
    <3>1. j = 1 /\ first = 1 /\ j \in 1 .. first
      BY <1>1, <2>2
    <3>2. q[1] = [sector |-> SuperSec, content |-> Allocated(1)]
      BY <1>2, <1>6, <2>1, <3>1
    <3>3. (j - first) % 2 # 1 /\ first + ((j - first) \div 2) = 1
      BY <3>1
    <3>4. QED
      BY <3>1, <3>2, <3>3
  <2>3. CASE ~(j <= first)
    <3>1. j - first \in 1 .. b /\ first + (j - first) = j
      BY <1>1, <2>3
    <3>2. q[j] = B[j - first]
      BY <1>2, <1>3, <1>6, <2>1, <3>1
    <3> HIDE DEF b
    <3>3. QED
      BY <1>3, <3>1, <3>2
  <2>4. QED
    BY <2>2, <2>3
<1>10. ASSUME NEW j \in (n + 1) .. (n + Rows)
       PROVE  q[j] = [sector |-> InodeSec + (j - n - 1), content |-> Row(t, j - n - 1)]
  <2> HIDE DEF n
  <2>1. j - n \in 1 .. Rows /\ n + (j - n) = j
    BY <1>1
  <2>2. q[j] = C[j - n]
    BY <1>4, <1>7, <1>8, <2>1
  <2>3. QED
    BY <1>4, <2>1, <2>2
<1>11. QED
  BY <1>4, <1>7, <1>8, <1>9, <1>10 DEF q

\* WriteFile saves the table, the data, and the superblock ahead of the table.
LEMMA FileWritesSave ==
  ASSUME sb \in Super, NEW first \in {0, 1}, NEW start \in DataSecs,
         NEW v \in Values, NEW k \in Sizes, NEW t \in [Slots -> Inode],
         start + Extra(k) \in DataSecs, sb.used + first + Extra(k) \in 0 .. MaxUsed
  PROVE  SavesFile(FileWrites(first, start, v, k, t), t, Allocated(first + Extra(k)), v)
<1> DEFINE q == FileWrites(first, start, v, k, t)
           extra == Extra(k)
           s == Allocated(first + extra)
           b == IF k = 0 THEN 0 ELSE 2 * k - 1
           n == first + b
           half(j) == (j - first) \div 2
<1>1. /\ k \in Nat /\ extra \in Nat /\ b \in Nat /\ n \in Nat
      /\ Rows \in Nat \ {0} /\ first \in Nat /\ sb.used \in Nat
      /\ extra = IF k = 0 THEN 0 ELSE k - 1
      /\ start + extra \in DataSecs
      /\ sb.used + first + extra \in 0 .. MaxUsed
  BY FileSystemAssumption DEF Super, Extra
<1>2. /\ q \in Seq(Writes)
      /\ Len(q) = n + Rows
      /\ \A j \in 1 .. n :
           q[j] = IF (j - first) % 2 = 1
                  THEN [sector |-> start + half(j), content |-> v]
                  ELSE [sector |-> SuperSec, content |-> Allocated(first + half(j))]
      /\ \A j \in (n + 1) .. (n + Rows) :
           q[j] = [sector |-> InodeSec + (j - n - 1), content |-> Row(t, j - n - 1)]
  BY FileWritesAt
<1> HIDE DEF q, extra
<1>3. ASSUME NEW m \in 0 .. (first + extra)
      PROVE  /\ Allocated(m) \in Super
             /\ Allocated(m).used = sb.used + m
             /\ Allocated(m).count = sb.count
  <2>1. sb.used + m \in 0 .. MaxUsed
    BY <1>1, FileSystemAssumption
  <2>2. QED
    BY <2>1 DEF Allocated, Super
<1>4. ASSUME NEW j \in (n + 1) .. (n + Rows)
      PROVE  /\ j - n - 1 \in 0 .. (Rows - 1)
             /\ q[j].sector = InodeSec + (j - n - 1)
             /\ q[j].sector - InodeSec = j - n - 1
             /\ q[j].content = Row(t, j - n - 1)
             /\ q[j].sector \in RowSecs
             /\ q[j].sector # SuperSec
             /\ q[j].sector \notin DataSecs
  <2> HIDE DEF n
  <2>1. j - n - 1 \in 0 .. (Rows - 1)
    BY <1>1
  <2>2. q[j] = [sector |-> InodeSec + (j - n - 1), content |-> Row(t, j - n - 1)]
    BY <1>2
  <2>3. (InodeSec + (j - n - 1)) - InodeSec = j - n - 1
    BY <2>1 DEF InodeSec
  <2>4. QED
    BY <2>1, <2>2, <2>3, RowTyped
<1>5. SuperSec \notin RowSecs /\ SuperSec \notin DataSecs /\ RowSecs \cap DataSecs = {}
  BY FileSystemAssumption DEF SuperSec, RowSecs, InodeSec, DataSecs, DataStart
<1>6. ASSUME NEW j \in 1 .. n, (j - first) % 2 = 1
      PROVE  /\ q[j].sector \in DataSecs
             /\ q[j].sector # SuperSec
             /\ q[j].sector \notin RowSecs
             /\ q[j].content = v
  <2>1. half(j) \in 0 .. extra
    BY <1>1, <1>6
  <2>2. start + half(j) \in DataSecs
    BY <1>1, <2>1, FileSystemAssumption DEF DataSecs, DataStart, InodeSec
  <2>3. q[j] = [sector |-> start + half(j), content |-> v]
    BY <1>2, <1>6
  <2>4. QED
    BY <1>5, <2>2, <2>3
<1>7. ASSUME NEW j \in 1 .. n, (j - first) % 2 # 1
      PROVE  /\ half(j) \in 0 .. extra
             /\ first + half(j) \in 0 .. (first + extra)
             /\ q[j].sector = SuperSec
             /\ q[j].content = Allocated(first + half(j))
  <2>1. half(j) \in 0 .. extra
    BY <1>1, <1>7
  <2>2. q[j] = [sector |-> SuperSec, content |-> Allocated(first + half(j))]
    BY <1>2, <1>7
  <2>3. QED
    BY <1>1, <2>1, <2>2
<1>8. 1 .. Len(q) = (1 .. n) \cup ((n + 1) .. (n + Rows))
  <2> HIDE DEF n
  <2>1. QED
    BY <1>1, <1>2
<1>9. Supers(q) = {j \in 1 .. n : (j - first) % 2 # 1}
  BY <1>4, <1>6, <1>7, <1>8 DEF Supers
<1>10. Tables(q) = (n + 1) .. (n + Rows)
  BY <1>4, <1>5, <1>6, <1>7, <1>8 DEF Tables
<1>11. \A j \in Supers(q) :
         /\ half(j) \in 0 .. extra
         /\ j = first + 2 * half(j)
         /\ q[j].content = Allocated(first + half(j))
         /\ q[j].content.count = sb.count
         /\ q[j].content.used = sb.used + (first + half(j))
  <2>1. TAKE j \in Supers(q)
  <2>2. j \in 1 .. n /\ (j - first) % 2 # 1
    BY <1>9
  <2>3. j = first + 2 * half(j)
    BY <1>1, <2>2
  <2> HIDE DEF half, n
  <2>4. QED
    BY <1>3, <1>7, <2>2, <2>3
<1>12. \/ s = sb /\ Supers(q) = {}
       \/ \E l \in Supers(q) :
            /\ l <= n
            /\ q[l].content = s
            /\ \A j \in Supers(q) : j <= l
  <2>1. CASE first + extra = 0
    <3>1. s = [sb EXCEPT !.used = sb.used + 0] /\ sb.used + 0 = sb.used
      BY <1>1, <2>1 DEF Allocated
    <3>2. s = sb
      BY <3>1 DEF Super
    <3>3. first = 0 /\ extra = 0 /\ n \in {0, 1}
      BY <1>1, <2>1
    <3>4. Supers(q) = {}
      BY <1>9, <3>3
    <3>5. QED
      BY <3>2, <3>4
  <2>2. CASE first + extra > 0
    <3> DEFINE l == first + 2 * extra
    <3>1. l \in 1 .. n /\ (l - first) % 2 # 1 /\ half(l) = extra
      BY <1>1, <2>2
    <3>2. l \in Supers(q) /\ q[l].content = s
      BY <1>7, <1>9, <3>1
    <3>3. \A j \in Supers(q) : j <= l
      <4>1. TAKE j \in Supers(q)
      <4>2. half(j) \in 0 .. extra /\ j = first + 2 * half(j)
        BY <1>11
      <4>3. QED
        BY <1>1, <4>2
    <3>4. l <= n
      BY <1>1, <3>1
    <3> HIDE DEF l
    <3>5. QED
      BY <3>2, <3>3, <3>4
  <2>3. QED
    BY <1>1, <2>1, <2>2
<1>13. Supers(q) = {} => s = sb
  BY <1>12
<1>14. s \in Super
  <2>1. first + extra \in 0 .. (first + extra)
    BY <1>1
  <2>2. QED
    BY <1>3, <2>1
<1>15. \A j \in Supers(q) :
         /\ q[j].content.count = sb.count
         /\ sb.used <= q[j].content.used
         /\ \A i \in Supers(q) : j <= i => q[j].content.used <= q[i].content.used
  <2>1. TAKE j \in Supers(q)
  <2>2. sb.used <= q[j].content.used
    <3>1. half(j) \in 0 .. extra /\ q[j].content.used = sb.used + (first + half(j))
      BY <1>11
    <3> HIDE DEF half
    <3>2. QED
      BY <1>1, <3>1
  <2>3. ASSUME NEW i \in Supers(q), j <= i
        PROVE  q[j].content.used <= q[i].content.used
    <3>1. /\ half(j) \in 0 .. extra /\ j = first + 2 * half(j)
          /\ half(i) \in 0 .. extra /\ i = first + 2 * half(i)
          /\ q[j].content.used = sb.used + (first + half(j))
          /\ q[i].content.used = sb.used + (first + half(i))
      BY <1>11
    <3> HIDE DEF half
    <3>2. QED
      BY <1>1, <2>3, <3>1
  <2>4. QED
    BY <1>11, <2>2, <2>3
<1>16. \A j \in Tables(q) : s = sb \/ \E i \in Supers(q) : i < j /\ q[i].content = s
  <2>1. TAKE j \in Tables(q)
  <2>2. CASE s = sb
    BY <2>2
  <2>3. CASE s # sb
    <3>1. PICK l \in Supers(q) : l <= n /\ q[l].content = s
      BY <1>12, <2>3
    <3>2. l \in Nat /\ j \in Nat /\ n < j
      BY <1>1, <1>9, <1>10, SMTT(30)
    <3>3. l < j
      BY <1>1, <3>1, <3>2
    <3>4. QED
      BY <3>1, <3>3
  <2>4. QED
    BY <2>2, <2>3
<1>17. \A j \in 1 .. Len(q) : q[j].sector \in DataSecs => q[j].content = v
  BY <1>4, <1>5, <1>6, <1>7, <1>8
<1>18. Saves(q, t, s)
  <2>1. Len(q) > 0
    BY <1>1, <1>2
  <2>2. \A j \in Tables(q) : q[j].content = Row(t, q[j].sector - InodeSec)
    BY <1>4, <1>10
  <2>3. ASSUME NEW r \in 0 .. (Rows - 1)
        PROVE  \E j \in 1 .. Len(q) : q[j].sector = InodeSec + r
    <3>1. /\ n + r + 1 \in (n + 1) .. (n + Rows)
          /\ n + r + 1 \in 1 .. Len(q)
          /\ (n + r + 1) - n - 1 = r
      <4> HIDE DEF n
      <4>1. QED
        BY <1>1, <1>2
    <3>2. QED
      BY <1>4, <3>1
  <2>4. ASSUME NEW j \in 1 .. Len(q), LastSuper(q, j)
        PROVE  q[j].content = s
    <3>1. j \in Supers(q) /\ \A i \in Supers(q) : i <= j
      BY <2>4 DEF LastSuper
    <3>2. PICK l \in Supers(q) : q[l].content = s /\ \A i \in Supers(q) : i <= l
      BY <1>12, <3>1
    <3>3. j \in Int /\ l \in Int /\ l <= j /\ j <= l
      BY <1>9, <3>1, <3>2
    <3>4. j = l
      BY <3>3
    <3>5. QED
      BY <3>2, <3>4
  <2>5. QED
    BY <1>2, <2>1, <2>2, <2>3, <2>4 DEF Saves
<1>19. QED
  BY <1>13, <1>14, <1>15, <1>16, <1>17, <1>18 DEF q, extra, SavesFile

-----------------------------------------------------------------------------
(* The memory and the disk agree when no call runs. *)

\* The table on disk is typed, and its rows are the sectors.
LEMMA TableTyped ==
  ASSUME TypeOK
  PROVE  /\ TableOnDisk \in [Slots -> Inode]
         /\ \A r \in 0 .. (Rows - 1) : Row(TableOnDisk, r) = disk[InodeSec + r]
         /\ disk[SuperSec] \in Super
<1>1. ASSUME NEW r \in 0 .. (Rows - 1)
      PROVE  disk[InodeSec + r] \in [0 .. (PerSector - 1) -> Inode]
  <2>1. InodeSec + r \in Sectors /\ InodeSec + r # SuperSec /\ InodeSec + r < DataStart
    BY FileSystemAssumption DEF Sectors, InodeSec, SuperSec, DataStart
  <2>2. disk[InodeSec + r] \in Content(InodeSec + r)
    BY <2>1 DEF TypeOK
  <2>3. QED
    BY <2>1, <2>2 DEF Content
<1>2. TableOnDisk \in [Slots -> Inode]
  <2>1. ASSUME NEW i \in Slots
        PROVE  disk[InodeSec + (i \div PerSector)][i % PerSector] \in Inode
    BY <1>1, RowOfSlot
  <2>2. QED
    BY <2>1 DEF TableOnDisk
<1>3. ASSUME NEW r \in 0 .. (Rows - 1)
      PROVE  Row(TableOnDisk, r) = disk[InodeSec + r]
  <2>1. ASSUME NEW j \in 0 .. (PerSector - 1)
        PROVE  TableOnDisk[r * PerSector + j] = disk[InodeSec + r][j]
    BY SlotOfRow DEF TableOnDisk
  <2>2. QED
    BY <1>1, <2>1 DEF Row
<1>4. disk[SuperSec] \in Super
  BY FileSystemAssumption DEF TypeOK, Content, Sectors, SuperSec, DataStart, InodeSec
<1>5. QED
  BY <1>2, <1>3, <1>4

\* Tables with the same rows are the same.
LEMMA RowsDetermine ==
  ASSUME NEW t \in [Slots -> Inode], NEW u \in [Slots -> Inode],
         \A r \in 0 .. (Rows - 1) : Row(t, r) = Row(u, r)
  PROVE  t = u
<1>1. ASSUME NEW i \in Slots
      PROVE  t[i] = u[i]
  <2> DEFINE r == i \div PerSector
             j == i % PerSector
  <2>1. r \in 0 .. (Rows - 1) /\ j \in 0 .. (PerSector - 1) /\ r * PerSector + j = i
    BY RowOfSlot
  <2> HIDE DEF r, j
  <2>2. Row(t, r)[j] = t[i] /\ Row(u, r)[j] = u[i]
    BY <2>1 DEF Row
  <2>3. QED
    BY <2>1, <2>2
<1>2. QED
  BY <1>1

\* What was written back is what is on disk.
LEMMA SyncedWhenDone ==
  ASSUME SyncInv, Engaged, todo = << >>
  PROVE  sb = disk[SuperSec] /\ inodes = TableOnDisk
<1> USE DEF SyncInv, QueueInv
<1>1. Len(todo) = 0 /\ Supers(todo) = {}
  BY DEF Supers
<1>2. sb = disk[SuperSec]
  BY <1>1 DEF WillSync
<1>3. ASSUME NEW r \in 0 .. (Rows - 1)
      PROVE  Row(inodes, r) = Row(TableOnDisk, r)
  BY <1>1, TableTyped DEF WillSync
<1>4. inodes = TableOnDisk
  BY <1>3, TableTyped, RowsDetermine DEF TypeOK
<1>5. QED
  BY <1>2, <1>4

\* The invariant gives durability.
LEMMA SyncDurable ==
  ASSUME SyncInv
  PROVE  Durable
<1>1. ASSUME Idle, mounted
      PROVE  sb = disk[SuperSec] /\ inodes = TableOnDisk
  <2>1. todo = << >>
    BY <1>1 DEF SyncInv, QueueInv, TypeOK
  <2>2. Engaged
    BY <1>1 DEF Engaged
  <2>3. QED
    BY <2>1, <2>2, SyncedWhenDone
<1>2. QED
  BY <1>1 DEF Durable

\* A call that saves its tables leaves a queue that carries the memory.
LEMMA CallQueued ==
  ASSUME QueueInv,
         Saves(todo', inodes', sb'),
         sb' \in Super, inodes' \in [Slots -> Inode], mounted' \in BOOLEAN,
         disk' = disk, crashes' = crashes, DOMAIN wrote' = Slots,
         call' \in {"Format", "Unmount", "CreateFile", "DeleteFile", "WriteFile"},
         call' \in {"CreateFile", "DeleteFile", "WriteFile"} => mounted',
         call' = "Format" => Live(inodes') = {}
  PROVE  QueueInv'
<1> USE DEF QueueInv
<1>1. /\ todo' \in Seq(Writes)
      /\ Len(todo') > 0
      /\ \A j \in Tables(todo') : todo'[j].content = Row(inodes', todo'[j].sector - InodeSec)
  BY DEF Saves
<1>2. TypeOK'
  <2>1. ASSUME NEW j \in 1 .. Len(todo')
        PROVE  todo'[j].sector \in Sectors /\ todo'[j].content \in Content(todo'[j].sector)
    <3>1. todo'[j] \in Writes
      BY <1>1, ElementOfSeq
    <3>2. QED
      BY <3>1 DEF Writes
  <2>2. call' # "idle" /\ todo' # << >>
    BY <1>1
  <2>3. QED
    BY <2>1, <2>2 DEF TypeOK, Idle
<1>3. QueueTyped'
  BY <1>1 DEF QueueTyped
<1>4. CallKinds'
  BY DEF CallKinds
<1>5. RowsCarryMemory'
  BY <1>1 DEF RowsCarryMemory
<1>6. QED
  BY <1>2, <1>3, <1>4, <1>5

\* A call that queues the writes of all it changed keeps the invariant.
LEMMA CallSync ==
  ASSUME SyncInv,
         Saves(todo', inodes', sb'), Supers(todo') # {} \/ sb' = disk[SuperSec],
         sb' \in Super, inodes' \in [Slots -> Inode], mounted' \in BOOLEAN,
         disk' = disk, crashes' = crashes, DOMAIN wrote' = Slots,
         call' \in {"Format", "Unmount", "CreateFile", "DeleteFile", "WriteFile"},
         call' \in {"CreateFile", "DeleteFile", "WriteFile"} => mounted',
         call' = "Format" => Live(inodes') = {}
  PROVE  SyncInv'
<1>1. /\ \A r \in 0 .. (Rows - 1) : \E j \in 1 .. Len(todo') : todo'[j].sector = InodeSec + r
      /\ \A j \in 1 .. Len(todo') : LastSuper(todo', j) => todo'[j].content = sb'
  BY DEF Saves
<1>2. QueueInv'
  BY SyncQueue, CallQueued
<1>3. WillSync'
  BY <1>1 DEF WillSync
<1>4. QED
  BY <1>2, <1>3 DEF SyncInv

\* The blank structures are typed.
LEMMA BlankTyped ==
  /\ EmptyInode \in Inode
  /\ [i \in Slots |-> EmptyInode] \in [Slots -> Inode]
  /\ BlankSuper \in Super
  /\ FreshSuper \in Super
  /\ Live([i \in Slots |-> EmptyInode]) = {}
<1>1. EmptyInode \in Inode
  BY DEF EmptyInode, Inode
<1>2. BlankSuper \in Super /\ FreshSuper \in Super
  BY FileSystemAssumption DEF BlankSuper, FreshSuper, Super
<1>3. Live([i \in Slots |-> EmptyInode]) = {}
  BY DEF Live, EmptyInode
<1>4. QED
  BY <1>1, <1>2, <1>3

\* The slots the calls choose.
LEMMA ChosenSlots ==
  ASSUME NEW t \in [Slots -> Inode]
  PROVE  /\ Live(t) \subseteq Slots
         /\ inodes = t /\ Live(t) # Slots => FindFreeInode \in Slots \ Live(t)
         /\ \A n : inodes = t /\ FileExists(n) => OpenFile(n) \in Found(n)
         /\ \A n : inodes = t => Found(n) \subseteq Live(t)
<1>1. Live(t) \subseteq Slots /\ Slots \subseteq Nat
  BY FileSystemAssumption DEF Live, Slots
<1>2. ASSUME inodes = t, Live(t) # Slots
      PROVE  FindFreeInode \in Slots \ Live(t)
  <2> DEFINE F == Slots \ Live(t)
  <2>1. F # {} /\ F \in SUBSET Nat
    BY <1>1, <1>2
  <2>2. \E i \in F : \A j \in F : i <= j
    BY <2>1, LeastElement
  <2>3. QED
    BY <1>2, <2>2 DEF FindFreeInode
<1>3. ASSUME NEW n, inodes = t
      PROVE  Found(n) \subseteq Live(t)
  BY <1>3 DEF Found
<1>4. ASSUME NEW n, inodes = t, FileExists(n)
      PROVE  OpenFile(n) \in Found(n)
  <2>1. Found(n) # {} /\ Found(n) \in SUBSET Nat
    BY <1>1, <1>3, <1>4 DEF FileExists
  <2>2. \E i \in Found(n) : \A j \in Found(n) : i <= j
    BY <2>1, LeastElement
  <2>3. QED
    BY <2>2 DEF OpenFile
<1>5. QED
  BY <1>1, <1>2, <1>3, <1>4

\* What an idle state has: nothing to write, and when mounted, the disk in memory.
LEMMA IdleSynced ==
  ASSUME SyncInv, Idle
  PROVE  /\ todo = << >> /\ Len(todo) = 0
         /\ mounted => sb = disk[SuperSec] /\ inodes = TableOnDisk
  BY SyncDurable DEF SyncInv, QueueInv, TypeOK, Durable

\* Format queues an empty table behind a fresh superblock.
LEMMA FormatQueue ==
  ASSUME QueueInv, Format
  PROVE  /\ Saves(todo', inodes', sb')
         /\ Supers(todo') = {1}
         /\ todo'[1].content = sb'
         /\ sb' = FreshSuper /\ sb' \in Super
         /\ inodes' = [i \in Slots |-> EmptyInode] /\ inodes' \in [Slots -> Inode]
         /\ \A j \in 1 .. Len(todo') : todo'[j].sector \notin DataSecs
<1>1. /\ sb' = FreshSuper
      /\ inodes' = [i \in Slots |-> EmptyInode]
      /\ todo' = SaveSuper(sb') \o SaveTable(inodes')
  BY DEF Format, Begin
<1>2. sb' \in Super /\ inodes' \in [Slots -> Inode]
  BY <1>1, BlankTyped
<1>3. QED
  BY <1>1, <1>2, SuperThenTable, Zenon

\* Format keeps the invariant.
LEMMA FormatSync ==
  ASSUME SyncInv, Format
  PROVE  SyncInv'
<1>1. Live(inodes') = {}
  BY SyncQueue, FormatQueue, BlankTyped
<1>2. /\ disk' = disk /\ crashes' = crashes /\ call' = "Format" /\ mounted' = mounted
      /\ DOMAIN wrote' = Slots
  BY DEF Format, Begin, Forget
<1>3. mounted \in BOOLEAN
  BY DEF SyncInv, QueueInv, TypeOK
<1>4. QED
  BY <1>1, <1>2, <1>3, SyncQueue, FormatQueue, CallSync

\* Mount reads typed tables and queues nothing.
LEMMA MountQueued ==
  ASSUME QueueInv, Mount
  PROVE  QueueInv'
<1> USE DEF QueueInv
<1>1. /\ Idle /\ sb' = disk[SuperSec] /\ disk' = disk /\ call' = call /\ todo' = todo
      /\ crashes' = crashes /\ wrote' = wrote
      /\ \/ disk[SuperSec].magic /\ inodes' = TableOnDisk /\ mounted' = TRUE
         \/ inodes' = inodes /\ mounted' = mounted
  BY DEF Mount
<1>2. todo = << >> /\ Len(todo) = 0 /\ Tables(todo) = {}
  BY <1>1 DEF Tables, TypeOK
<1>3. sb' \in Super /\ inodes' \in [Slots -> Inode] /\ mounted' \in BOOLEAN
  BY <1>1, TableTyped DEF TypeOK
<1>4. TypeOK'
  BY <1>1, <1>3 DEF TypeOK, Idle
<1>5. QueueTyped' /\ RowsCarryMemory' /\ CallKinds'
  BY <1>1, <1>2 DEF QueueTyped, RowsCarryMemory, CallKinds, Idle, Tables
<1>6. QED
  BY <1>4, <1>5

\* Mount keeps the invariant.
LEMMA MountSync ==
  ASSUME SyncInv, Mount
  PROVE  SyncInv'
<1>1. /\ Idle /\ sb' = disk[SuperSec] /\ disk' = disk /\ call' = call /\ todo' = todo
      /\ crashes' = crashes /\ wrote' = wrote
      /\ \/ disk[SuperSec].magic /\ inodes' = TableOnDisk /\ mounted' = TRUE
         \/ inodes' = inodes /\ mounted' = mounted
  BY DEF Mount
<1>2. todo = << >> /\ Len(todo) = 0 /\ Tables(todo) = {} /\ Supers(todo) = {}
  BY <1>1, IdleSynced DEF Tables, Supers
<1>3. QueueInv'
  BY SyncQueue, MountQueued
<1>4. ASSUME Engaged'
      PROVE  \A r \in 0 .. (Rows - 1) : disk'[InodeSec + r] = Row(inodes', r)
  <2>1. mounted'
    BY <1>1, <1>4 DEF Engaged, Idle
  <2>2. inodes' = TableOnDisk
    BY <1>1, <2>1, IdleSynced
  <2>3. QED
    BY <1>1, <2>2, TableTyped DEF SyncInv, QueueInv
<1>5. WillSync'
  BY <1>1, <1>2, <1>4 DEF WillSync
<1>6. QED
  BY <1>3, <1>5 DEF SyncInv

\* Unmount queues the superblock and the table as they are.
LEMMA UnmountQueue ==
  ASSUME QueueInv, Unmount
  PROVE  /\ Saves(todo', inodes', sb')
         /\ Supers(todo') = {1}
         /\ todo'[1].content = sb'
         /\ sb' = sb /\ sb' \in Super
         /\ inodes' = inodes /\ inodes' \in [Slots -> Inode]
         /\ \A j \in 1 .. Len(todo') : todo'[j].sector \notin DataSecs
<1>1. /\ sb' = sb
      /\ inodes' = inodes
      /\ todo' = SaveSuper(sb) \o SaveTable(inodes)
  BY DEF Unmount, Begin
<1>2. sb \in Super /\ inodes \in [Slots -> Inode]
  BY DEF QueueInv, TypeOK
<1>3. QED
  BY <1>1, <1>2, SuperThenTable

\* Unmount keeps the invariant.
LEMMA UnmountSync ==
  ASSUME SyncInv, Unmount
  PROVE  SyncInv'
<1>1. /\ disk' = disk /\ crashes' = crashes /\ call' = "Unmount" /\ mounted' = FALSE
      /\ wrote' = wrote
  BY DEF Unmount, Begin
<1>2. DOMAIN wrote = Slots
  BY DEF SyncInv, QueueInv, TypeOK
<1>3. QED
  BY <1>1, <1>2, SyncQueue, UnmountQueue, CallSync

\* CreateFile queues the table with one more file, and the superblock.
LEMMA CreateQueue ==
  ASSUME QueueInv, NEW n \in Names, CreateFile(n)
  PROVE  /\ Saves(todo', inodes', sb')
         /\ Supers(todo') = {Len(todo')}
         /\ todo'[Len(todo')].content = sb'
         /\ sb' = [sb EXCEPT !.count = (sb.count + 1) % CountMod] /\ sb' \in Super
         /\ FindFreeInode \in Slots \ Live(inodes)
         /\ inodes' = [inodes EXCEPT ![FindFreeInode] =
                         [type |-> "regular", name |-> Stored(n), size |-> 0, start |-> 0]]
         /\ inodes' \in [Slots -> Inode]
         /\ \A j \in 1 .. Len(todo') : todo'[j].sector \notin DataSecs
<1>1. /\ Live(inodes) # Slots
      /\ inodes' = [inodes EXCEPT ![FindFreeInode] =
                      [type |-> "regular", name |-> Stored(n), size |-> 0, start |-> 0]]
      /\ sb' = [sb EXCEPT !.count = (sb.count + 1) % CountMod]
  BY DEF CreateFile
<1>2. todo' = SaveTable(inodes') \o SaveSuper(sb')
  BY DEF CreateFile, Begin
<1>3. sb \in Super /\ inodes \in [Slots -> Inode]
  BY DEF QueueInv, TypeOK
<1>4. FindFreeInode \in Slots \ Live(inodes)
  BY <1>1, <1>3, ChosenSlots
<1>5. [type |-> "regular", name |-> Stored(n), size |-> 0, start |-> 0] \in Inode
  BY DEF Inode, Stored
<1>6. inodes' \in [Slots -> Inode]
  BY <1>1, <1>3, <1>4, <1>5
<1>7. sb' \in Super
  <2>1. sb.count \in Nat
    BY <1>3, FileSystemAssumption DEF Super
  <2>2. (sb.count + 1) % CountMod \in 0 .. (CountMod - 1)
    BY <2>1, FileSystemAssumption
  <2>3. QED
    BY <1>1, <1>3, <2>2 DEF Super
<1>8. /\ Saves(todo', inodes', sb')
      /\ Len(todo') = Rows + 1
      /\ Supers(todo') = {Rows + 1}
      /\ todo'[Rows + 1].content = sb'
      /\ \A j \in 1 .. Len(todo') : todo'[j].sector \notin DataSecs
  BY <1>2, <1>6, <1>7, TableThenSuper
<1>9. QED
  BY <1>1, <1>4, <1>6, <1>7, <1>8

\* CreateFile keeps the invariant.
LEMMA CreateSync ==
  ASSUME SyncInv, NEW n \in Names, CreateFile(n)
  PROVE  SyncInv'
<1>1. /\ disk' = disk /\ crashes' = crashes /\ call' = "CreateFile"
      /\ mounted /\ mounted' = mounted
      /\ DOMAIN wrote' = Slots
  BY DEF CreateFile, Begin, Forget
<1>2. mounted \in BOOLEAN
  BY DEF SyncInv, QueueInv, TypeOK
<1>3. QED
  BY <1>1, <1>2, SyncQueue, CreateQueue, CallSync

\* DeleteFile queues the table with one file less, and the superblock.
LEMMA DeleteQueue ==
  ASSUME QueueInv, NEW n \in Names, DeleteFile(n)
  PROVE  /\ Saves(todo', inodes', sb')
         /\ Supers(todo') = {Len(todo')}
         /\ todo'[Len(todo')].content = sb'
         /\ sb' = [sb EXCEPT !.count = (sb.count - 1) % CountMod] /\ sb' \in Super
         /\ OpenFile(n) \in Live(inodes)
         /\ inodes' = [inodes EXCEPT ![OpenFile(n)].type = "empty", ![OpenFile(n)].size = 0]
         /\ inodes' \in [Slots -> Inode]
         /\ OpenFile(n) \in Slots /\ inodes'[OpenFile(n)].type = "empty"
         /\ \A j \in 1 .. Len(todo') : todo'[j].sector \notin DataSecs
<1>1. /\ FileExists(n)
      /\ inodes' = [inodes EXCEPT ![OpenFile(n)].type = "empty", ![OpenFile(n)].size = 0]
      /\ sb' = [sb EXCEPT !.count = (sb.count - 1) % CountMod]
  BY DEF DeleteFile
<1>2. todo' = SaveTable(inodes') \o SaveSuper(sb')
  BY DEF DeleteFile, Begin
<1>3. sb \in Super /\ inodes \in [Slots -> Inode]
  BY DEF QueueInv, TypeOK
<1>4. OpenFile(n) \in Live(inodes) /\ OpenFile(n) \in Slots
  BY <1>1, <1>3, ChosenSlots
<1>5. inodes' \in [Slots -> Inode]
  BY <1>1, <1>3, <1>4 DEF Inode
<1>6. sb' \in Super
  <2>1. sb.count \in Nat
    BY <1>3, FileSystemAssumption DEF Super
  <2>2. (sb.count - 1) % CountMod \in 0 .. (CountMod - 1)
    BY <2>1, FileSystemAssumption
  <2>3. QED
    BY <1>1, <1>3, <2>2 DEF Super
<1>7. /\ Saves(todo', inodes', sb')
      /\ Len(todo') = Rows + 1
      /\ Supers(todo') = {Rows + 1}
      /\ todo'[Rows + 1].content = sb'
      /\ \A j \in 1 .. Len(todo') : todo'[j].sector \notin DataSecs
  BY <1>2, <1>5, <1>6, TableThenSuper
<1>8. inodes'[OpenFile(n)].type = "empty"
  BY <1>1, <1>3, <1>4 DEF Inode
<1>9. QED
  BY <1>1, <1>4, <1>5, <1>6, <1>7, <1>8

\* DeleteFile keeps the invariant.
LEMMA DeleteSync ==
  ASSUME SyncInv, NEW n \in Names, DeleteFile(n)
  PROVE  SyncInv'
<1>1. /\ disk' = disk /\ crashes' = crashes /\ call' = "DeleteFile"
      /\ mounted /\ mounted' = mounted
      /\ DOMAIN wrote' = Slots
  BY DEF DeleteFile, Begin, Forget
<1>2. mounted \in BOOLEAN
  BY DEF SyncInv, QueueInv, TypeOK
<1>3. QED
  BY <1>1, <1>2, SyncQueue, DeleteQueue, CallSync

\* WriteFile queues the data and the table with the file changed.
LEMMA WriteQueue ==
  ASSUME QueueInv, NEW i \in Slots, NEW v \in Values, NEW k \in Sizes, WriteFile(i, v, k)
  PROVE  /\ SavesFile(todo', inodes', sb', v)
         /\ sb' = [sb EXCEPT !.used = sb.used + (First(i) + Extra(k))]
         /\ inodes' = [inodes EXCEPT ![i].start = Start(i), ![i].size = k]
         /\ inodes' \in [Slots -> Inode]
         /\ i \in Live(inodes)
         /\ Start(i) \in DataSecs /\ Start(i) + Extra(k) \in DataSecs
         /\ todo' = FileWrites(First(i), Start(i), v, k, inodes')
<1> DEFINE first == First(i)
           start == Start(i)
           extra == Extra(k)
<1>1. /\ first \in {0, 1} /\ extra \in Nat /\ k \in Nat /\ MaxUsed \in Nat /\ Rows \in Nat
      /\ sb \in Super /\ sb.used \in Nat
      /\ inodes \in [Slots -> Inode]
  BY FileSystemAssumption DEF QueueInv, TypeOK, Super, First, Extra
<1>2. start = IF first = 1 THEN NextSector ELSE inodes[i].start
  BY DEF First, Start
<1>3. /\ inodes[i].type # "empty"
      /\ sb.used + first + extra <= MaxUsed
      /\ start + extra \in Sectors
      /\ sb' = Allocated(first + extra)
      /\ inodes' = [inodes EXCEPT ![i].start = start, ![i].size = k]
  BY <1>2 DEF WriteFile, First, Extra
<1>4. todo' = FileWrites(first, start, v, k, inodes')
  BY <1>2 DEF WriteFile, Begin, First, Extra
<1>5. sb.used + first + extra \in 0 .. MaxUsed
  BY <1>1, <1>3
<1>6. start \in DataSecs
  <2>1. CASE inodes[i].start = 0
    <3>1. first = 1 /\ start = DataStart + sb.used
      BY <2>1 DEF NextSector, First, Start
    <3>2. QED
      BY <1>1, <1>3, <3>1 DEF DataSecs, DataStart, InodeSec
  <2>2. CASE inodes[i].start # 0
    <3>1. inodes[i] \in Inode /\ start = inodes[i].start
      BY <1>1, <2>2 DEF Start
    <3>2. QED
      BY <2>2, <3>1 DEF Inode
  <2>3. QED
    BY <2>1, <2>2
<1>7. start + extra \in DataSecs
  BY <1>1, <1>3, <1>6 DEF DataSecs, DataStart, InodeSec, Sectors
<1> HIDE DEF first, start, extra
<1>8. inodes' \in [Slots -> Inode]
  <2>1. [inodes[i] EXCEPT !.start = start, !.size = k] \in Inode
    BY <1>1, <1>6 DEF Inode
  <2>2. inodes' = [inodes EXCEPT ![i] = [inodes[i] EXCEPT !.start = start, !.size = k]]
    BY <1>1, <1>3
  <2>3. QED
    BY <1>1, <2>1, <2>2
<1>9. SavesFile(FileWrites(first, start, v, k, inodes'), inodes',
                Allocated(first + extra), v)
  BY <1>1, <1>5, <1>6, <1>7, <1>8, FileWritesSave DEF extra
<1>10. i \in Live(inodes)
  BY <1>3 DEF Live
<1>11. sb' = [sb EXCEPT !.used = sb.used + (first + extra)]
  BY <1>3 DEF Allocated
<1>12. SavesFile(todo', inodes', sb', v)
  BY <1>3, <1>4, <1>9
<1>13. QED
  BY <1>3, <1>4, <1>6, <1>7, <1>8, <1>10, <1>11, <1>12 DEF first, start, extra

\* WriteFile keeps the invariant.
LEMMA WriteSync ==
  ASSUME SyncInv, NEW i \in Slots, NEW v \in Values, NEW k \in Sizes, WriteFile(i, v, k)
  PROVE  SyncInv'
<1>1. /\ disk' = disk /\ crashes' = crashes /\ call' = "WriteFile"
      /\ mounted /\ mounted' = mounted /\ Idle
      /\ DOMAIN wrote' = DOMAIN wrote
  BY DEF WriteFile, Begin
<1>2. mounted \in BOOLEAN /\ DOMAIN wrote = Slots
  BY DEF SyncInv, QueueInv, TypeOK
<1>3. sb = disk[SuperSec]
  BY <1>1, IdleSynced
<1>4. /\ Saves(todo', inodes', sb')
      /\ Supers(todo') = {} => sb' = sb
      /\ sb' \in Super
      /\ inodes' \in [Slots -> Inode]
  BY SyncQueue, WriteQueue DEF SavesFile
<1>5. QED
  BY <1>1, <1>2, <1>3, <1>4, CallSync

\* The disk command writes one sector behind the tables.
LEMMA DiskQueue ==
  ASSUME QueueInv, NEW s \in TestSectors, DiskCommand(s)
  PROVE  /\ todo' \in Seq(Writes) /\ Len(todo') = 1 /\ todo' # << >>
         /\ todo'[1] = [sector |-> s, content |-> Pattern]
         /\ s \in DataSecs /\ s \in Sectors /\ s # SuperSec /\ s \notin RowSecs
         /\ Supers(todo') = {} /\ Tables(todo') = {}
<1>1. s \in DataSecs
  BY TestSectorAssumption
<1>2. s \in Sectors /\ s # SuperSec /\ s \notin RowSecs /\ Pattern \in Content(s)
  BY <1>1, FileSystemAssumption
     DEF DataSecs, DataStart, InodeSec, Sectors, SuperSec, RowSecs, Content
<1>3. [sector |-> s, content |-> Pattern] \in Writes
  BY <1>2 DEF Writes
<1>4. todo' = << [sector |-> s, content |-> Pattern] >>
  BY DEF DiskCommand, Begin
<1>5. todo' \in Seq(Writes) /\ Len(todo') = 1 /\ todo'[1] = [sector |-> s, content |-> Pattern]
  BY <1>3, <1>4
<1>6. Supers(todo') = {} /\ Tables(todo') = {}
  BY <1>2, <1>5 DEF Supers, Tables
<1>7. QED
  BY <1>1, <1>2, <1>5, <1>6

\* The disk command's queue is typed.
LEMMA DiskQueued ==
  ASSUME QueueInv, NEW s \in TestSectors, DiskCommand(s)
  PROVE  QueueInv'
<1> USE DEF QueueInv
<1>1. /\ Idle /\ call' = "disk"
      /\ mounted' = mounted /\ sb' = sb /\ inodes' = inodes /\ disk' = disk
      /\ crashes' = crashes /\ wrote' = wrote
  BY DEF DiskCommand, Begin
<1>2. \A j \in 1 .. Len(todo') :
        todo'[j].sector \in Sectors /\ todo'[j].content \in Content(todo'[j].sector)
  <2>1. \A j \in 1 .. Len(todo') : todo'[j] \in Writes
    BY DiskQueue, ElementOfSeq
  <2>2. QED
    BY <2>1 DEF Writes
<1>3. TypeOK'
  BY <1>1, <1>2, DiskQueue DEF TypeOK, Idle
<1>4. QueueTyped' /\ RowsCarryMemory'
  BY DiskQueue DEF QueueTyped, RowsCarryMemory
<1>5. CallKinds'
  <2>1. Len(todo') = 1 /\ todo'[1] = [sector |-> s, content |-> Pattern] /\ s \in DataSecs
    BY DiskQueue
  <2>2. QED
    BY <1>1, <2>1 DEF CallKinds
<1>6. QED
  BY <1>3, <1>4, <1>5

\* The disk command keeps the invariant.
LEMMA DiskSync ==
  ASSUME SyncInv, NEW s \in TestSectors, DiskCommand(s)
  PROVE  SyncInv'
<1>1. /\ Idle /\ call' = "disk"
      /\ mounted' = mounted /\ sb' = sb /\ inodes' = inodes /\ disk' = disk
      /\ crashes' = crashes /\ wrote' = wrote
  BY DEF DiskCommand, Begin
<1>2. QueueInv'
  BY SyncQueue, DiskQueued
<1>3. ASSUME Engaged'
      PROVE  /\ \A r \in 0 .. (Rows - 1) : disk'[InodeSec + r] = Row(inodes', r)
             /\ disk'[SuperSec] = sb'
  <2>1. mounted
    BY <1>1, <1>3 DEF Engaged
  <2>2. sb = disk[SuperSec] /\ inodes = TableOnDisk
    BY <1>1, <2>1, IdleSynced
  <2>3. QED
    BY <1>1, <2>2, TableTyped DEF SyncInv, QueueInv
<1>4. WillSync'
  BY <1>3, SyncQueue, DiskQueue DEF WillSync, LastSuper
<1>5. QED
  BY <1>2, <1>4 DEF SyncInv

\* The write at the head of the queue leaves the queue, done or refused.
LEMMA HeadLeaves ==
  ASSUME QueueInv, ~Idle, todo' = Tail(todo)
  PROVE  /\ Len(todo) \in Nat \ {0} /\ 1 \in 1 .. Len(todo)
         /\ Head(todo) = todo[1] /\ todo[1] \in Writes
         /\ todo[1].sector \in Sectors /\ todo[1].content \in Content(todo[1].sector)
         /\ todo' \in Seq(Writes)
         /\ Len(todo') = Len(todo) - 1
         /\ \A j \in 1 .. Len(todo') : j + 1 \in 1 .. Len(todo) /\ todo'[j] = todo[j + 1]
         /\ \A j \in 2 .. Len(todo) : j - 1 \in 1 .. Len(todo') /\ todo[j] = todo'[j - 1]
<1>1. todo \in Seq(Writes) /\ todo # << >>
  BY DEF QueueInv, QueueTyped, TypeOK
<1>2. /\ Len(todo) \in Nat \ {0}
      /\ todo' \in Seq(Writes)
      /\ Len(todo') = Len(todo) - 1
      /\ \A j \in 1 .. Len(todo') : todo'[j] = todo[j + 1]
      /\ Head(todo) = todo[1]
  BY <1>1, HeadTailProperties, EmptySeq
<1>3. todo[1] \in Writes
  BY <1>1, <1>2, ElementOfSeq
<1>4. todo[1].sector \in Sectors /\ todo[1].content \in Content(todo[1].sector)
  BY <1>3 DEF Writes
<1>5. \A j \in 2 .. Len(todo) : j - 1 \in 1 .. Len(todo') /\ todo[j] = todo'[j - 1]
  <2>1. TAKE j \in 2 .. Len(todo)
  <2>2. j - 1 \in 1 .. Len(todo') /\ (j - 1) + 1 = j
    BY <1>2
  <2>3. QED
    BY <1>2, <2>2
<1>6. \A j \in 1 .. Len(todo') : j + 1 \in 1 .. Len(todo)
  BY <1>2
<1>7. QED
  BY <1>2, <1>3, <1>4, <1>5, <1>6

\* The write at the head of the queue is done and leaves the queue.
LEMMA HeadWrite ==
  ASSUME QueueInv, WriteSector
  PROVE  /\ Len(todo) \in Nat \ {0} /\ 1 \in 1 .. Len(todo)
         /\ todo[1] \in Writes
         /\ todo[1].sector \in Sectors /\ todo[1].content \in Content(todo[1].sector)
         /\ disk' = [disk EXCEPT ![todo[1].sector] = todo[1].content]
         /\ DOMAIN disk = Sectors
         /\ todo' \in Seq(Writes)
         /\ Len(todo') = Len(todo) - 1
         /\ \A j \in 1 .. Len(todo') : j + 1 \in 1 .. Len(todo) /\ todo'[j] = todo[j + 1]
         /\ \A j \in 2 .. Len(todo) : j - 1 \in 1 .. Len(todo') /\ todo[j] = todo'[j - 1]
         /\ call' = IF Len(todo) = 1 THEN "idle" ELSE call
         /\ call # "idle"
         /\ mounted' = mounted /\ sb' = sb /\ inodes' = inodes
         /\ crashes' = crashes /\ wrote' = wrote
<1>1. ~Idle /\ todo' = Tail(todo) /\ DOMAIN disk = Sectors
  BY DEF QueueInv, TypeOK, WriteSector
<1>2. Head(todo) = todo[1]
  BY <1>1, HeadLeaves
<1>3. /\ disk' = [disk EXCEPT ![todo[1].sector] = todo[1].content]
      /\ call' = IF Len(todo) = 1 THEN "idle" ELSE call
      /\ call # "idle"
      /\ mounted' = mounted /\ sb' = sb /\ inodes' = inodes
      /\ crashes' = crashes /\ wrote' = wrote
  BY <1>2 DEF WriteSector, Idle
<1>4. QED
  BY <1>1, <1>3, HeadLeaves

\* The writes that are left stand one place nearer.
LEMMA PlacesMove ==
  ASSUME QueueInv, ~Idle, todo' = Tail(todo)
  PROVE  /\ \A j \in Supers(todo') : j + 1 \in Supers(todo) /\ todo'[j] = todo[j + 1]
         /\ \A j \in Supers(todo) : j # 1 => j - 1 \in Supers(todo') /\ todo[j] = todo'[j - 1]
         /\ \A j \in Tables(todo') : j + 1 \in Tables(todo) /\ todo'[j] = todo[j + 1]
<1>1. Len(todo) \in Nat \ {0} /\ Len(todo') = Len(todo) - 1
  BY HeadLeaves
<1>2. \A j \in Supers(todo') : j + 1 \in Supers(todo) /\ todo'[j] = todo[j + 1]
  BY HeadLeaves DEF Supers
<1>3. \A j \in Tables(todo') : j + 1 \in Tables(todo) /\ todo'[j] = todo[j + 1]
  BY HeadLeaves DEF Tables
<1>4. \A j \in Supers(todo) : j # 1 => j - 1 \in Supers(todo') /\ todo[j] = todo'[j - 1]
  <2>1. TAKE j \in Supers(todo)
  <2>2. ASSUME j # 1
        PROVE  j - 1 \in Supers(todo') /\ todo[j] = todo'[j - 1]
    <3>1. j \in 2 .. Len(todo) /\ todo[j].sector = SuperSec
      BY <1>1, <2>2 DEF Supers
    <3>2. j - 1 \in 1 .. Len(todo') /\ todo[j] = todo'[j - 1]
      BY <3>1, HeadLeaves
    <3>3. QED
      BY <3>1, <3>2 DEF Supers
  <2>3. QED
    BY <2>2
<1>5. QED
  BY <1>2, <1>3, <1>4

\* The same, when the write is done.
LEMMA TailPlaces ==
  ASSUME QueueInv, WriteSector
  PROVE  /\ \A j \in Supers(todo') : j + 1 \in Supers(todo) /\ todo'[j] = todo[j + 1]
         /\ \A j \in Supers(todo) : j # 1 => j - 1 \in Supers(todo') /\ todo[j] = todo'[j - 1]
         /\ \A j \in Tables(todo') : j + 1 \in Tables(todo) /\ todo'[j] = todo[j + 1]
BY PlacesMove DEF WriteSector

\* After the write, what differs from memory is still to be written.
LEMMA WillSyncAfterWrite ==
  ASSUME SyncInv, Engaged, WriteSector
  PROVE  /\ \A r \in 0 .. (Rows - 1) :
              \/ disk'[InodeSec + r] = Row(inodes', r)
              \/ \E j \in 1 .. Len(todo') : todo'[j].sector = InodeSec + r
         /\ disk'[SuperSec] = sb' \/ Supers(todo') # {}
         /\ \A j \in 1 .. Len(todo') : LastSuper(todo', j) => todo'[j].content = sb'
<1> USE DEF SyncInv, QueueInv
<1> DEFINE w == todo[1]
<1>1. /\ Len(todo) \in Nat \ {0} /\ 1 \in 1 .. Len(todo)
      /\ w \in Writes /\ w.sector \in Sectors /\ w.content \in Content(w.sector)
      /\ disk' = [disk EXCEPT ![w.sector] = w.content]
      /\ DOMAIN disk = Sectors
      /\ todo' \in Seq(Writes)
      /\ Len(todo') = Len(todo) - 1
  BY SyncQueue, HeadWrite
<1>2. /\ \A j \in 1 .. Len(todo') : j + 1 \in 1 .. Len(todo) /\ todo'[j] = todo[j + 1]
      /\ \A j \in 2 .. Len(todo) : j - 1 \in 1 .. Len(todo') /\ todo[j] = todo'[j - 1]
  BY SyncQueue, HeadWrite
<1>3. /\ call' = IF Len(todo) = 1 THEN "idle" ELSE call
      /\ call # "idle"
      /\ mounted' = mounted /\ sb' = sb /\ inodes' = inodes
      /\ crashes' = crashes /\ wrote' = wrote
  BY SyncQueue, HeadWrite
<1>4. ASSUME NEW r \in 0 .. (Rows - 1),
             ~\E j \in 1 .. Len(todo') : todo'[j].sector = InodeSec + r
      PROVE  disk'[InodeSec + r] = Row(inodes', r)
  <2>1. InodeSec + r \in RowSecs /\ InodeSec + r \in Sectors
        /\ (InodeSec + r) - InodeSec = r
    BY FileSystemAssumption DEF RowSecs, Sectors, InodeSec, DataStart, SuperSec
  <2>2. CASE w.sector = InodeSec + r
    <3>1. 1 \in Tables(todo)
      BY <1>1, <2>1, <2>2 DEF Tables
    <3>2. w.content = Row(inodes, r)
      BY <2>1, <2>2, <3>1 DEF RowsCarryMemory
    <3>3. QED
      BY <1>1, <1>3, <2>1, <2>2, <3>2
  <2>3. CASE w.sector # InodeSec + r
    <3>1. ~\E j \in 1 .. Len(todo) : todo[j].sector = InodeSec + r
      <4>1. ASSUME NEW j \in 1 .. Len(todo)
            PROVE  todo[j].sector # InodeSec + r
        <5>1. j = 1 \/ j \in 2 .. Len(todo)
          BY <1>1
        <5>2. QED
          BY <1>2, <1>4, <2>3, <5>1
      <4>2. QED
        BY <4>1
    <3>2. disk[InodeSec + r] = Row(inodes, r)
      BY <3>1 DEF WillSync
    <3>3. QED
      BY <1>1, <1>3, <2>1, <2>3, <3>2
  <2>4. QED
    BY <2>2, <2>3
<1>5. ASSUME Supers(todo') = {}
      PROVE  disk'[SuperSec] = sb'
  <2>1. SuperSec \in Sectors
    BY FileSystemAssumption DEF Sectors, SuperSec, DataStart, InodeSec
  <2>2. \A j \in Supers(todo) : j = 1
    BY <1>5, SyncQueue, TailPlaces
  <2>3. CASE w.sector = SuperSec
    <3>1. 1 \in Supers(todo)
      BY <1>1, <2>3 DEF Supers
    <3>2. LastSuper(todo, 1)
      BY <2>2, <3>1 DEF LastSuper
    <3>3. w.content = sb
      BY <1>1, <3>2 DEF WillSync
    <3>4. QED
      BY <1>1, <1>3, <2>1, <2>3, <3>3
  <2>4. CASE w.sector # SuperSec
    <3>1. Supers(todo) = {}
      BY <1>1, <2>2, <2>4 DEF Supers
    <3>2. disk[SuperSec] = sb
      BY <3>1 DEF WillSync
    <3>3. QED
      BY <1>1, <1>3, <2>1, <2>4, <3>2
  <2>5. QED
    BY <2>3, <2>4
<1>6. ASSUME NEW j \in 1 .. Len(todo'), LastSuper(todo', j)
      PROVE  todo'[j].content = sb'
  <2>1. j \in Supers(todo') /\ \A i \in Supers(todo') : i <= j
    BY <1>6 DEF LastSuper
  <2>2. j + 1 \in Supers(todo) /\ todo'[j] = todo[j + 1]
    BY <2>1, SyncQueue, TailPlaces
  <2>3. \A i \in Supers(todo) : i <= j + 1
    <3>1. TAKE i \in Supers(todo)
    <3>2. i = 1 \/ i - 1 \in Supers(todo')
      BY SyncQueue, TailPlaces
    <3>3. i \in Nat /\ j \in Nat
      BY <1>1 DEF Supers
    <3>4. QED
      BY <2>1, <3>2, <3>3
  <2>4. LastSuper(todo, j + 1) /\ j + 1 \in 1 .. Len(todo)
    BY <2>2, <2>3 DEF LastSuper, Supers
  <2>5. todo[j + 1].content = sb
    BY <2>4 DEF WillSync
  <2>6. QED
    BY <1>3, <2>2, <2>5
<1>7. QED
  BY <1>4, <1>5, <1>6

\* What is left of the queue is in order when a write leaves it.
LEMMA QueueShrinks ==
  ASSUME QueueInv, ~Idle, todo' = Tail(todo), call' = IF Len(todo) = 1 THEN "idle" ELSE call,
         UNCHANGED <<mounted, sb, inodes, crashes, wrote>>,
         DOMAIN disk' = Sectors, \A s \in Sectors : disk'[s] \in Content(s)
  PROVE  QueueInv'
<1> USE DEF QueueInv
<1>1. /\ Len(todo) \in Nat \ {0}
      /\ todo' \in Seq(Writes)
      /\ Len(todo') = Len(todo) - 1
      /\ \A j \in 1 .. Len(todo') : j + 1 \in 1 .. Len(todo) /\ todo'[j] = todo[j + 1]
  BY HeadLeaves
<1>2. TypeOK'
  <2>1. \A j \in 1 .. Len(todo') :
          todo'[j].sector \in Sectors /\ todo'[j].content \in Content(todo'[j].sector)
    BY <1>1 DEF TypeOK
  <2>2. call' = "idle" <=> todo' = << >>
    <3>1. call' = "idle" <=> Len(todo') = 0
      BY <1>1 DEF Idle
    <3>2. Len(todo') = 0 <=> todo' = << >>
      BY <1>1, EmptySeq
    <3>3. QED
      BY <3>1, <3>2
  <2>3. QED
    BY <2>1, <2>2 DEF TypeOK, Idle
<1>3. QueueTyped'
  BY <1>1 DEF QueueTyped
<1>4. CallKinds'
  <2>1. call' = "idle" \/ (call' = call /\ Len(todo) # 1)
    OBVIOUS
  <2>2. QED
    BY <2>1 DEF CallKinds
<1>5. RowsCarryMemory'
  BY PlacesMove DEF RowsCarryMemory
<1>6. QED
  BY <1>2, <1>3, <1>4, <1>5

\* A write that is done leaves a typed disk.
LEMMA SectorQueued ==
  ASSUME QueueInv, WriteSector
  PROVE  QueueInv'
<1>1. /\ todo[1].sector \in Sectors /\ todo[1].content \in Content(todo[1].sector)
      /\ disk' = [disk EXCEPT ![todo[1].sector] = todo[1].content]
      /\ DOMAIN disk = Sectors
  BY HeadWrite
<1>2. DOMAIN disk' = Sectors /\ \A s \in Sectors : disk'[s] \in Content(s)
  BY <1>1 DEF QueueInv, TypeOK
<1>3. QED
  BY <1>2, QueueShrinks DEF WriteSector

\* A write that is done keeps the invariant.
LEMMA SectorSync ==
  ASSUME SyncInv, WriteSector
  PROVE  SyncInv'
<1>1. mounted' = mounted /\ (call' # "idle" => call' = call)
  BY SyncQueue, HeadWrite
<1>2. Engaged' => Engaged
  BY <1>1 DEF Engaged
<1>3. WillSync'
  BY <1>2, WillSyncAfterWrite DEF WillSync
<1>4. QED
  BY <1>3, SyncQueue, SectorQueued DEF SyncInv

\* The last write of a call leaves on disk what is in memory.
LEMMA DoneIsSynced ==
  ASSUME SyncInv, Engaged, WriteSector, Len(todo) = 1
  PROVE  disk'[SuperSec] = sb /\ TableOnDisk' = inodes
<1>1. Len(todo') = 0 /\ Supers(todo') = {} /\ sb' = sb /\ inodes' = inodes
  BY SyncQueue, HeadWrite DEF Supers
<1>2. /\ \A r \in 0 .. (Rows - 1) : disk'[InodeSec + r] = Row(inodes, r)
      /\ disk'[SuperSec] = sb
  BY <1>1, WillSyncAfterWrite
<1>3. SyncInv'
  BY SectorSync
<1>4. (TypeOK => /\ TableOnDisk \in [Slots -> Inode]
                 /\ \A r \in 0 .. (Rows - 1) : Row(TableOnDisk, r) = disk[InodeSec + r])'
  BY TableTyped, PTL
<1>5. /\ TableOnDisk' \in [Slots -> Inode]
      /\ \A r \in 0 .. (Rows - 1) : Row(TableOnDisk', r) = Row(inodes, r)
  BY <1>2, <1>3, <1>4 DEF SyncInv, QueueInv
<1>6. TableOnDisk' = inodes
  BY <1>5, RowsDetermine DEF SyncInv, QueueInv, TypeOK
<1>7. QED
  BY <1>2, <1>6

\* After a power loss nothing is queued.
LEMMA CrashQueued ==
  ASSUME QueueInv, Crash
  PROVE  QueueInv'
<1> USE DEF QueueInv
<1>1. /\ crashes < MaxCrashes /\ crashes' = crashes + 1
      /\ mounted' = FALSE /\ sb' = BlankSuper /\ inodes' = [i \in Slots |-> EmptyInode]
      /\ call' = "idle" /\ todo' = << >> /\ disk' = disk
      /\ DOMAIN wrote' = Slots
  BY DEF Crash, Forget, TypeOK
<1>2. Len(todo') = 0 /\ Tables(todo') = {} /\ todo' \in Seq(Writes)
  BY <1>1 DEF Tables
<1>3. crashes' \in 0 .. MaxCrashes
  BY <1>1, FileSystemAssumption DEF TypeOK
<1>4. TypeOK'
  <2>1. /\ \A j \in 1 .. Len(todo') : todo'[j].sector \in Sectors
                                       /\ todo'[j].content \in Content(todo'[j].sector)
        /\ call' = "idle" <=> todo' = << >>
    BY <1>1, <1>2
  <2>2. mounted' \in BOOLEAN /\ sb' \in Super /\ inodes' \in [Slots -> Inode]
    BY <1>1, BlankTyped
  <2>3. DOMAIN disk' = Sectors /\ \A s \in Sectors : disk'[s] \in Content(s)
    BY <1>1 DEF TypeOK
  <2>4. QED
    BY <1>1, <1>3, <2>1, <2>2, <2>3 DEF TypeOK, Idle
<1>5. QueueTyped' /\ RowsCarryMemory' /\ CallKinds'
  BY <1>1, <1>2 DEF QueueTyped, RowsCarryMemory, CallKinds
<1>6. QED
  BY <1>4, <1>5

\* A power loss keeps the invariant.
LEMMA CrashSync ==
  ASSUME SyncInv, Crash
  PROVE  SyncInv'
<1>1. WillSync'
  BY DEF Crash, WillSync, Engaged
<1>2. QED
  BY <1>1, SyncQueue, CrashQueued DEF SyncInv

\* The blank disk and the blank memory satisfy the invariant.
LEMMA InitSync ==
  ASSUME Init
  PROVE  SyncInv
<1>1. inodes \in [Slots -> Inode] /\ sb \in Super /\ BlankSuper \in Super
  BY BlankTyped DEF Init
<1>2. \A s \in Sectors : disk[s] \in Content(s)
  <2>1. TAKE s \in Sectors
  <2>2. CASE s = SuperSec
    BY <1>1, <2>2 DEF Init, Content
  <2>3. CASE s # SuperSec /\ s < DataStart
    <3>1. s - InodeSec \in 0 .. (Rows - 1) /\ InodeSec + (s - InodeSec) = s
      BY <2>3, FileSystemAssumption DEF Sectors, SuperSec, InodeSec, DataStart, DataSecs
    <3>2. disk[s] = Row(inodes, s - InodeSec)
      BY <2>3 DEF Init
    <3>3. Row(inodes, s - InodeSec) \in Content(InodeSec + (s - InodeSec))
      BY <1>1, <3>1, RowTyped
    <3>4. QED
      BY <3>1, <3>2, <3>3
  <2>4. CASE s # SuperSec /\ ~(s < DataStart)
    BY <2>4 DEF Init, Content
  <2>5. QED
    BY <2>2, <2>3, <2>4
<1>3. Len(todo) = 0 /\ Tables(todo) = {} /\ todo \in Seq(Writes)
  BY DEF Init, Tables
<1>4. TypeOK
  <2>1. /\ \A j \in 1 .. Len(todo) : todo[j].sector \in Sectors
                                      /\ todo[j].content \in Content(todo[j].sector)
        /\ Idle <=> todo = << >>
    BY <1>3 DEF Init, Idle
  <2>2. mounted \in BOOLEAN /\ crashes \in 0 .. MaxCrashes
    <3>1. mounted = FALSE /\ crashes = 0
      BY DEF Init
    <3>2. crashes \in 0 .. MaxCrashes
      BY <3>1, FileSystemAssumption
    <3>3. mounted \in BOOLEAN
      BY <3>1
    <3>4. QED
      BY <3>2, <3>3
  <2>3. DOMAIN disk = Sectors /\ DOMAIN wrote = Slots
    BY DEF Init
  <2>4. QED
    BY <1>1, <1>2, <2>1, <2>2, <2>3 DEF TypeOK
<1>5. QueueTyped /\ RowsCarryMemory /\ CallKinds /\ WillSync
  BY <1>3 DEF Init, QueueTyped, RowsCarryMemory, CallKinds, WillSync, Engaged
<1>6. QED
  BY <1>4, <1>5 DEF SyncInv, QueueInv

\* The disk starts blank.
LEMMA InitTable ==
  ASSUME Init
  PROVE  TableOnDisk = [i \in Slots |-> EmptyInode]
<1>1. ASSUME NEW i \in Slots
      PROVE  TableOnDisk[i] = EmptyInode
  <2> DEFINE r == i \div PerSector
             j == i % PerSector
             s == InodeSec + r
  <2>1. /\ r \in 0 .. (Rows - 1) /\ j \in 0 .. (PerSector - 1)
        /\ r * PerSector + j = i
    BY RowOfSlot
  <2>2. s \in Sectors /\ s # SuperSec /\ s < DataStart /\ s - InodeSec = r
    BY <2>1, FileSystemAssumption DEF Sectors, InodeSec, DataStart, SuperSec
  <2>3. TableOnDisk[i] = disk[s][j]
    BY DEF TableOnDisk
  <2> HIDE DEF r, j, s
  <2>4. disk[s] = Row(inodes, r)
    BY <2>2 DEF Init
  <2>5. Row(inodes, r)[j] = inodes[i]
    BY <2>1 DEF Row
  <2>6. QED
    BY <2>3, <2>4, <2>5 DEF Init
<1>2. QED
  BY <1>1 DEF TableOnDisk

\* Every step keeps the invariant.
LEMMA NextSync ==
  ASSUME SyncInv, [Next]_vars
  PROVE  SyncInv'
<1>1. CASE Format
  BY <1>1, FormatSync
<1>2. CASE Mount
  BY <1>2, MountSync
<1>3. CASE Unmount
  BY <1>3, UnmountSync
<1>4. ASSUME NEW n \in Names, CreateFile(n)
      PROVE  SyncInv'
  BY <1>4, CreateSync
<1>5. ASSUME NEW n \in Names, DeleteFile(n)
      PROVE  SyncInv'
  BY <1>5, DeleteSync
<1>6. ASSUME NEW i \in Slots, NEW v \in Values, NEW k \in Sizes, WriteFile(i, v, k)
      PROVE  SyncInv'
  BY <1>6, WriteSync
<1>7. ASSUME NEW s \in TestSectors, DiskCommand(s)
      PROVE  SyncInv'
  BY <1>7, DiskSync
<1>8. CASE WriteSector
  BY <1>8, SectorSync
<1>9. CASE Crash
  BY <1>9, CrashSync
<1>10. CASE UNCHANGED vars
  BY <1>10 DEF vars, SyncInv, QueueInv, TypeOK, Idle, QueueTyped, CallKinds, RowsCarryMemory,
               WillSync, Engaged
<1>11. QED
  BY <1>1, <1>2, <1>3, <1>4, <1>5, <1>6, <1>7, <1>8, <1>9, <1>10 DEF Next

\* The invariant holds in every state.
LEMMA SpecSync == Spec => []SyncInv
<1>1. Init => SyncInv
  BY InitSync
<1>2. SyncInv /\ [Next]_vars => SyncInv'
  BY NextSync
<1>3. QED
  BY <1>1, <1>2, PTL DEF Spec

\* The tables in memory and every sector of the disk stay typed: a metadata
\* sector never receives file data, whatever is written.
THEOREM FileSystemTypes == Spec => []TypeOK
<1>1. SyncInv => TypeOK
  BY DEF SyncInv, QueueInv
<1>2. QED
  BY <1>1, SpecSync, PTL

\* Every call that returned survives a power loss: when no call runs, what is
\* mounted is what is on disk.
THEOREM ReturnedIsDurable == Spec => []Durable
<1>1. SyncInv => Durable
  BY SyncDurable
<1>2. QED
  BY <1>1, SpecSync, PTL

-----------------------------------------------------------------------------
(* The superblock is ahead of the table. *)

\* The calls after which the memory describes the files on disk.
Kept == (mounted \/ call = "Unmount") /\ call # "Format"

\* Every file of the table t lies within the first n data sectors.
Below(t, n) == \A i \in Live(t) : Extent(t[i]) \subseteq DataStart .. (DataStart + n - 1)

\* What is in memory lies below the superblock in memory; the superblocks still
\* to be written are ever further ahead; and where the table is still to be
\* written, the superblock was written or will be before it.
FrontierInv ==
  /\ FrontierAhead
  /\ Kept => Below(inodes, sb.used)
  /\ call # "Format" =>
       \A j \in Supers(todo) :
         /\ disk[SuperSec].used <= todo[j].content.used
         /\ \A l \in Supers(todo) : j <= l => todo[j].content.used <= todo[l].content.used
  /\ call # "Format" =>
       \A j \in Tables(todo) :
         \/ sb.used <= disk[SuperSec].used
         \/ \E l \in Supers(todo) : l < j /\ sb.used <= todo[l].content.used

\* More room holds what less room held.
LEMMA BelowMore ==
  ASSUME NEW t, NEW n \in Int, NEW m \in Int, n <= m, Below(t, n)
  PROVE  Below(t, m)
<1>1. DataStart .. (DataStart + n - 1) \subseteq DataStart .. (DataStart + m - 1)
  BY FileSystemAssumption DEF DataStart, InodeSec
<1>2. QED
  BY <1>1 DEF Below

\* A sector written changes the table on disk only to what is in memory.
LEMMA TableAfterWrite ==
  ASSUME SyncInv, WriteSector
  PROVE  /\ disk[SuperSec] \in Super /\ disk'[SuperSec] \in Super
         /\ disk'[SuperSec] = IF todo[1].sector = SuperSec THEN todo[1].content
                              ELSE disk[SuperSec]
         /\ TableOnDisk \in [Slots -> Inode] /\ TableOnDisk' \in [Slots -> Inode]
         /\ todo[1].sector \notin RowSecs => TableOnDisk' = TableOnDisk
         /\ \A i \in Slots : TableOnDisk'[i] \in {TableOnDisk[i], inodes[i]}
         /\ todo[1].sector \in RowSecs <=> 1 \in Tables(todo)
         /\ todo[1].sector = SuperSec <=> 1 \in Supers(todo)
<1>1. /\ TableOnDisk \in [Slots -> Inode]
      /\ disk[SuperSec] \in Super
  BY TableTyped DEF SyncInv, QueueInv
<1>2. (TypeOK => TableOnDisk \in [Slots -> Inode] /\ disk[SuperSec] \in Super)'
  BY TableTyped, PTL
<1>3. TableOnDisk' \in [Slots -> Inode] /\ disk'[SuperSec] \in Super
  BY <1>2, SectorSync DEF SyncInv, QueueInv
<1>4. /\ disk' = [disk EXCEPT ![todo[1].sector] = todo[1].content]
      /\ DOMAIN disk = Sectors /\ todo[1].sector \in Sectors
      /\ 1 \in 1 .. Len(todo)
  BY SyncQueue, HeadWrite
<1>5. disk'[SuperSec] = IF todo[1].sector = SuperSec THEN todo[1].content
                        ELSE disk[SuperSec]
  <2>1. SuperSec \in Sectors
    BY FileSystemAssumption DEF Sectors, SuperSec, DataStart, InodeSec
  <2>2. QED
    BY <1>4, <2>1
<1>6. /\ todo[1].sector \in RowSecs <=> 1 \in Tables(todo)
      /\ todo[1].sector = SuperSec <=> 1 \in Supers(todo)
  BY <1>4 DEF Tables, Supers
<1>7. ASSUME NEW i \in Slots
      PROVE  TableOnDisk'[i] = IF todo[1].sector = InodeSec + (i \div PerSector)
                               THEN inodes[i] ELSE TableOnDisk[i]
  <2> DEFINE r == i \div PerSector
             j == i % PerSector
  <2>1. /\ r \in 0 .. (Rows - 1) /\ j \in 0 .. (PerSector - 1)
        /\ r * PerSector + j = i
    BY RowOfSlot
  <2>2. InodeSec + r \in Sectors /\ InodeSec + r \in RowSecs /\ (InodeSec + r) - InodeSec = r
    BY <2>1, FileSystemAssumption DEF RowSecs, Sectors, InodeSec, DataStart, SuperSec
  <2>3. TableOnDisk[i] = disk[InodeSec + r][j] /\ TableOnDisk'[i] = disk'[InodeSec + r][j]
    BY DEF TableOnDisk
  <2> HIDE DEF r, j
  <2>4. CASE todo[1].sector = InodeSec + r
    <3>1. 1 \in Tables(todo)
      BY <1>6, <2>2, <2>4
    <3>2. todo[1].content = Row(inodes, r)
      BY <2>2, <2>4, <3>1 DEF SyncInv, QueueInv, RowsCarryMemory
    <3>3. Row(inodes, r)[j] = inodes[i]
      BY <2>1 DEF Row
    <3>4. disk'[InodeSec + r] = Row(inodes, r)
      BY <1>4, <2>2, <2>4, <3>2
    <3>5. QED
      BY <2>3, <2>4, <3>3, <3>4 DEF r
  <2>5. CASE todo[1].sector # InodeSec + r
    <3>1. disk'[InodeSec + r] = disk[InodeSec + r]
      BY <1>4, <2>2, <2>5
    <3>2. QED
      BY <2>3, <2>5, <3>1 DEF r
  <2>6. QED
    BY <2>4, <2>5
<1>8. ASSUME todo[1].sector \notin RowSecs
      PROVE  TableOnDisk' = TableOnDisk
  <2>1. ASSUME NEW i \in Slots
        PROVE  TableOnDisk'[i] = TableOnDisk[i]
    <3>1. InodeSec + (i \div PerSector) \in RowSecs
      BY RowOfSlot, FileSystemAssumption DEF RowSecs, InodeSec, DataStart
    <3>2. QED
      BY <1>7, <1>8, <3>1
  <2>2. QED
    BY <1>1, <1>3, <2>1
<1>9. QED
  BY <1>1, <1>3, <1>5, <1>6, <1>7, <1>8

\* Format leaves the disk alone and claims nothing yet.
LEMMA FormatFrontier ==
  ASSUME SyncInv, Format
  PROVE  FrontierInv'
<1>1. call' = "Format"
  BY DEF Format, Begin
<1>2. QED
  BY <1>1 DEF FrontierInv, FrontierAhead, Kept

\* Mount takes over what the disk has.
LEMMA MountFrontier ==
  ASSUME SyncInv, FrontierInv, Mount
  PROVE  FrontierInv'
<1>1. /\ Idle /\ sb' = disk[SuperSec] /\ disk' = disk /\ call' = call /\ todo' = todo
      /\ \/ disk[SuperSec].magic /\ inodes' = TableOnDisk /\ mounted' = TRUE
         \/ inodes' = inodes /\ mounted' = mounted
  BY DEF Mount
<1>2. todo = << >> /\ Tables(todo) = {} /\ Supers(todo) = {}
  BY <1>1, IdleSynced DEF Tables, Supers
<1>3. TableOnDisk' = TableOnDisk
  BY <1>1 DEF TableOnDisk
<1>4. call = "idle" /\ Below(TableOnDisk, disk[SuperSec].used)
  BY <1>1 DEF Idle, FrontierInv, FrontierAhead, Below
<1>5. FrontierAhead'
  BY <1>1, <1>3, <1>4 DEF FrontierAhead, Below
<1>6. ASSUME Kept'
      PROVE  Below(inodes', sb'.used)
  <2>1. mounted'
    BY <1>1, <1>4, <1>6 DEF Kept
  <2>2. inodes' = TableOnDisk
    BY <1>1, <2>1, IdleSynced
  <2>3. QED
    BY <1>1, <1>4, <2>2
<1>7. Tables(todo') = {} /\ Supers(todo') = {}
  BY <1>1, <1>2
<1>8. QED
  BY <1>5, <1>6, <1>7 DEF FrontierInv, Below

\* A call made on a mounted disk: what the memory then has lies below the
\* superblock it then has, and the queue is in order.
LEMMA CallFrontier ==
  ASSUME SyncInv, FrontierInv, Idle, disk' = disk, call' # "Format",
         sb' \in Super, sb.used <= sb'.used, sb = disk[SuperSec],
         Below(inodes', sb'.used),
         \A j \in Supers(todo') :
           /\ sb.used <= todo'[j].content.used
           /\ \A l \in Supers(todo') : j <= l => todo'[j].content.used <= todo'[l].content.used,
         \A j \in Tables(todo') :
           sb'.used <= sb.used \/ \E l \in Supers(todo') : l < j /\ todo'[l].content = sb'
  PROVE  FrontierInv'
<1>1. call = "idle"
  BY DEF Idle
<1>2. TableOnDisk' = TableOnDisk /\ disk'[SuperSec] = sb
  BY DEF TableOnDisk
<1>3. sb.used \in Int /\ sb'.used \in Int
  BY DEF SyncInv, QueueInv, TypeOK, Super
<1>4. FrontierAhead'
  BY <1>1, <1>2 DEF FrontierInv, FrontierAhead
<1>5. \A j \in Tables(todo') :
        \/ sb'.used <= disk'[SuperSec].used
        \/ \E l \in Supers(todo') : l < j /\ sb'.used <= todo'[l].content.used
  BY <1>2, <1>3
<1>6. QED
  BY <1>2, <1>4, <1>5 DEF FrontierInv, Below

\* Unmount saves what is in memory.
LEMMA UnmountFrontier ==
  ASSUME SyncInv, FrontierInv, Unmount
  PROVE  FrontierInv'
<1>1. Idle /\ mounted /\ disk' = disk /\ call' = "Unmount" /\ sb' = sb /\ inodes' = inodes
  BY DEF Unmount, Begin
<1>2. sb = disk[SuperSec]
  BY <1>1, IdleSynced
<1>3. Below(inodes, sb.used) /\ sb \in Super /\ sb.used \in Int
  BY <1>1 DEF FrontierInv, Kept, Idle, SyncInv, QueueInv, TypeOK, Super
<1>4. \A j \in Supers(todo') : todo'[j].content = sb
  BY <1>1, SyncQueue, UnmountQueue
<1>5. QED
  BY <1>1, <1>2, <1>3, <1>4, CallFrontier

\* A new file has no sector.
LEMMA CreateFrontier ==
  ASSUME SyncInv, FrontierInv, NEW n \in Names, CreateFile(n)
  PROVE  FrontierInv'
<1>1. Idle /\ mounted /\ disk' = disk /\ call' = "CreateFile"
  BY DEF CreateFile, Begin
<1>2. sb = disk[SuperSec]
  BY <1>1, IdleSynced
<1>3. Below(inodes, sb.used) /\ sb \in Super /\ sb.used \in Int
      /\ inodes \in [Slots -> Inode]
  BY <1>1 DEF FrontierInv, Kept, Idle, SyncInv, QueueInv, TypeOK, Super
<1>4. sb' \in Super /\ sb'.used = sb.used
  BY <1>3, SyncQueue, CreateQueue DEF Super
<1>5. \A j \in Supers(todo') : todo'[j].content = sb'
  BY SyncQueue, CreateQueue
<1>6. Below(inodes', sb.used)
  <2>1. SUFFICES ASSUME NEW i \in Live(inodes')
                 PROVE  Extent(inodes'[i]) \subseteq DataStart .. (DataStart + sb.used - 1)
    BY DEF Below
  <2>2. CASE i = FindFreeInode
    <3>1. inodes'[i].start = 0
      BY <1>3, <2>2, SyncQueue, CreateQueue
    <3>2. QED
      BY <3>1 DEF Extent
  <2>3. CASE i # FindFreeInode
    <3>1. i \in Slots /\ inodes'[i] = inodes[i] /\ i \in Live(inodes)
      BY <1>3, <2>1, <2>3, SyncQueue, CreateQueue DEF Live
    <3>2. QED
      BY <1>3, <3>1 DEF Below
  <2>4. QED
    BY <2>2, <2>3
<1>7. \A j \in Supers(todo') :
        /\ sb.used <= todo'[j].content.used
        /\ \A l \in Supers(todo') : j <= l => todo'[j].content.used <= todo'[l].content.used
  BY <1>3, <1>4, <1>5
<1>8. QED
  BY <1>1, <1>2, <1>3, <1>4, <1>5, <1>6, <1>7, CallFrontier

\* A deleted file has none.
LEMMA DeleteFrontier ==
  ASSUME SyncInv, FrontierInv, NEW n \in Names, DeleteFile(n)
  PROVE  FrontierInv'
<1>1. Idle /\ mounted /\ disk' = disk /\ call' = "DeleteFile"
  BY DEF DeleteFile, Begin
<1>2. sb = disk[SuperSec]
  BY <1>1, IdleSynced
<1>3. Below(inodes, sb.used) /\ sb \in Super /\ sb.used \in Int
      /\ inodes \in [Slots -> Inode]
  BY <1>1 DEF FrontierInv, Kept, Idle, SyncInv, QueueInv, TypeOK, Super
<1>4. sb' \in Super /\ sb'.used = sb.used
  BY <1>3, SyncQueue, DeleteQueue DEF Super
<1>5. \A j \in Supers(todo') : todo'[j].content = sb'
  BY SyncQueue, DeleteQueue
<1>6. Below(inodes', sb.used)
  <2>1. SUFFICES ASSUME NEW i \in Live(inodes')
                 PROVE  Extent(inodes'[i]) \subseteq DataStart .. (DataStart + sb.used - 1)
    BY DEF Below
  <2>2. OpenFile(n) \in Slots /\ inodes'[OpenFile(n)].type = "empty"
    BY SyncQueue, DeleteQueue
  <2>3. i \in Slots /\ i # OpenFile(n)
    BY <2>1, <2>2 DEF Live
  <2>4. inodes'[i] = inodes[i]
    BY <1>3, <2>3, SyncQueue, DeleteQueue
  <2>5. i \in Live(inodes)
    BY <2>1, <2>4 DEF Live
  <2>6. QED
    BY <1>3, <2>4, <2>5 DEF Below
<1>7. \A j \in Supers(todo') :
        /\ sb.used <= todo'[j].content.used
        /\ \A l \in Supers(todo') : j <= l => todo'[j].content.used <= todo'[l].content.used
  BY <1>3, <1>4, <1>5
<1>8. QED
  BY <1>1, <1>2, <1>3, <1>4, <1>5, <1>6, <1>7, CallFrontier

\* The numbers in an inode.
LEMMA InodeFields ==
  ASSUME NEW f \in Inode
  PROVE  /\ f.start \in Nat /\ f.size \in Nat
         /\ f.size \in Sizes \cup {0}
         /\ f.start # 0 => f.start \in DataSecs /\ DataStart <= f.start
         /\ DataStart \in Nat \ {0}
<1>1. f.size \in Sizes \cup {0} /\ f.start \in {0} \cup DataSecs
  BY DEF Inode
<1>2. DataSecs \subseteq Nat /\ 0 \in Nat /\ DataStart \in Nat \ {0}
  BY FileSystemAssumption DEF DataSecs, DataStart, InodeSec
<1>3. \A s \in DataSecs : DataStart <= s
  BY FileSystemAssumption DEF DataSecs, DataStart, InodeSec
<1>4. Sizes \cup {0} \subseteq Nat
  BY FileSystemAssumption
<1>5. QED
  BY <1>1, <1>2, <1>3, <1>4, Zenon

\* The last sector of an extent, as a number.
LEMMA ExtentBounds ==
  ASSUME NEW f, f.start \in Nat, f.size \in Nat
  PROVE  /\ f.start = 0 => Extent(f) = {}
         /\ f.start # 0 =>
              Extent(f) = f.start .. (f.start + (IF f.size = 0 THEN 0 ELSE f.size - 1))
         /\ f.start # 0 => f.start \in Extent(f)
  BY DEF Extent

\* A sector is allocated before a file gets it, on disk too.
LEMMA WriteFrontier ==
  ASSUME SyncInv, FrontierInv,
         NEW i \in Slots, NEW v \in Values, NEW k \in Sizes, WriteFile(i, v, k)
  PROVE  FrontierInv'
<1>1. Idle /\ mounted /\ disk' = disk /\ call' = "WriteFile"
  BY DEF WriteFile, Begin
<1>2. sb = disk[SuperSec]
  BY <1>1, IdleSynced
<1>3. /\ Below(inodes, sb.used) /\ sb \in Super /\ sb.used \in Nat
      /\ inodes \in [Slots -> Inode] /\ k \in Nat
      /\ First(i) \in {0, 1} /\ Extra(k) \in Nat
      /\ DataStart \in Nat \ {0}
  BY <1>1, FileSystemAssumption
     DEF FrontierInv, Kept, Idle, SyncInv, QueueInv, TypeOK, Super, First, Extra, DataStart, InodeSec
<1>4. /\ SavesFile(todo', inodes', sb', v)
      /\ sb' = [sb EXCEPT !.used = sb.used + (First(i) + Extra(k))]
      /\ inodes' = [inodes EXCEPT ![i].start = Start(i), ![i].size = k]
      /\ i \in Live(inodes)
      /\ Start(i) \in DataSecs
  BY SyncQueue, WriteQueue
<1>5. sb' \in Super /\ sb'.used = sb.used + (First(i) + Extra(k))
  BY <1>3, <1>4 DEF SavesFile, Super
<1>6. Below(inodes', sb'.used)
  <2>1. SUFFICES ASSUME NEW l \in Live(inodes')
                 PROVE  Extent(inodes'[l]) \subseteq DataStart .. (DataStart + sb'.used - 1)
    BY DEF Below
  <2>2. Below(inodes, sb'.used)
    BY <1>3, <1>5, BelowMore
  <2>3. CASE l # i
    <3>1. l \in Slots /\ inodes'[l] = inodes[l] /\ l \in Live(inodes)
      BY <1>3, <1>4, <2>1, <2>3 DEF Live
    <3>2. QED
      BY <2>2, <3>1 DEF Below
  <2>4. CASE l = i
    <3>1. inodes'[i].start = Start(i) /\ inodes'[i].size = k
      BY <1>3, <1>4
    <3>2. Start(i) \in Nat /\ DataStart <= Start(i)
      BY <1>3, <1>4, FileSystemAssumption DEF DataSecs
    <3>3. Extent(inodes'[i]) = Start(i) .. (Start(i) + Extra(k))
      BY <1>3, <3>1, <3>2 DEF Extent, Extra
    <3>4. Start(i) + Extra(k) <= DataStart + sb'.used - 1
      <4>1. CASE inodes[i].start = 0
        <5>1. Start(i) = DataStart + sb.used /\ First(i) = 1
          BY <4>1 DEF Start, NextSector, First
        <5>2. QED
          BY <1>3, <1>5, <5>1
      <4>2. CASE inodes[i].start # 0
        <5>1. Start(i) = inodes[i].start /\ First(i) = 0
          BY <4>2 DEF Start, First
        <5>2. inodes[i] \in Inode /\ inodes[i].start \in Nat /\ inodes[i].size \in Nat
          BY <1>3, InodeFields
        <5>3. Start(i) \in Extent(inodes[i])
          BY <4>2, <5>1, <5>2, ExtentBounds
        <5>4. Start(i) <= DataStart + sb.used - 1
          BY <1>3, <1>4, <5>3 DEF Below
        <5>5. QED
          BY <1>3, <1>5, <3>2, <5>1, <5>4
      <4>3. QED
        BY <4>1, <4>2
    <3>5. QED
      BY <1>3, <1>5, <2>4, <3>2, <3>3, <3>4
  <2>5. QED
    BY <2>3, <2>4
<1>7. /\ \A j \in Supers(todo') :
           /\ sb.used <= todo'[j].content.used
           /\ \A l \in Supers(todo') : j <= l => todo'[j].content.used <= todo'[l].content.used
      /\ \A j \in Tables(todo') :
           sb' = sb \/ \E l \in Supers(todo') : l < j /\ todo'[l].content = sb'
  BY <1>4 DEF SavesFile
<1>8. \A j \in Tables(todo') :
        sb'.used <= sb.used \/ \E l \in Supers(todo') : l < j /\ todo'[l].content = sb'
  BY <1>3, <1>7
<1>9. sb.used <= sb'.used
  BY <1>3, <1>5
<1>10. QED
  BY <1>1, <1>2, <1>5, <1>6, <1>7, <1>8, <1>9, CallFrontier

\* The disk command touches no metadata.
LEMMA DiskFrontier ==
  ASSUME SyncInv, FrontierInv, NEW s \in TestSectors, DiskCommand(s)
  PROVE  FrontierInv'
<1>1. /\ call = "idle" /\ call' = "disk"
      /\ mounted' = mounted /\ sb' = sb /\ inodes' = inodes /\ disk' = disk
  BY DEF DiskCommand, Begin, Idle
<1>2. TableOnDisk' = TableOnDisk
  BY <1>1 DEF TableOnDisk
<1>3. FrontierAhead'
  BY <1>1, <1>2 DEF FrontierInv, FrontierAhead
<1>4. Supers(todo') = {} /\ Tables(todo') = {}
  BY SyncQueue, DiskQueue
<1>5. QED
  BY <1>1, <1>3, <1>4 DEF FrontierInv, Kept, Below

\* Only calls on a mounted disk, Unmount and Format write the table.
LEMMA TableWriteKept ==
  ASSUME SyncInv, call # "idle", call # "Format", todo[1].sector \in RowSecs
  PROVE  Kept
<1>1. RowSecs \cap DataSecs = {}
  BY FileSystemAssumption DEF RowSecs, DataSecs, DataStart, InodeSec
<1>2. call # "disk"
  BY <1>1 DEF SyncInv, QueueInv, CallKinds
<1>3. call \in {"Unmount", "CreateFile", "DeleteFile", "WriteFile"}
  BY <1>2 DEF SyncInv, QueueInv, CallKinds
<1>4. QED
  BY <1>3 DEF SyncInv, QueueInv, CallKinds, Kept

\* Every write done on the way keeps the superblock ahead.
LEMMA SectorFrontier ==
  ASSUME SyncInv, FrontierInv, WriteSector
  PROVE  FrontierInv'
<1>1. /\ call' = IF Len(todo) = 1 THEN "idle" ELSE call
      /\ call # "idle"
      /\ mounted' = mounted /\ sb' = sb /\ inodes' = inodes
      /\ Len(todo) \in Nat \ {0} /\ 1 \in 1 .. Len(todo)
  BY SyncQueue, HeadWrite
<1>2. CASE call = "Format"
  <2>1. CASE call' = "Format"
    BY <2>1 DEF FrontierInv, FrontierAhead, Kept
  <2>2. CASE call' # "Format"
    <3>1. Len(todo) = 1 /\ Engaged /\ Live(inodes) = {}
      BY <1>1, <1>2, <2>2 DEF Engaged, SyncInv, QueueInv, CallKinds
    <3>2. TableOnDisk' = inodes
      BY <3>1, DoneIsSynced
    <3>3. Len(todo') = 0 /\ Supers(todo') = {} /\ Tables(todo') = {}
      BY <3>1, SyncQueue, HeadWrite DEF Supers, Tables
    <3>4. FrontierAhead' /\ Below(inodes', sb'.used)
      BY <1>1, <3>1, <3>2 DEF FrontierAhead, Below
    <3>5. QED
      BY <3>3, <3>4 DEF FrontierInv, Below
  <2>3. QED
    BY <2>1, <2>2
<1>3. CASE call # "Format"
  <2>1. call' # "Format" /\ Below(TableOnDisk, disk[SuperSec].used)
    BY <1>1, <1>3 DEF FrontierInv, FrontierAhead, Below
  <2>2. /\ disk[SuperSec] \in Super /\ disk'[SuperSec] \in Super
        /\ disk[SuperSec].used \in Nat /\ disk'[SuperSec].used \in Nat
        /\ sb.used \in Nat
    BY TableAfterWrite DEF Super, SyncInv, QueueInv, TypeOK
  <2>3. \A j \in Supers(todo) :
          /\ disk[SuperSec].used <= todo[j].content.used
          /\ \A l \in Supers(todo) : j <= l => todo[j].content.used <= todo[l].content.used
    BY <1>3 DEF FrontierInv
  <2>4. /\ disk[SuperSec].used <= disk'[SuperSec].used
        /\ \A j \in Supers(todo') :
             /\ disk'[SuperSec].used <= todo'[j].content.used
             /\ \A l \in Supers(todo') :
                  j <= l => todo'[j].content.used <= todo'[l].content.used
    <3>1. \A j \in Supers(todo') :
            /\ j \in Nat /\ 1 <= j + 1
            /\ j + 1 \in Supers(todo)
            /\ todo'[j] = todo[j + 1]
      BY SyncQueue, TailPlaces DEF Supers
    <3>2. \A j \in Supers(todo') : \A l \in Supers(todo') :
            j <= l => todo'[j].content.used <= todo'[l].content.used
      <4>1. TAKE j \in Supers(todo')
      <4>2. TAKE l \in Supers(todo')
      <4>3. j <= l => j + 1 <= l + 1
        BY <3>1
      <4>4. QED
        BY <2>3, <3>1, <4>3
    <3>3. CASE todo[1].sector = SuperSec
      <4>1. 1 \in Supers(todo) /\ disk'[SuperSec] = todo[1].content
        BY <3>3, TableAfterWrite
      <4>2. QED
        BY <2>3, <3>1, <3>2, <4>1
    <3>4. CASE todo[1].sector # SuperSec
      <4>1. disk'[SuperSec] = disk[SuperSec]
        BY <3>4, TableAfterWrite
      <4>2. QED
        BY <2>2, <2>3, <3>1, <3>2, <4>1
    <3>5. QED
      BY <3>3, <3>4
  <2>5. \A j \in Tables(todo') :
          \/ sb'.used <= disk'[SuperSec].used
          \/ \E l \in Supers(todo') : l < j /\ sb'.used <= todo'[l].content.used
    <3>1. TAKE j \in Tables(todo')
    <3>2. j + 1 \in Tables(todo) /\ j \in Nat
      BY SyncQueue, TailPlaces DEF Tables
    <3>3. CASE sb.used <= disk[SuperSec].used
      BY <1>1, <2>2, <2>4, <3>3
    <3>4. CASE \E l \in Supers(todo) : l < j + 1 /\ sb.used <= todo[l].content.used
      <4>1. PICK l \in Supers(todo) : l < j + 1 /\ sb.used <= todo[l].content.used
        BY <3>4
      <4>2. CASE l = 1
        <5>1. disk'[SuperSec] = todo[1].content
          BY <4>2, TableAfterWrite
        <5>2. QED
          BY <1>1, <4>1, <4>2, <5>1
      <4>3. CASE l # 1
        <5>1. l - 1 \in Supers(todo') /\ todo[l] = todo'[l - 1] /\ l \in Nat
          BY <4>3, SyncQueue, TailPlaces DEF Supers
        <5>2. l - 1 < j
          BY <3>2, <4>1, <5>1
        <5>3. QED
          BY <1>1, <4>1, <5>1, <5>2
      <4>4. QED
        BY <4>2, <4>3
    <3>5. QED
      BY <1>3, <3>2, <3>3, <3>4 DEF FrontierInv
  <2>6. Below(TableOnDisk', disk'[SuperSec].used)
    <3>1. Below(TableOnDisk, disk'[SuperSec].used)
      BY <2>1, <2>2, <2>4, BelowMore
    <3>2. CASE todo[1].sector \notin RowSecs
      BY <3>1, <3>2, TableAfterWrite
    <3>3. CASE todo[1].sector \in RowSecs
      <4>1. 1 \in Tables(todo) /\ disk'[SuperSec] = disk[SuperSec]
        BY <3>3, TableAfterWrite, FileSystemAssumption DEF RowSecs, SuperSec, InodeSec
      <4>2. ~\E l \in Supers(todo) : l < 1
        BY DEF Supers
      <4>3. sb.used <= disk'[SuperSec].used
        BY <1>3, <4>1, <4>2 DEF FrontierInv
      <4>4. Kept
        BY <1>1, <1>3, <3>3, TableWriteKept
      <4>5. Below(inodes, disk'[SuperSec].used)
        BY <1>3, <2>2, <4>3, <4>4, BelowMore DEF FrontierInv
      <4>6. ASSUME NEW i \in Live(TableOnDisk')
            PROVE  Extent(TableOnDisk'[i]) \subseteq
                     DataStart .. (DataStart + disk'[SuperSec].used - 1)
        <5>1. i \in Slots /\ TableOnDisk'[i].type # "empty"
          BY DEF Live
        <5>2. TableOnDisk'[i] = TableOnDisk[i] \/ TableOnDisk'[i] = inodes[i]
          BY <5>1, TableAfterWrite
        <5>3. \/ i \in Live(TableOnDisk) /\ TableOnDisk'[i] = TableOnDisk[i]
              \/ i \in Live(inodes) /\ TableOnDisk'[i] = inodes[i]
          BY <5>1, <5>2 DEF Live
        <5>4. QED
          BY <3>1, <4>5, <5>3 DEF Below
      <4>7. QED
        BY <4>6 DEF Below
    <3>4. QED
      BY <3>2, <3>3
  <2>7. Kept' => Below(inodes', sb'.used)
    BY <1>1, <1>3 DEF Kept, FrontierInv
  <2>8. QED
    BY <2>1, <2>4, <2>5, <2>6, <2>7 DEF FrontierInv, FrontierAhead, Below
<1>4. QED
  BY <1>2, <1>3

\* A power loss outside Format leaves the superblock ahead.
LEMMA CrashFrontier ==
  ASSUME TornFormat = FALSE, SyncInv, FrontierInv, Crash
  PROVE  FrontierInv'
<1>1. /\ call # "Format" /\ call' = "idle" /\ mounted' = FALSE
      /\ disk' = disk /\ todo' = << >>
  BY DEF Crash
<1>2. TableOnDisk' = TableOnDisk
  BY <1>1 DEF TableOnDisk
<1>3. FrontierAhead'
  BY <1>1, <1>2 DEF FrontierInv, FrontierAhead
<1>4. Supers(todo') = {} /\ Tables(todo') = {}
  BY <1>1 DEF Supers, Tables
<1>5. QED
  BY <1>1, <1>3, <1>4 DEF FrontierInv, Kept

\* No file, no sector.
LEMMA InitFrontier ==
  ASSUME Init
  PROVE  FrontierInv
<1>1. mounted = FALSE /\ call = "idle" /\ todo = << >>
  BY DEF Init
<1>2. Supers(todo) = {} /\ Tables(todo) = {}
  BY <1>1 DEF Supers, Tables
<1>3. Live(TableOnDisk) = {}
  BY InitTable, BlankTyped
<1>4. QED
  BY <1>1, <1>2, <1>3 DEF FrontierInv, FrontierAhead, Kept

\* Every step keeps the superblock ahead.
LEMMA NextFrontier ==
  ASSUME TornFormat = FALSE, SyncInv, FrontierInv, [Next]_vars
  PROVE  FrontierInv'
<1>1. CASE Format
  BY <1>1, FormatFrontier
<1>2. CASE Mount
  BY <1>2, MountFrontier
<1>3. CASE Unmount
  BY <1>3, UnmountFrontier
<1>4. ASSUME NEW n \in Names, CreateFile(n)
      PROVE  FrontierInv'
  BY <1>4, CreateFrontier
<1>5. ASSUME NEW n \in Names, DeleteFile(n)
      PROVE  FrontierInv'
  BY <1>5, DeleteFrontier
<1>6. ASSUME NEW i \in Slots, NEW v \in Values, NEW k \in Sizes, WriteFile(i, v, k)
      PROVE  FrontierInv'
  BY <1>6, WriteFrontier
<1>7. ASSUME NEW s \in TestSectors, DiskCommand(s)
      PROVE  FrontierInv'
  BY <1>7, DiskFrontier
<1>8. CASE WriteSector
  BY <1>8, SectorFrontier
<1>9. CASE Crash
  BY <1>9, CrashFrontier
<1>10. CASE UNCHANGED vars
  <2>1. UNCHANGED <<mounted, sb, inodes, disk, call, todo>>
    BY <1>10 DEF vars
  <2>2. TableOnDisk' = TableOnDisk
    BY <2>1 DEF TableOnDisk
  <2>3. QED
    BY <2>1, <2>2 DEF FrontierInv, FrontierAhead, Kept, Below
<1>11. QED
  BY <1>1, <1>2, <1>3, <1>4, <1>5, <1>6, <1>7, <1>8, <1>9, <1>10 DEF Next

\* When power is not lost while Format writes, the superblock on disk is always
\* ahead of the inode table on disk: a mount after any power loss never gives a
\* new file a sector some file has.
THEOREM SuperblockAhead == ASSUME TornFormat = FALSE PROVE Spec => []FrontierAhead
<1>1. Init => FrontierInv
  BY InitFrontier
<1>2. SyncInv /\ FrontierInv /\ [Next]_vars => FrontierInv'
  BY NextFrontier
<1>3. FrontierInv => FrontierAhead
  BY DEF FrontierInv
<1>4. QED
  BY <1>1, <1>2, <1>3, SpecSync, PTL DEF Spec

-----------------------------------------------------------------------------
(* No two files share a sector. *)

\* No file of t has a sector of another slot's file of u.
Apart(t, u) ==
  \A i \in Live(t) : \A j \in Live(u) : i # j => Extent(t[i]) \cap Extent(u[j]) = {}

\* On disk, in memory, and between the two: a power loss may leave any mixture.
DisjointInv ==
  /\ Apart(TableOnDisk, TableOnDisk)
  /\ Apart(TableOnDisk, inodes)
  /\ Apart(inodes, inodes)

\* A file gets a sector no other file has.
LEMMA WriteDisjoint ==
  ASSUME Sizes \subseteq {0, 1}, SyncInv, FrontierInv, DisjointInv,
         NEW i \in Slots, NEW v \in Values, NEW k \in Sizes, WriteFile(i, v, k)
  PROVE  DisjointInv'
<1>1. Idle /\ call = "idle" /\ mounted /\ disk' = disk
  BY DEF WriteFile, Begin, Idle
<1>2. inodes = TableOnDisk /\ TableOnDisk' = TableOnDisk
  BY <1>1, IdleSynced DEF TableOnDisk
<1>3. /\ Below(inodes, sb.used) /\ sb.used \in Nat /\ inodes \in [Slots -> Inode]
      /\ k \in {0, 1} /\ DataStart \in Nat
  BY <1>1, FileSystemAssumption
     DEF FrontierInv, Kept, SyncInv, QueueInv, TypeOK, Super, DataStart, InodeSec
<1>4. /\ inodes' = [inodes EXCEPT ![i].start = Start(i), ![i].size = k]
      /\ inodes' \in [Slots -> Inode]
      /\ i \in Live(inodes)
      /\ Start(i) \in DataSecs
  BY SyncQueue, WriteQueue
<1>5. Start(i) \in Nat /\ Start(i) # 0
  BY <1>4, FileSystemAssumption DEF DataSecs, DataStart, InodeSec
<1>6. Extent(inodes'[i]) = {Start(i)}
  <2>1. inodes'[i].start = Start(i) /\ inodes'[i].size = k
    BY <1>3, <1>4
  <2>2. Extent(inodes'[i]) = Start(i) .. Start(i)
    BY <1>3, <1>5, <2>1 DEF Extent
  <2>3. QED
    BY <1>5, <2>2
<1>7. \A j \in Live(inodes') : j \in Live(inodes) /\ (j # i => inodes'[j] = inodes[j])
  BY <1>3, <1>4 DEF Live
<1>8. \A j \in Live(inodes) : j # i => Start(i) \notin Extent(inodes[j])
  <2>1. TAKE j \in Live(inodes)
  <2>2. CASE inodes[i].start = 0
    <3>1. Start(i) = DataStart + sb.used
      BY <2>2 DEF Start, NextSector
    <3>2. Extent(inodes[j]) \subseteq DataStart .. (DataStart + sb.used - 1)
      BY <1>3 DEF Below
    <3>3. QED
      BY <1>3, <3>1, <3>2
  <2>3. CASE inodes[i].start # 0
    <3>1. Start(i) = inodes[i].start
      BY <2>3 DEF Start
    <3>2. Start(i) \in Extent(inodes[i])
      BY <1>3, <2>3, <3>1, InodeFields, ExtentBounds
    <3>3. QED
      BY <1>4, <3>2 DEF DisjointInv, Apart
  <2>4. QED
    BY <2>2, <2>3
<1>9. Apart(inodes, inodes')
  <2>1. SUFFICES ASSUME NEW l \in Live(inodes), NEW j \in Live(inodes'), l # j
                 PROVE  Extent(inodes[l]) \cap Extent(inodes'[j]) = {}
    BY DEF Apart
  <2>2. CASE j = i
    BY <1>6, <1>8, <2>1, <2>2
  <2>3. CASE j # i
    BY <1>7, <2>1, <2>3 DEF DisjointInv, Apart
  <2>4. QED
    BY <2>2, <2>3
<1>10. Apart(inodes', inodes')
  <2>1. SUFFICES ASSUME NEW l \in Live(inodes'), NEW j \in Live(inodes'), l # j
                 PROVE  Extent(inodes'[l]) \cap Extent(inodes'[j]) = {}
    BY DEF Apart
  <2>2. CASE l = i
    <3>1. j \in Live(inodes) /\ inodes'[j] = inodes[j]
      BY <1>7, <2>1, <2>2
    <3>2. QED
      BY <1>6, <1>8, <2>1, <2>2, <3>1
  <2>3. CASE l # i
    <3>1. l \in Live(inodes) /\ inodes'[l] = inodes[l]
      BY <1>7, <2>3
    <3>2. QED
      BY <1>9, <2>1, <3>1 DEF Apart
  <2>4. QED
    BY <2>2, <2>3
<1>11. QED
  BY <1>2, <1>9, <1>10 DEF DisjointInv

\* Two tables share no sectors, in either order.
LEMMA ApartSwap ==
  ASSUME NEW t, NEW u, Apart(t, u)
  PROVE  Apart(u, t)
  BY DEF Apart

\* Files taken away, or given no sector, share none.
LEMMA ShrinkDisjoint ==
  ASSUME DisjointInv, disk' = disk,
         \A i \in Live(inodes') :
           \/ Extent(inodes'[i]) = {}
           \/ i \in Live(inodes) /\ inodes'[i] = inodes[i]
  PROVE  DisjointInv'
<1>1. TableOnDisk' = TableOnDisk
  BY DEF TableOnDisk
<1>2. Apart(TableOnDisk, inodes')
  BY DEF DisjointInv, Apart
<1>3. Apart(inodes', inodes')
  BY DEF DisjointInv, Apart
<1>4. QED
  BY <1>1, <1>2, <1>3 DEF DisjointInv

\* A table sector written brings files of the memory to the disk.
LEMMA SectorDisjoint ==
  ASSUME SyncInv, DisjointInv, WriteSector
  PROVE  DisjointInv'
<1>1. inodes' = inodes
  BY SyncQueue, HeadWrite
<1>2. \A i \in Live(TableOnDisk') :
        \/ i \in Live(TableOnDisk) /\ TableOnDisk'[i] = TableOnDisk[i]
        \/ i \in Live(inodes) /\ TableOnDisk'[i] = inodes[i]
  BY TableAfterWrite DEF Live
<1>3. Apart(inodes, TableOnDisk)
  BY ApartSwap DEF DisjointInv
<1>4. Apart(TableOnDisk', TableOnDisk')
  BY <1>2, <1>3 DEF DisjointInv, Apart
<1>5. Apart(TableOnDisk', inodes)
  BY <1>2 DEF DisjointInv, Apart
<1>6. QED
  BY <1>1, <1>4, <1>5 DEF DisjointInv

\* Every step keeps the files apart.
LEMMA NextDisjoint ==
  ASSUME Sizes \subseteq {0, 1}, SyncInv, FrontierInv, DisjointInv, [Next]_vars
  PROVE  DisjointInv'
<1>1. CASE Format
  <2>1. disk' = disk /\ Live(inodes') = {}
    BY <1>1, SyncQueue, FormatQueue, BlankTyped DEF Format, Begin
  <2>2. QED
    BY <2>1, ShrinkDisjoint
<1>2. CASE Mount
  <2>1. disk' = disk /\ (inodes' = inodes \/ inodes' = TableOnDisk)
    BY <1>2 DEF Mount
  <2>2. TableOnDisk' = TableOnDisk
    BY <2>1 DEF TableOnDisk
  <2>3. QED
    BY <2>1, <2>2 DEF DisjointInv, Apart
<1>3. CASE Unmount
  <2>1. disk' = disk /\ inodes' = inodes
    BY <1>3 DEF Unmount, Begin
  <2>2. QED
    BY <2>1, ShrinkDisjoint
<1>4. ASSUME NEW n \in Names, CreateFile(n)
      PROVE  DisjointInv'
  <2>1. disk' = disk /\ inodes \in [Slots -> Inode]
    BY <1>4 DEF CreateFile, Begin, SyncInv, QueueInv, TypeOK
  <2>2. FindFreeInode \in Slots /\ inodes'[FindFreeInode].start = 0
    BY <1>4, <2>1, SyncQueue, CreateQueue
  <2>3. \A i \in Live(inodes') : i # FindFreeInode =>
          i \in Live(inodes) /\ inodes'[i] = inodes[i]
    BY <1>4, <2>1, SyncQueue, CreateQueue DEF Live
  <2>4. Extent(inodes'[FindFreeInode]) = {}
    BY <2>2 DEF Extent
  <2>5. QED
    BY <2>1, <2>3, <2>4, ShrinkDisjoint
<1>5. ASSUME NEW n \in Names, DeleteFile(n)
      PROVE  DisjointInv'
  <2>1. disk' = disk /\ inodes \in [Slots -> Inode]
    BY <1>5 DEF DeleteFile, Begin, SyncInv, QueueInv, TypeOK
  <2>2. inodes'[OpenFile(n)].type = "empty"
    BY <1>5, SyncQueue, DeleteQueue
  <2>3. \A i \in Slots : i # OpenFile(n) => inodes'[i] = inodes[i]
    BY <1>5, <2>1, SyncQueue, DeleteQueue
  <2>4. \A i \in Live(inodes') : i \in Live(inodes) /\ inodes'[i] = inodes[i]
    BY <2>2, <2>3 DEF Live
  <2>5. QED
    BY <2>1, <2>4, ShrinkDisjoint
<1>6. ASSUME NEW i \in Slots, NEW v \in Values, NEW k \in Sizes, WriteFile(i, v, k)
      PROVE  DisjointInv'
  BY <1>6, WriteDisjoint
<1>7. ASSUME NEW s \in TestSectors, DiskCommand(s)
      PROVE  DisjointInv'
  <2>1. disk' = disk /\ inodes' = inodes
    BY <1>7 DEF DiskCommand, Begin
  <2>2. QED
    BY <2>1, ShrinkDisjoint
<1>8. CASE WriteSector
  BY <1>8, SectorDisjoint
<1>9. CASE Crash
  <2>1. disk' = disk /\ Live(inodes') = {}
    BY <1>9, BlankTyped DEF Crash
  <2>2. QED
    BY <2>1, ShrinkDisjoint
<1>10. CASE UNCHANGED vars
  <2>1. disk' = disk /\ inodes' = inodes
    BY <1>10 DEF vars
  <2>2. QED
    BY <2>1, ShrinkDisjoint
<1>11. QED
  BY <1>1, <1>2, <1>3, <1>4, <1>5, <1>6, <1>7, <1>8, <1>9, <1>10 DEF Next

\* When files have at most one sector, as the shell writes them, and power is
\* not lost while Format writes, no two files on disk share a sector, at any
\* moment the power may be lost.
THEOREM FilesApart ==
  ASSUME TornFormat = FALSE, Sizes \subseteq {0, 1}
  PROVE  Spec => []ExtentsDisjoint
<1>1. Init => FrontierInv
  BY InitFrontier
<1>2. SyncInv /\ FrontierInv /\ [Next]_vars => FrontierInv'
  BY NextFrontier
<1>3. Init => DisjointInv
  <2>1. SUFFICES ASSUME Init PROVE DisjointInv
    OBVIOUS
  <2>2. inodes = [i \in Slots |-> EmptyInode]
    BY <2>1 DEF Init
  <2>3. Live(TableOnDisk) = {} /\ Live(inodes) = {}
    BY <2>1, <2>2, InitTable, BlankTyped
  <2>4. QED
    BY <2>3 DEF DisjointInv, Apart
<1>4. SyncInv /\ FrontierInv /\ DisjointInv /\ [Next]_vars => DisjointInv'
  BY NextDisjoint
<1>5. DisjointInv => ExtentsDisjoint
  BY DEF DisjointInv, Apart, ExtentsDisjoint
<1>6. QED
  BY <1>1, <1>2, <1>3, <1>4, <1>5, SpecSync, PTL DEF Spec

-----------------------------------------------------------------------------
(* The memory is one change ahead of the disk. *)

\* The tables t and u differ in the slot i at most.
DifferAt(t, u, i) == \A j \in Slots \ {i} : t[j] = u[j]

OneSlotInv == Kept => \E i \in Slots : DifferAt(inodes, TableOnDisk, i)

\* There is a slot.
LEMMA SlotsExist == 0 \in Slots
  BY FileSystemAssumption DEF Slots

\* A write done leaves the two tables at most one slot apart.
LEMMA SectorOneSlot ==
  ASSUME SyncInv, OneSlotInv, WriteSector
  PROVE  OneSlotInv'
<1>1. /\ inodes' = inodes /\ mounted' = mounted
      /\ call' = IF Len(todo) = 1 THEN "idle" ELSE call
  BY SyncQueue, HeadWrite
<1>2. CASE Engaged /\ Len(todo) = 1
  <2>1. TableOnDisk' = inodes'
    BY <1>1, <1>2, DoneIsSynced
  <2>2. QED
    BY <2>1, SlotsExist DEF OneSlotInv, DifferAt
<1>3. CASE ~(Engaged /\ Len(todo) = 1)
  <2>1. SUFFICES ASSUME Kept'
                 PROVE  \E i \in Slots : DifferAt(inodes', TableOnDisk', i)
    BY DEF OneSlotInv
  <2>2. Kept
    BY <1>1, <1>3, <2>1 DEF Kept, Engaged
  <2>3. PICK i \in Slots : DifferAt(inodes, TableOnDisk, i)
    BY <2>2 DEF OneSlotInv
  <2>4. \A j \in Slots : TableOnDisk'[j] \in {TableOnDisk[j], inodes[j]}
    BY TableAfterWrite
  <2>5. DifferAt(inodes', TableOnDisk', i)
    BY <1>1, <2>3, <2>4 DEF DifferAt
  <2>6. QED
    BY <2>5
<1>4. QED
  BY <1>2, <1>3

\* A call changes one file of a table that is as on disk.
LEMMA CallOneSlot ==
  ASSUME SyncInv, Idle, mounted, disk' = disk,
         \E i \in Slots : \A j \in Slots \ {i} : inodes'[j] = inodes[j]
  PROVE  OneSlotInv'
<1>1. inodes = TableOnDisk
  BY IdleSynced
<1>2. TableOnDisk' = TableOnDisk
  BY DEF TableOnDisk
<1>3. QED
  BY <1>1, <1>2 DEF OneSlotInv, DifferAt

\* The three calls that change the table change one file.
LEMMA OneFileChanged ==
  ASSUME SyncInv
  PROVE  /\ \A n \in Names : CreateFile(n) =>
              DifferAt(inodes', inodes, FindFreeInode) /\ FindFreeInode \in Slots
         /\ \A n \in Names : DeleteFile(n) =>
              DifferAt(inodes', inodes, OpenFile(n)) /\ OpenFile(n) \in Slots
         /\ \A i \in Slots, v \in Values, k \in Sizes : WriteFile(i, v, k) =>
              DifferAt(inodes', inodes, i)
<1>1. inodes \in [Slots -> Inode]
  BY DEF SyncInv, QueueInv, TypeOK
<1>2. ASSUME NEW n \in Names, CreateFile(n)
      PROVE  DifferAt(inodes', inodes, FindFreeInode) /\ FindFreeInode \in Slots
  BY <1>1, <1>2, SyncQueue, CreateQueue DEF DifferAt
<1>3. ASSUME NEW n \in Names, DeleteFile(n)
      PROVE  DifferAt(inodes', inodes, OpenFile(n)) /\ OpenFile(n) \in Slots
  BY <1>1, <1>3, SyncQueue, DeleteQueue DEF DifferAt
<1>4. ASSUME NEW i \in Slots, NEW v \in Values, NEW k \in Sizes, WriteFile(i, v, k)
      PROVE  DifferAt(inodes', inodes, i)
  <2>1. inodes' = [inodes EXCEPT ![i].start = Start(i), ![i].size = k]
    BY <1>4, SyncQueue, WriteQueue
  <2>2. ASSUME NEW j \in Slots, j # i
        PROVE  inodes'[j] = inodes[j]
    BY <1>1, <2>1, <2>2
  <2>3. QED
    BY <2>2 DEF DifferAt
<1>5. QED
  BY <1>2, <1>3, <1>4

\* Every step leaves the two tables at most one slot apart.
LEMMA NextOneSlot ==
  ASSUME SyncInv, OneSlotInv, [Next]_vars
  PROVE  OneSlotInv'
<1>1. CASE Format
  BY <1>1 DEF Format, Begin, OneSlotInv, Kept
<1>2. CASE Mount
  <2>1. SUFFICES ASSUME Kept' PROVE inodes' = TableOnDisk'
    BY SlotsExist DEF OneSlotInv, DifferAt
  <2>2. /\ Idle /\ disk' = disk /\ call' = call
        /\ \/ inodes' = TableOnDisk
           \/ inodes' = inodes /\ mounted' = mounted
    BY <1>2 DEF Mount
  <2>3. TableOnDisk' = TableOnDisk
    BY <2>2 DEF TableOnDisk
  <2>4. CASE inodes' = inodes /\ mounted' = mounted
    <3>1. mounted
      BY <2>1, <2>2, <2>4 DEF Kept, Idle
    <3>2. QED
      BY <2>2, <2>3, <2>4, <3>1, IdleSynced
  <2>5. QED
    BY <2>2, <2>3, <2>4
<1>3. CASE Unmount
  <2>1. Idle /\ mounted /\ disk' = disk /\ inodes' = inodes
    BY <1>3 DEF Unmount, Begin
  <2>2. QED
    BY <2>1, CallOneSlot, SlotsExist
<1>4. ASSUME NEW n \in Names, CreateFile(n)
      PROVE  OneSlotInv'
  <2>1. Idle /\ mounted /\ disk' = disk
    BY <1>4 DEF CreateFile, Begin
  <2>2. QED
    BY <1>4, <2>1, OneFileChanged, CallOneSlot DEF DifferAt
<1>5. ASSUME NEW n \in Names, DeleteFile(n)
      PROVE  OneSlotInv'
  <2>1. Idle /\ mounted /\ disk' = disk
    BY <1>5 DEF DeleteFile, Begin
  <2>2. QED
    BY <1>5, <2>1, OneFileChanged, CallOneSlot DEF DifferAt
<1>6. ASSUME NEW i \in Slots, NEW v \in Values, NEW k \in Sizes, WriteFile(i, v, k)
      PROVE  OneSlotInv'
  <2>1. Idle /\ mounted /\ disk' = disk
    BY <1>6 DEF WriteFile, Begin
  <2>2. QED
    BY <1>6, <2>1, OneFileChanged, CallOneSlot DEF DifferAt
<1>7. ASSUME NEW s \in TestSectors, DiskCommand(s)
      PROVE  OneSlotInv'
  <2>1. Idle /\ disk' = disk /\ inodes' = inodes /\ mounted' = mounted /\ call' = "disk"
    BY <1>7 DEF DiskCommand, Begin
  <2>2. Kept' => Kept
    BY <2>1 DEF Kept, Idle
  <2>3. TableOnDisk' = TableOnDisk
    BY <2>1 DEF TableOnDisk
  <2>4. QED
    BY <2>1, <2>2, <2>3 DEF OneSlotInv, DifferAt
<1>8. CASE WriteSector
  BY <1>8, SectorOneSlot
<1>9. CASE Crash
  BY <1>9 DEF Crash, OneSlotInv, Kept
<1>10. CASE UNCHANGED vars
  <2>1. disk' = disk /\ inodes' = inodes /\ mounted' = mounted /\ call' = call
    BY <1>10 DEF vars
  <2>2. TableOnDisk' = TableOnDisk
    BY <2>1 DEF TableOnDisk
  <2>3. QED
    BY <2>1, <2>2 DEF OneSlotInv, DifferAt, Kept
<1>11. QED
  BY <1>1, <1>2, <1>3, <1>4, <1>5, <1>6, <1>7, <1>8, <1>9, <1>10 DEF Next

-----------------------------------------------------------------------------
(* The file count drifts by at most one per power loss. *)

\* The count c is off the number n of files by at most e.
Near(c, n, e) == \E d \in (- e) .. e : c = (n + d) % CountMod

\* A call may leave the count on disk one further off until it returns.
Slack == IF call \in {"idle", "disk"} THEN 0 ELSE 1

NumFiles(t) == Cardinality(Live(t))

CountInv ==
  /\ call # "Format" => Near(disk[SuperSec].count, NumFiles(TableOnDisk), crashes + Slack)
  /\ Engaged => Near(sb.count, NumFiles(inodes), crashes)
  /\ Kept => \A j \in Supers(todo) : todo[j].content.count = sb.count
  /\ Kept /\ Live(TableOnDisk) # Live(inodes) =>
       /\ Near(disk[SuperSec].count, NumFiles(TableOnDisk), crashes)
       /\ \A j \in Supers(todo) : j = Len(todo)

\* More slack allows what less allowed, one more file more or less too.
LEMMA NearMore ==
  ASSUME NEW c, NEW n \in Int, NEW m \in Int, NEW e \in Nat, NEW f \in Nat, Near(c, n, e),
         \/ m = n /\ e <= f
         \/ m \in {n - 1, n, n + 1} /\ e + 1 <= f
  PROVE  Near(c, m, f)
<1>1. PICK d \in (- e) .. e : c = (n + d) % CountMod
  BY DEF Near
<1>2. d + (n - m) \in (- f) .. f /\ m + (d + (n - m)) = n + d
  BY <1>1
<1>3. QED
  BY <1>1, <1>2 DEF Near

\* Counting a file in or out keeps the distance.
LEMMA NearCounted ==
  ASSUME NEW c, NEW n \in Int, NEW e \in Nat, Near(c, n, e)
  PROVE  /\ Near((c + 1) % CountMod, n + 1, e)
         /\ Near((c - 1) % CountMod, n - 1, e)
<1>1. PICK d \in (- e) .. e : c = (n + d) % CountMod
  BY DEF Near
<1>2. n + d \in Int /\ (n + 1) + d = (n + d) + 1 /\ (n - 1) + d = (n + d) - 1
  BY <1>1
<1>3. /\ (c + 1) % CountMod = ((n + 1) + d) % CountMod
      /\ (c - 1) % CountMod = ((n - 1) + d) % CountMod
  BY <1>1, <1>2, ModNext, FileSystemAssumption
<1>4. QED
  BY <1>1, <1>3 DEF Near

\* The files of a table can be counted.
LEMMA LiveFinite ==
  ASSUME NEW t
  PROVE  IsFiniteSet(Live(t)) /\ NumFiles(t) \in Nat
<1>1. Rows * PerSector - 1 \in Int
  BY FileSystemAssumption
<1>2. IsFiniteSet(Slots)
  BY <1>1, FS_Interval DEF Slots
<1>3. Live(t) \in SUBSET Slots
  BY DEF Live
<1>4. IsFiniteSet(Live(t))
  BY <1>2, <1>3, FS_Subset
<1>5. QED
  BY <1>4, FS_CardinalityType DEF NumFiles

\* Tables that differ in one slot have the same files, or one more or less.
LEMMA OneFileMore ==
  ASSUME NEW t, NEW u, NEW i \in Slots, DifferAt(t, u, i)
  PROVE  /\ i \in Live(t) /\ i \notin Live(u) => NumFiles(t) = NumFiles(u) + 1
         /\ i \notin Live(t) /\ i \in Live(u) => NumFiles(t) = NumFiles(u) - 1
         /\ (i \in Live(t) <=> i \in Live(u)) => Live(t) = Live(u)
         /\ NumFiles(t) \in {NumFiles(u) - 1, NumFiles(u), NumFiles(u) + 1}
<1>1. Live(t) \ {i} = Live(u) \ {i}
  BY DEF Live, DifferAt
<1>2. IsFiniteSet(Live(t)) /\ IsFiniteSet(Live(u)) /\ NumFiles(u) \in Nat /\ NumFiles(t) \in Nat
  BY LiveFinite
<1>3. CASE i \in Live(t) /\ i \notin Live(u)
  <2>1. Live(t) = Live(u) \cup {i}
    BY <1>1, <1>3
  <2>2. NumFiles(t) = NumFiles(u) + 1
    BY <1>2, <1>3, <2>1, FS_AddElement DEF NumFiles
  <2>3. QED
    BY <1>2, <1>3, <2>2
<1>4. CASE i \notin Live(t) /\ i \in Live(u)
  <2>1. Live(t) = Live(u) \ {i}
    BY <1>1, <1>4
  <2>2. NumFiles(t) = NumFiles(u) - 1
    BY <1>2, <1>4, <2>1, FS_RemoveElement DEF NumFiles
  <2>3. QED
    BY <1>2, <1>4, <2>2
<1>5. CASE i \in Live(t) <=> i \in Live(u)
  <2>1. Live(t) = Live(u)
    BY <1>1, <1>5
  <2>2. NumFiles(t) = NumFiles(u)
    BY <2>1 DEF NumFiles
  <2>3. QED
    BY <1>2, <1>5, <2>1, <2>2
<1>6. QED
  BY <1>3, <1>4, <1>5

\* What is counted are numbers.
LEMMA CountTypes ==
  ASSUME SyncInv
  PROVE  /\ crashes \in Nat /\ Slack \in {0, 1}
         /\ NumFiles(inodes) \in Nat /\ NumFiles(TableOnDisk) \in Nat
         /\ NumFiles(inodes') \in Nat /\ NumFiles(TableOnDisk') \in Nat
  BY LiveFinite, FileSystemAssumption DEF SyncInv, QueueInv, TypeOK, Slack

\* A call on a mounted disk whose superblock and table agree: what it has to
\* show of its first state.
LEMMA CallCount ==
  ASSUME SyncInv, CountInv, Idle, mounted, disk' = disk, crashes' = crashes,
         call' \in {"Unmount", "CreateFile", "DeleteFile", "WriteFile"},
         Near(sb'.count, NumFiles(inodes'), crashes),
         \A j \in Supers(todo') : todo'[j].content.count = sb'.count,
         Live(inodes') = Live(inodes) \/ Supers(todo') = {Len(todo')}
  PROVE  CountInv'
<1>1. TableOnDisk' = TableOnDisk /\ inodes = TableOnDisk
  BY IdleSynced DEF TableOnDisk
<1>2. Near(disk[SuperSec].count, NumFiles(TableOnDisk), crashes)
  <2>1. crashes + Slack = crashes
    BY CountTypes DEF Slack, Idle
  <2>2. QED
    BY <2>1 DEF CountInv, Idle
<1>3. Near(disk[SuperSec].count, NumFiles(TableOnDisk), crashes + Slack')
  <2>1. Slack' \in {0, 1}
    BY DEF Slack
  <2>2. crashes <= crashes + Slack' /\ crashes + Slack' \in Nat /\ crashes \in Nat
    BY <2>1, CountTypes
  <2>3. QED
    BY <1>2, <2>2, CountTypes, NearMore
<1>4. (Kept /\ Live(TableOnDisk) # Live(inodes) => \A j \in Supers(todo) : j = Len(todo))'
  BY <1>1
<1>5. call' # "Format"
  OBVIOUS
<1>6. QED
  BY <1>1, <1>2, <1>3, <1>4, <1>5 DEF CountInv

\* A write done keeps the count near.
LEMMA SectorCount ==
  ASSUME SyncInv, OneSlotInv, CountInv, WriteSector
  PROVE  CountInv'
<1>1. /\ inodes' = inodes /\ mounted' = mounted /\ sb' = sb /\ crashes' = crashes
      /\ call' = IF Len(todo) = 1 THEN "idle" ELSE call
      /\ call # "idle"
      /\ Len(todo) \in Nat \ {0} /\ 1 \in 1 .. Len(todo)
      /\ Len(todo') = Len(todo) - 1
  BY SyncQueue, HeadWrite
<1>2. /\ crashes \in Nat /\ NumFiles(inodes) \in Nat
      /\ NumFiles(TableOnDisk) \in Nat /\ NumFiles(TableOnDisk') \in Nat
      /\ Slack' \in {0, 1}
  BY CountTypes DEF Slack
<1>3. Engaged' => Near(sb'.count, NumFiles(inodes'), crashes')
  BY <1>1 DEF CountInv, Engaged
<1>4. CASE Engaged /\ Len(todo) = 1
  <2>1. disk'[SuperSec] = sb /\ TableOnDisk' = inodes /\ call' = "idle"
    BY <1>1, <1>4, DoneIsSynced
  <2>2. Near(disk'[SuperSec].count, NumFiles(TableOnDisk'), crashes')
    BY <1>1, <1>4, <2>1 DEF CountInv
  <2>3. crashes' + Slack' = crashes'
    BY <1>1, <1>2, <2>1 DEF Slack
  <2>4. Supers(todo') = {}
    BY <1>1, <1>4 DEF Supers
  <2>5. Live(TableOnDisk') = Live(inodes')
    BY <1>1, <2>1
  <2>6. QED
    BY <1>3, <2>2, <2>3, <2>4, <2>5 DEF CountInv
<1>5. CASE ~Engaged
  <2>1. call = "disk" /\ ~mounted /\ call' = "idle"
    BY <1>1, <1>5 DEF Engaged, SyncInv, QueueInv, CallKinds
  <2>2. todo[1].sector \in DataSecs
    BY <2>1 DEF SyncInv, QueueInv, CallKinds
  <2>3. todo[1].sector # SuperSec /\ todo[1].sector \notin RowSecs
    BY <2>2, FileSystemAssumption DEF SuperSec, DataSecs, RowSecs, DataStart, InodeSec
  <2>4. TableOnDisk' = TableOnDisk /\ disk'[SuperSec] = disk[SuperSec]
    BY <2>3, TableAfterWrite
  <2>5. Slack = 0 /\ Slack' = 0 /\ call # "Format" /\ ~Kept' /\ ~Engaged'
    BY <1>1, <2>1 DEF Slack, Kept, Engaged
  <2>6. QED
    BY <1>1, <2>4, <2>5 DEF CountInv
<1>6. CASE Engaged /\ Len(todo) # 1 /\ call = "Format"
  <2>1. call' = "Format"
    BY <1>1, <1>6
  <2>2. ~Kept'
    BY <2>1 DEF Kept
  <2>3. QED
    BY <1>3, <2>1, <2>2 DEF CountInv
<1>7. CASE call = "disk"
  <2>1. todo[1].sector \in DataSecs /\ Len(todo) = 1
    BY <1>7 DEF SyncInv, QueueInv, CallKinds
  <2>2. QED
    BY <1>4, <1>5, <2>1
<1>8. CASE Engaged /\ Len(todo) # 1 /\ call # "Format" /\ call # "disk"
  <2>1. /\ Kept /\ call' = call /\ Slack = 1 /\ Slack' = 1
    BY <1>1, <1>8 DEF Engaged, Kept, Slack
  <2>2. \A j \in Supers(todo') : todo'[j].content.count = sb'.count
    BY <1>1, <2>1, SyncQueue, TailPlaces DEF CountInv
  <2>3. Near(sb.count, NumFiles(inodes), crashes)
    BY <1>8 DEF CountInv
  <2>4. crashes + 1 \in Nat /\ crashes <= crashes + 1 /\ crashes + 1 <= crashes + 1
    BY <1>2
  <2>5. /\ todo[1].sector \notin RowSecs => TableOnDisk' = TableOnDisk
        /\ \A i \in Slots : TableOnDisk'[i] \in {TableOnDisk[i], inodes[i]}
        /\ disk'[SuperSec] = IF todo[1].sector = SuperSec THEN todo[1].content
                             ELSE disk[SuperSec]
    BY TableAfterWrite
  <2>6. CASE Live(TableOnDisk) = Live(inodes)
    <3>1. Live(TableOnDisk') = Live(inodes)
      BY <2>5, <2>6 DEF Live
    <3>2. NumFiles(TableOnDisk') = NumFiles(inodes) /\ NumFiles(TableOnDisk) = NumFiles(inodes)
      BY <2>6, <3>1 DEF NumFiles
    <3>3. Near(disk'[SuperSec].count, NumFiles(inodes), crashes + 1)
      <4>1. CASE todo[1].sector = SuperSec
        <5>1. 1 \in Supers(todo)
          BY <1>1, <4>1 DEF Supers
        <5>2. disk'[SuperSec].count = sb.count
          BY <2>1, <2>5, <4>1, <5>1 DEF CountInv
        <5>3. QED
          BY <1>2, <2>3, <2>4, <5>2, NearMore
      <4>2. CASE todo[1].sector # SuperSec
        BY <1>8, <2>1, <2>5, <3>2, <4>2 DEF CountInv
      <4>3. QED
        BY <4>1, <4>2
    <3>4. QED
      BY <1>1, <1>3, <2>1, <2>2, <3>1, <3>2, <3>3 DEF CountInv
  <2>7. CASE Live(TableOnDisk) # Live(inodes)
    <3>1. /\ Near(disk[SuperSec].count, NumFiles(TableOnDisk), crashes)
          /\ \A j \in Supers(todo) : j = Len(todo)
      BY <2>1, <2>7 DEF CountInv
    <3>2. todo[1].sector # SuperSec
      BY <1>1, <1>8, <3>1 DEF Supers
    <3>3. disk'[SuperSec] = disk[SuperSec]
      BY <2>5, <3>2
    <3>4. \A j \in Supers(todo') : j = Len(todo')
      <4>1. TAKE j \in Supers(todo')
      <4>2. j + 1 = Len(todo) /\ j \in Nat
        BY <3>1, SyncQueue, TailPlaces DEF Supers
      <4>3. QED
        BY <1>1, <4>2
    <3>5. PICK i \in Slots : DifferAt(inodes, TableOnDisk, i)
      BY <2>1 DEF OneSlotInv
    <3>6. DifferAt(TableOnDisk', TableOnDisk, i)
      BY <2>5, <3>5 DEF DifferAt
    <3>7. NumFiles(TableOnDisk')
            \in {NumFiles(TableOnDisk) - 1, NumFiles(TableOnDisk), NumFiles(TableOnDisk) + 1}
      BY <3>6, OneFileMore
    <3>8. Near(disk'[SuperSec].count, NumFiles(TableOnDisk'), crashes + 1)
      BY <1>2, <2>4, <3>1, <3>3, <3>7, NearMore
    <3>9. Live(TableOnDisk') # Live(inodes') => Live(TableOnDisk') = Live(TableOnDisk)
      <4>1. TableOnDisk'[i] \in {TableOnDisk[i], inodes[i]}
        BY <2>5
      <4>2. CASE TableOnDisk'[i] = TableOnDisk[i]
        BY <3>6, <4>2 DEF DifferAt, Live
      <4>3. CASE TableOnDisk'[i] = inodes[i]
        <5>1. Live(TableOnDisk') = Live(inodes)
          BY <3>5, <3>6, <4>3 DEF DifferAt, Live
        <5>2. QED
          BY <1>1, <5>1
      <4>4. QED
        BY <4>1, <4>2, <4>3
    <3>10. Live(TableOnDisk') # Live(inodes') =>
             Near(disk'[SuperSec].count, NumFiles(TableOnDisk'), crashes')
      BY <1>1, <3>1, <3>3, <3>9 DEF NumFiles
    <3>11. QED
      BY <1>1, <1>3, <2>1, <2>2, <3>4, <3>8, <3>10 DEF CountInv
  <2>8. QED
    BY <2>6, <2>7
<1>9. QED
  BY <1>4, <1>5, <1>6, <1>7, <1>8

\* Format starts counting from nothing.
LEMMA FormatCount ==
  ASSUME SyncInv, CountInv, Format
  PROVE  CountInv'
<1>1. call' = "Format" /\ crashes' = crashes
  BY DEF Format, Begin
<1>2. sb'.count = 0 /\ Live(inodes') = {}
  BY SyncQueue, FormatQueue, BlankTyped DEF FreshSuper
<1>3. NumFiles(inodes') = 0
  BY <1>2, FS_EmptySet DEF NumFiles
<1>4. Near(0, 0, crashes)
  <2>1. crashes \in Nat /\ CountMod \in Nat \ {0, 1}
    BY CountTypes, FileSystemAssumption
  <2>2. 0 \in (- crashes) .. crashes /\ 0 = (0 + 0) % CountMod
    BY <2>1
  <2>3. QED
    BY <2>2 DEF Near
<1>5. ~Kept'
  BY <1>1 DEF Kept
<1>6. QED
  BY <1>1, <1>2, <1>3, <1>4, <1>5 DEF CountInv

\* Mount reads a count that is near the files it reads.
LEMMA MountCount ==
  ASSUME SyncInv, CountInv, Mount
  PROVE  CountInv'
<1>1. /\ Idle /\ sb' = disk[SuperSec] /\ disk' = disk /\ call' = call /\ todo' = todo
      /\ crashes' = crashes
      /\ \/ inodes' = TableOnDisk
         \/ inodes' = inodes /\ mounted' = mounted
  BY DEF Mount
<1>2. /\ TableOnDisk' = TableOnDisk /\ Slack' = Slack /\ Slack = 0 /\ crashes + Slack = crashes
      /\ Supers(todo') = {} /\ call # "Format"
  BY <1>1, IdleSynced, CountTypes DEF TableOnDisk, Slack, Idle, Supers
<1>3. Near(disk[SuperSec].count, NumFiles(TableOnDisk), crashes)
  BY <1>2 DEF CountInv
<1>4. Engaged' => inodes' = TableOnDisk
  <2>1. SUFFICES ASSUME Engaged' PROVE inodes' = TableOnDisk
    OBVIOUS
  <2>2. mounted'
    BY <1>1, <2>1 DEF Engaged, Idle
  <2>3. QED
    BY <1>1, <2>2, IdleSynced
<1>5. Kept' => Engaged'
  BY DEF Kept, Engaged
<1>6. QED
  BY <1>1, <1>2, <1>3, <1>4, <1>5 DEF CountInv

\* What a call starts from.
LEMMA IdleCount ==
  ASSUME SyncInv, CountInv, Idle, mounted
  PROVE  Near(sb.count, NumFiles(inodes), crashes)
  BY DEF CountInv, Engaged

\* WriteFile changes neither the count nor the files.
LEMMA WriteCount ==
  ASSUME SyncInv, CountInv,
         NEW i \in Slots, NEW v \in Values, NEW k \in Sizes, WriteFile(i, v, k)
  PROVE  CountInv'
<1>1. Idle /\ mounted /\ disk' = disk /\ crashes' = crashes /\ call' = "WriteFile"
  BY DEF WriteFile, Begin
<1>2. /\ sb'.count = sb.count
      /\ \A j \in Supers(todo') : todo'[j].content.count = sb'.count
  <2>1. /\ SavesFile(todo', inodes', sb', v)
        /\ sb' = [sb EXCEPT !.used = sb.used + (First(i) + Extra(k))]
        /\ inodes' = [inodes EXCEPT ![i].start = Start(i), ![i].size = k]
        /\ i \in Live(inodes)
        /\ Start(i) \in DataSecs
    BY SyncQueue, WriteQueue
  <2>2. sb \in Super
    BY DEF SyncInv, QueueInv, TypeOK
  <2>3. sb'.count = sb.count
    BY <2>1, <2>2 DEF Super
  <2>4. QED
    BY <2>1, <2>3 DEF SavesFile
<1>3. Live(inodes') = Live(inodes)
  <2>1. inodes \in [Slots -> Inode]
    BY DEF SyncInv, QueueInv, TypeOK
  <2>2. inodes' = [inodes EXCEPT ![i].start = Start(i), ![i].size = k]
    BY SyncQueue, WriteQueue
  <2>3. inodes'[i].type = inodes[i].type
    BY <2>1, <2>2 DEF Inode
  <2>4. DifferAt(inodes', inodes, i)
    BY OneFileChanged
  <2>5. \A j \in Slots : inodes'[j].type = inodes[j].type
    BY <2>3, <2>4 DEF DifferAt
  <2>6. QED
    BY <2>5 DEF Live
<1>4. NumFiles(inodes') = NumFiles(inodes)
  BY <1>3 DEF NumFiles
<1>5. QED
  BY <1>1, <1>2, <1>3, <1>4, IdleCount, CallCount

\* Every step keeps the count near.
LEMMA NextCount ==
  ASSUME TornFormat = FALSE, SyncInv, OneSlotInv, CountInv, [Next]_vars
  PROVE  CountInv'
<1>1. CASE Format
  BY <1>1, FormatCount
<1>2. CASE Mount
  BY <1>2, MountCount
<1>3. CASE Unmount
  <2>1. Idle /\ mounted /\ disk' = disk /\ crashes' = crashes /\ call' = "Unmount"
    BY <1>3 DEF Unmount, Begin
  <2>2. sb' = sb /\ inodes' = inodes /\ \A j \in Supers(todo') : todo'[j].content.count = sb'.count
    BY <1>3, SyncQueue, UnmountQueue
  <2>3. QED
    BY <2>1, <2>2, IdleCount, CallCount
<1>4. ASSUME NEW n \in Names, CreateFile(n)
      PROVE  CountInv'
  <2>1. Idle /\ mounted /\ disk' = disk /\ crashes' = crashes /\ call' = "CreateFile"
    BY <1>4 DEF CreateFile, Begin
  <2>2. /\ Supers(todo') = {Len(todo')}
        /\ \A j \in Supers(todo') : todo'[j].content.count = sb'.count
    BY <1>4, SyncQueue, CreateQueue
  <2>3. DifferAt(inodes', inodes, FindFreeInode) /\ FindFreeInode \in Slots
    BY <1>4, OneFileChanged
  <2>4. FindFreeInode \notin Live(inodes) /\ FindFreeInode \in Live(inodes')
    <3>1. inodes \in [Slots -> Inode]
      BY DEF SyncInv, QueueInv, TypeOK
    <3>2. FindFreeInode \in Slots \ Live(inodes) /\ inodes'[FindFreeInode].type = "regular"
      BY <1>4, <3>1, SyncQueue, CreateQueue
    <3>3. QED
      BY <3>2 DEF Live
  <2>5. NumFiles(inodes') = NumFiles(inodes) + 1
    BY <2>3, <2>4, OneFileMore
  <2>6. sb'.count = (sb.count + 1) % CountMod
    BY <1>4, SyncQueue, CreateQueue DEF SyncInv, QueueInv, TypeOK, Super
  <2>7. Near(sb'.count, NumFiles(inodes'), crashes)
    BY <2>1, <2>5, <2>6, IdleCount, NearCounted, CountTypes
  <2>8. QED
    BY <2>1, <2>2, <2>7, CallCount
<1>5. ASSUME NEW n \in Names, DeleteFile(n)
      PROVE  CountInv'
  <2>1. Idle /\ mounted /\ disk' = disk /\ crashes' = crashes /\ call' = "DeleteFile"
    BY <1>5 DEF DeleteFile, Begin
  <2>2. /\ Supers(todo') = {Len(todo')}
        /\ \A j \in Supers(todo') : todo'[j].content.count = sb'.count
    BY <1>5, SyncQueue, DeleteQueue
  <2>3. DifferAt(inodes', inodes, OpenFile(n)) /\ OpenFile(n) \in Slots
    BY <1>5, OneFileChanged
  <2>4. OpenFile(n) \in Live(inodes) /\ OpenFile(n) \notin Live(inodes')
    BY <1>5, SyncQueue, DeleteQueue DEF Live
  <2>5. NumFiles(inodes') = NumFiles(inodes) - 1
    BY <2>3, <2>4, OneFileMore
  <2>6. sb'.count = (sb.count - 1) % CountMod
    BY <1>5, SyncQueue, DeleteQueue DEF SyncInv, QueueInv, TypeOK, Super
  <2>7. Near(sb'.count, NumFiles(inodes'), crashes)
    BY <2>1, <2>5, <2>6, IdleCount, NearCounted, CountTypes
  <2>8. QED
    BY <2>1, <2>2, <2>7, CallCount
<1>6. ASSUME NEW i \in Slots, NEW v \in Values, NEW k \in Sizes, WriteFile(i, v, k)
      PROVE  CountInv'
  BY <1>6, WriteCount
<1>7. ASSUME NEW s \in TestSectors, DiskCommand(s)
      PROVE  CountInv'
  <2>1. /\ Idle /\ call' = "disk" /\ disk' = disk /\ crashes' = crashes
        /\ mounted' = mounted /\ sb' = sb /\ inodes' = inodes
    BY <1>7 DEF DiskCommand, Begin
  <2>2. Supers(todo') = {}
    BY <1>7, SyncQueue, DiskQueue
  <2>3. TableOnDisk' = TableOnDisk /\ Slack' = Slack /\ call # "Format"
    BY <2>1 DEF TableOnDisk, Slack, Idle
  <2>4. (Kept' => Kept) /\ (Engaged' => Engaged)
    BY <2>1 DEF Kept, Engaged, Idle
  <2>5. QED
    BY <2>1, <2>2, <2>3, <2>4 DEF CountInv
<1>8. CASE WriteSector
  BY <1>8, SectorCount
<1>9. CASE Crash
  <2>1. /\ call # "Format" /\ call' = "idle" /\ mounted' = FALSE /\ disk' = disk
        /\ crashes' = crashes + 1
    BY <1>9 DEF Crash
  <2>2. TableOnDisk' = TableOnDisk /\ ~Kept' /\ ~Engaged' /\ Slack' = 0
    BY <2>1 DEF TableOnDisk, Kept, Engaged, Slack
  <2>3. /\ crashes + Slack \in Nat /\ crashes' + Slack' \in Nat
        /\ crashes + Slack <= crashes' + Slack'
    BY <2>1, <2>2, CountTypes
  <2>4. Near(disk[SuperSec].count, NumFiles(TableOnDisk), crashes + Slack)
    BY <2>1 DEF CountInv
  <2>5. Near(disk[SuperSec].count, NumFiles(TableOnDisk), crashes' + Slack')
    BY <2>3, <2>4, CountTypes, NearMore
  <2>6. QED
    BY <2>1, <2>2, <2>5 DEF CountInv
<1>10. CASE UNCHANGED vars
  <2>1. UNCHANGED <<mounted, sb, inodes, disk, call, todo, crashes>>
    BY <1>10 DEF vars
  <2>2. TableOnDisk' = TableOnDisk /\ Slack' = Slack
    BY <2>1 DEF TableOnDisk, Slack
  <2>3. QED
    BY <2>1, <2>2 DEF CountInv, Kept, Engaged
<1>11. QED
  BY <1>1, <1>2, <1>3, <1>4, <1>5, <1>6, <1>7, <1>8, <1>9, <1>10 DEF Next

\* Nothing is mounted, no file is counted.
LEMMA InitAgrees ==
  ASSUME Init
  PROVE  OneSlotInv /\ CountInv
<1>1. mounted = FALSE /\ call = "idle" /\ crashes = 0
  BY DEF Init
<1>2. TableOnDisk = [i \in Slots |-> EmptyInode] /\ Live(TableOnDisk) = {}
  BY InitTable, BlankTyped
<1>3. disk[SuperSec].count = 0
  <2>1. SuperSec \in Sectors
    BY FileSystemAssumption DEF Sectors, SuperSec, DataStart, InodeSec
  <2>2. QED
    BY <2>1 DEF Init, BlankSuper
<1>4. NumFiles(TableOnDisk) = 0
  BY <1>2, FS_EmptySet DEF NumFiles
<1>5. Near(0, 0, crashes + Slack)
  <2>1. crashes + Slack = 0 /\ CountMod \in Nat \ {0, 1}
    BY <1>1, FileSystemAssumption DEF Slack
  <2>2. 0 \in (- 0) .. 0 /\ 0 = (0 + 0) % CountMod
    BY <2>1
  <2>3. QED
    BY <2>1, <2>2 DEF Near
<1>6. ~Kept /\ ~Engaged
  BY <1>1 DEF Kept, Engaged
<1>7. QED
  BY <1>3, <1>4, <1>5, <1>6 DEF OneSlotInv, CountInv

\* When power is not lost while Format writes, the file count of a mounted disk
\* is off the number of files by at most one per power loss, whatever calls were
\* cut short, and modulo the width of the counter.
THEOREM CountDrifts == ASSUME TornFormat = FALSE PROVE Spec => []CountDrift
<1>1. Init => OneSlotInv /\ CountInv
  BY InitAgrees
<1>2. SyncInv /\ OneSlotInv /\ [Next]_vars => OneSlotInv'
  BY NextOneSlot
<1>3. SyncInv /\ OneSlotInv /\ CountInv /\ [Next]_vars => CountInv'
  BY NextCount
<1>4. CountInv => CountDrift
  BY DEF CountInv, CountDrift, Engaged, Near, NumFiles
<1>5. QED
  BY <1>1, <1>2, <1>3, <1>4, SpecSync, PTL DEF Spec

-----------------------------------------------------------------------------
(* The files on disk change as the abstract store says. *)

\* What the store is promised for: Format is not cut short, a file has one
\* sector and a name that fits, and the disk command's sector lies behind all
\* sectors ever allocated.
Promised ==
  /\ TornFormat = FALSE
  /\ Sizes \subseteq {0, 1}
  /\ LongNames = {}
  /\ TestSectors \cap (DataStart .. (DataStart + MaxUsed - 1)) = {}

\* The files of t have names users type, no two the same, and a sector when
\* they have data.
FilesFine(t) ==
  /\ \A i \in Live(t) : t[i].name \in Names /\ (t[i].size # 0 => t[i].start # 0)
  /\ \A i \in Live(t) : \A j \in Live(t) : t[i].name = t[j].name => i = j

\* The data of f is on disk.
DataOnDisk(f) == f.size # 0 => disk[f.start] \in Values

\* The data of f is written before the table.
DataFirst(f) ==
  f.size # 0 => \E j \in 1 .. Len(todo) :
                  todo[j].sector = f.start /\ \A l \in Tables(todo) : j < l

\* A data sector still to be written is a file's, or the disk command's.
DataWrite(w) ==
  IF call = "disk" THEN w.sector \in TestSectors
  ELSE Kept /\ w.content \in Values /\ \E i \in Live(inodes) : inodes[i].start = w.sector

MemoryInv ==
  /\ FilesFine(inodes)
  /\ \A i \in Live(inodes) : DataOnDisk(inodes[i]) \/ DataFirst(inodes[i])
  /\ \A i \in Live(inodes) : i \in Live(TableOnDisk) => inodes[i].name = TableOnDisk[i].name
  /\ \A i \in Live(inodes) : i \notin Live(TableOnDisk) => inodes[i].size = 0

StoreInv ==
  /\ FilesFine(TableOnDisk)
  /\ \A i \in Live(TableOnDisk) : DataOnDisk(TableOnDisk[i])
  /\ Kept => MemoryInv
  /\ \A j \in 1 .. Len(todo) : todo[j].sector \in DataSecs => DataWrite(todo[j])

\* The only data sector q writes is s, and it writes it before the table.
WritesOnly(q, s, k) ==
  /\ k # 0 => \E j \in 1 .. Len(q) : q[j].sector = s /\ \A l \in Tables(q) : j < l
  /\ \A j \in 1 .. Len(q) : q[j].sector \in DataSecs =>
       q[j].sector = s /\ \A l \in Tables(q) : j < l

\* A file of one sector at most is written with that sector before the table.
LEMMA FileWritesOnly ==
  ASSUME sb \in Super, NEW first \in {0, 1}, NEW start \in DataSecs,
         NEW v \in Values, NEW k \in Sizes, NEW t \in [Slots -> Inode],
         start + Extra(k) \in DataSecs, sb.used + first + Extra(k) \in 0 .. MaxUsed,
         k \in {0, 1}
  PROVE  WritesOnly(FileWrites(first, start, v, k, t), start, k)
<1> DEFINE q == FileWrites(first, start, v, k, t)
           n == first + (IF k = 0 THEN 0 ELSE 2 * k - 1)
           half(j) == (j - first) \div 2
<1>1. /\ k \in {0, 1} /\ first \in {0, 1} /\ Rows \in Nat \ {0}
      /\ start \in Nat /\ n \in Nat
      /\ n = first + k
  BY FileSystemAssumption DEF DataSecs, DataStart, InodeSec
<1>2. /\ q \in Seq(Writes)
      /\ Len(q) = n + Rows
      /\ \A j \in 1 .. n :
           q[j] = IF (j - first) % 2 = 1
                  THEN [sector |-> start + half(j), content |-> v]
                  ELSE [sector |-> SuperSec, content |-> Allocated(first + half(j))]
      /\ \A j \in (n + 1) .. (n + Rows) :
           q[j] = [sector |-> InodeSec + (j - n - 1), content |-> Row(t, j - n - 1)]
  BY FileWritesAt, SMTT(30)
<1> HIDE DEF q, n
<1>3. SuperSec \notin RowSecs /\ SuperSec \notin DataSecs /\ RowSecs \cap DataSecs = {}
  BY FileSystemAssumption DEF SuperSec, RowSecs, InodeSec, DataSecs, DataStart
<1>4. ASSUME NEW j \in (n + 1) .. (n + Rows)
      PROVE  q[j].sector \in RowSecs
  <2>1. j - n - 1 \in 0 .. (Rows - 1)
    BY <1>1
  <2>2. q[j] = [sector |-> InodeSec + (j - n - 1), content |-> Row(t, j - n - 1)]
    BY <1>2
  <2>3. QED
    BY <2>1, <2>2, RowTyped
<1>5. ASSUME NEW j \in 1 .. n
      PROVE  IF j = first + 1 THEN q[j].sector = start ELSE q[j].sector = SuperSec
  <2>1. CASE j = first + 1
    <3>1. (j - first) % 2 = 1 /\ start + half(j) = start
      BY <1>1, <2>1
    <3>2. q[j] = [sector |-> start + half(j), content |-> v]
      BY <1>2, <3>1
    <3>3. QED
      BY <2>1, <3>1, <3>2
  <2>2. CASE j # first + 1
    <3>1. (j - first) % 2 # 1
      BY <1>1, <2>2
    <3>2. q[j] = [sector |-> SuperSec, content |-> Allocated(first + half(j))]
      BY <1>2, <3>1
    <3>3. QED
      BY <2>2, <3>2
  <2>3. QED
    BY <2>1, <2>2
<1>6. 1 .. Len(q) = (1 .. n) \cup ((n + 1) .. (n + Rows))
  BY <1>1, <1>2
<1>7. ASSUME NEW l \in Tables(q)
      PROVE  n < l
  <2>1. l \notin 1 .. n
    BY <1>3, <1>5 DEF Tables
  <2>2. QED
    BY <1>1, <1>6, <2>1 DEF Tables
<1>8. ASSUME k # 0
      PROVE  \E j \in 1 .. Len(q) : q[j].sector = start /\ \A l \in Tables(q) : j < l
  <2>1. first + 1 = n /\ n \in 1 .. n
    BY <1>1, <1>8
  <2>2. q[n].sector = start /\ n \in 1 .. Len(q)
    BY <1>5, <1>6, <2>1
  <2>3. QED
    BY <1>7, <2>2
<1>9. ASSUME NEW j \in 1 .. Len(q), q[j].sector \in DataSecs
      PROVE  q[j].sector = start /\ \A l \in Tables(q) : j < l
  <2>1. j \in 1 .. n
    BY <1>3, <1>4, <1>6, <1>9
  <2>2. q[j].sector = start
    BY <1>3, <1>5, <1>9, <2>1
  <2>3. ASSUME NEW l \in Tables(q)
        PROVE  j < l
    <3>1. n < l /\ l \in Nat
      BY <1>7 DEF Tables
    <3>2. QED
      BY <1>1, <2>1, <3>1
  <2>4. QED
    BY <2>2, <2>3
<1>10. QED
  BY <1>8, <1>9 DEF q, WritesOnly

\* WriteFile queues the data before the table, and no other data.
LEMMA OneBlock ==
  ASSUME QueueInv, NEW i \in Slots, NEW v \in Values, NEW k \in Sizes, k \in {0, 1},
         WriteFile(i, v, k)
  PROVE  /\ k # 0 => \E j \in 1 .. Len(todo') :
                       todo'[j].sector = Start(i) /\ \A l \in Tables(todo') : j < l
         /\ \A j \in 1 .. Len(todo') : todo'[j].sector \in DataSecs =>
              /\ todo'[j].sector = Start(i) /\ todo'[j].content = v
              /\ \A l \in Tables(todo') : j < l
<1>1. /\ inodes' \in [Slots -> Inode] /\ Start(i) \in DataSecs /\ Start(i) + Extra(k) \in DataSecs
      /\ todo' = FileWrites(First(i), Start(i), v, k, inodes')
      /\ SavesFile(todo', inodes', sb', v)
  BY WriteQueue
<1>2. k \in {0, 1} /\ First(i) \in {0, 1} /\ sb \in Super
  BY DEF First, QueueInv, TypeOK
<1>3. sb.used + First(i) + Extra(k) \in 0 .. MaxUsed
  <2>1. sb.used + First(i) + Extra(k) <= MaxUsed
    BY DEF WriteFile, First, Extra
  <2>2. sb.used \in Nat /\ Extra(k) = 0 /\ MaxUsed \in Nat
    BY <1>2, FileSystemAssumption DEF Super, Extra
  <2>3. QED
    BY <1>2, <2>1, <2>2
<1>4. WritesOnly(todo', Start(i), k)
  BY <1>1, <1>2, <1>3, FileWritesOnly
<1>5. QED
  BY <1>1, <1>4 DEF SavesFile, WritesOnly

\* In an idle state the memory has what the disk has.
LEMMA IdleMemory ==
  ASSUME SyncInv, StoreInv, Idle, mounted
  PROVE  /\ inodes = TableOnDisk
         /\ FilesFine(inodes)
         /\ \A i \in Live(inodes) : DataOnDisk(inodes[i])
  BY IdleSynced DEF StoreInv

\* A step that leaves the disk alone.
LEMMA QuietStore ==
  ASSUME StoreInv, disk' = disk, Kept' => MemoryInv',
         (\A j \in 1 .. Len(todo) : todo[j].sector \in DataSecs => DataWrite(todo[j]))'
  PROVE  StoreInv'
<1>1. TableOnDisk' = TableOnDisk
  BY DEF TableOnDisk
<1>2. FilesFine(TableOnDisk)'
  BY <1>1 DEF StoreInv, FilesFine, Live
<1>3. (\A i \in Live(TableOnDisk) : DataOnDisk(TableOnDisk[i]))'
  BY <1>1 DEF StoreInv, DataOnDisk, Live
<1>4. QED
  BY <1>2, <1>3 DEF StoreInv

\* CreateFile adds an empty file under a name not in use.
LEMMA CreateStore ==
  ASSUME LongNames = {}, SyncInv, StoreInv, NEW n \in Names, CreateFile(n)
  PROVE  StoreInv'
<1> DEFINE f == FindFreeInode
<1>1. /\ Idle /\ mounted /\ disk' = disk /\ ~FileExists(n)
      /\ TableOnDisk' = TableOnDisk
  BY DEF CreateFile, Begin, TableOnDisk
<1>2. /\ inodes = TableOnDisk
      /\ FilesFine(inodes)
      /\ \A i \in Live(inodes) : DataOnDisk(inodes[i])
      /\ inodes \in [Slots -> Inode]
  BY <1>1, IdleMemory DEF SyncInv, QueueInv, TypeOK
<1>3. /\ f \in Slots \ Live(inodes)
      /\ inodes' = [inodes EXCEPT ![f] =
                      [type |-> "regular", name |-> Stored(n), size |-> 0, start |-> 0]]
      /\ Stored(n) = n
      /\ \A j \in 1 .. Len(todo') : todo'[j].sector \notin DataSecs
  BY SyncQueue, CreateQueue DEF Stored
<1> HIDE DEF f
<1>4. /\ inodes'[f] = [type |-> "regular", name |-> n, size |-> 0, start |-> 0]
      /\ \A i \in Slots : i # f => inodes'[i] = inodes[i]
  BY <1>2, <1>3
<1>5. \A i \in Live(inodes') : i = f \/ (i # f /\ i \in Live(inodes) /\ inodes'[i] = inodes[i])
  BY <1>4 DEF Live
<1>6. \A i \in Live(inodes) : inodes[i].name # n
  BY <1>1 DEF FileExists, Found
<1>7. FilesFine(inodes')
  BY <1>2, <1>4, <1>5, <1>6 DEF FilesFine
<1>8. MemoryInv'
  <2>1. (\A i \in Live(inodes) : DataOnDisk(inodes[i]))'
    BY <1>1, <1>2, <1>4, <1>5 DEF DataOnDisk
  <2>2. (\A i \in Live(inodes) : i \in Live(TableOnDisk) => inodes[i].name = TableOnDisk[i].name)'
    BY <1>1, <1>2, <1>3, <1>5
  <2>3. (\A i \in Live(inodes) : i \notin Live(TableOnDisk) => inodes[i].size = 0)'
    BY <1>1, <1>2, <1>4, <1>5
  <2>4. FilesFine(inodes)'
    BY <1>7 DEF FilesFine, Live
  <2>5. QED
    BY <2>1, <2>2, <2>3, <2>4 DEF MemoryInv
<1>9. QED
  BY <1>1, <1>3, <1>8, QuietStore

\* DeleteFile takes a file from memory.
LEMMA DeleteStore ==
  ASSUME SyncInv, StoreInv, NEW n \in Names, DeleteFile(n)
  PROVE  StoreInv'
<1> DEFINE o == OpenFile(n)
<1>1. /\ Idle /\ mounted /\ disk' = disk
      /\ TableOnDisk' = TableOnDisk
  BY DEF DeleteFile, Begin, TableOnDisk
<1>2. /\ inodes = TableOnDisk
      /\ FilesFine(inodes)
      /\ \A i \in Live(inodes) : DataOnDisk(inodes[i])
  BY <1>1, IdleMemory
<1>3. /\ o \in Slots /\ inodes'[o].type = "empty"
      /\ \A j \in 1 .. Len(todo') : todo'[j].sector \notin DataSecs
      /\ DifferAt(inodes', inodes, o)
  BY SyncQueue, DeleteQueue, OneFileChanged
<1> HIDE DEF o
<1>4. \A i \in Live(inodes') : i \in Live(inodes) /\ inodes'[i] = inodes[i]
  BY <1>3 DEF Live, DifferAt
<1>5. MemoryInv'
  <2>1. (\A i \in Live(inodes) : DataOnDisk(inodes[i]))'
    BY <1>1, <1>2, <1>4 DEF DataOnDisk
  <2>2. (\A i \in Live(inodes) : i \in Live(TableOnDisk) => inodes[i].name = TableOnDisk[i].name)'
    BY <1>1, <1>2, <1>4
  <2>3. (\A i \in Live(inodes) : i \notin Live(TableOnDisk) => inodes[i].size = 0)'
    BY <1>1, <1>2, <1>4
  <2>4. FilesFine(inodes)'
    BY <1>2, <1>4 DEF FilesFine
  <2>5. QED
    BY <2>1, <2>2, <2>3, <2>4 DEF MemoryInv
<1>6. QED
  BY <1>1, <1>3, <1>5, QuietStore

\* WriteFile sends the data ahead of the table.
LEMMA WriteStore ==
  ASSUME Sizes \subseteq {0, 1}, SyncInv, StoreInv,
         NEW i \in Slots, NEW v \in Values, NEW k \in Sizes, WriteFile(i, v, k)
  PROVE  StoreInv'
<1>1. /\ Idle /\ mounted /\ mounted' = mounted /\ disk' = disk /\ call' = "WriteFile"
      /\ TableOnDisk' = TableOnDisk
  BY DEF WriteFile, Begin, TableOnDisk
<1>2. /\ inodes = TableOnDisk
      /\ FilesFine(inodes)
      /\ \A l \in Live(inodes) : DataOnDisk(inodes[l])
      /\ inodes \in [Slots -> Inode]
  BY <1>1, IdleMemory DEF SyncInv, QueueInv, TypeOK
<1>3. /\ inodes' = [inodes EXCEPT ![i].start = Start(i), ![i].size = k]
      /\ i \in Live(inodes)
      /\ Start(i) \in DataSecs
  BY SyncQueue, WriteQueue
<1>4. DifferAt(inodes', inodes, i)
  BY OneFileChanged
<1>5. /\ inodes'[i].start = Start(i) /\ inodes'[i].size = k
      /\ inodes'[i].name = inodes[i].name /\ inodes'[i].type = inodes[i].type
  BY <1>2, <1>3 DEF Inode
<1>6. /\ k # 0 => \E j \in 1 .. Len(todo') :
                    todo'[j].sector = Start(i) /\ \A l \in Tables(todo') : j < l
      /\ \A j \in 1 .. Len(todo') : todo'[j].sector \in DataSecs =>
           todo'[j].sector = Start(i) /\ todo'[j].content = v
  BY SyncQueue, OneBlock
<1>7. Start(i) # 0
  BY <1>3, FileSystemAssumption DEF DataSecs, DataStart, InodeSec
<1>8. /\ \A j \in Slots : inodes'[j].name = inodes[j].name /\ inodes'[j].type = inodes[j].type
      /\ \A j \in Slots : j # i => inodes'[j] = inodes[j]
  BY <1>4, <1>5 DEF DifferAt
<1>9. Live(inodes') = Live(inodes)
  BY <1>8 DEF Live
<1>10. MemoryInv'
  <2>1. (\A l \in Live(inodes) : DataOnDisk(inodes[l]) \/ DataFirst(inodes[l]))'
    <3>1. SUFFICES ASSUME NEW l \in Live(inodes')
                   PROVE  DataOnDisk(inodes[l])' \/ DataFirst(inodes[l])'
      OBVIOUS
    <3>2. CASE l = i
      BY <1>5, <1>6, <3>2 DEF DataFirst
    <3>3. CASE l # i
      <4>1. inodes'[l] = inodes[l] /\ DataOnDisk(inodes[l])
        BY <1>2, <1>8, <1>9, <3>1, <3>3 DEF Live
      <4>2. QED
        BY <1>1, <4>1 DEF DataOnDisk
    <3>4. QED
      BY <3>2, <3>3
  <2>2. (\A l \in Live(inodes) : l \in Live(TableOnDisk) => inodes[l].name = TableOnDisk[l].name)'
    BY <1>1, <1>2, <1>8, <1>9 DEF Live
  <2>3. (\A l \in Live(inodes) : l \notin Live(TableOnDisk) => inodes[l].size = 0)'
    BY <1>1, <1>2, <1>9
  <2>4. FilesFine(inodes)'
    <3>1. \A l \in Live(inodes') : inodes'[l].name \in Names
      BY <1>2, <1>8, <1>9 DEF FilesFine, Live
    <3>2. \A l \in Live(inodes') : inodes'[l].size # 0 => inodes'[l].start # 0
      BY <1>2, <1>5, <1>7, <1>8, <1>9 DEF FilesFine, Live
    <3>3. \A l \in Live(inodes') : \A j \in Live(inodes') : inodes'[l].name = inodes'[j].name => l = j
      BY <1>2, <1>8, <1>9 DEF FilesFine, Live
    <3>4. QED
      BY <3>1, <3>2, <3>3 DEF FilesFine
  <2>5. QED
    BY <2>1, <2>2, <2>3, <2>4 DEF MemoryInv
<1>11. (\A j \in 1 .. Len(todo) : todo[j].sector \in DataSecs => DataWrite(todo[j]))'
  <2>1. Kept' /\ call' # "disk"
    BY <1>1 DEF Kept
  <2>2. QED
    BY <1>3, <1>5, <1>6, <1>9, <2>1 DEF DataWrite
<1>12. QED
  BY <1>1, <1>10, <1>11, QuietStore

\* The data writes that remain are those that were queued.
LEMMA QueueStore ==
  ASSUME SyncInv, StoreInv, WriteSector
  PROVE  (\A j \in 1 .. Len(todo) : todo[j].sector \in DataSecs => DataWrite(todo[j]))'
<1>1. SUFFICES ASSUME NEW j \in 1 .. Len(todo'), todo'[j].sector \in DataSecs
               PROVE  IF call' = "disk" THEN todo'[j].sector \in TestSectors
                      ELSE /\ Kept' /\ todo'[j].content \in Values
                           /\ \E i \in Live(inodes') : inodes'[i].start = todo'[j].sector
  BY DEF DataWrite
<1>2. /\ j + 1 \in 1 .. Len(todo) /\ todo'[j] = todo[j + 1]
      /\ Len(todo) # 1 /\ call' = call /\ mounted' = mounted /\ inodes' = inodes
  <2>1. /\ Len(todo) \in Nat \ {0} /\ Len(todo') = Len(todo) - 1
        /\ call' = IF Len(todo) = 1 THEN "idle" ELSE call
        /\ j + 1 \in 1 .. Len(todo) /\ todo'[j] = todo[j + 1]
        /\ mounted' = mounted /\ inodes' = inodes
    BY SyncQueue, HeadWrite
  <2>2. Len(todo) # 1
    BY <2>1
  <2>3. QED
    BY <2>1, <2>2
<1>3. DataWrite(todo[j + 1])
  BY <1>1, <1>2 DEF StoreInv
<1>4. Kept' = Kept /\ Live(inodes') = Live(inodes)
  BY <1>2 DEF Kept
<1>5. QED
  BY <1>2, <1>3, <1>4 DEF DataWrite

\* A file whose data is written before the table: the head of the queue is its
\* data, or is no table sector and its data is still to come.
LEMMA FirstWritten ==
  ASSUME SyncInv, WriteSector, NEW f, f.size # 0, DataFirst(f)
  PROVE  /\ 1 \notin Tables(todo)
         /\ \/ todo[1].sector = f.start
            \/ \E j \in 1 .. Len(todo') :
                 todo'[j].sector = f.start /\ \A l \in Tables(todo') : j < l
<1>1. PICK j \in 1 .. Len(todo) : todo[j].sector = f.start /\ \A l \in Tables(todo) : j < l
  BY DEF DataFirst
<1>2. 1 \notin Tables(todo)
  BY <1>1
<1>3. CASE j # 1
  <2>1. /\ j \in 2 .. Len(todo)
        /\ j - 1 \in 1 .. Len(todo') /\ todo[j] = todo'[j - 1]
    BY <1>3, SyncQueue, HeadWrite
  <2>2. \A l \in Tables(todo') : l + 1 \in Tables(todo) /\ l \in Nat
    BY SyncQueue, TailPlaces DEF Tables
  <2>3. \A l \in Tables(todo') : j - 1 < l
    <3>1. TAKE l \in Tables(todo')
    <3>2. j < l + 1
      BY <1>1, <2>2
    <3>3. QED
      BY <2>1, <2>2, <3>2
  <2>4. QED
    BY <1>1, <1>2, <2>1, <2>3
<1>4. QED
  BY <1>1, <1>2, <1>3

\* The sectors are the superblock, the table and the data.
LEMMA SectorKinds ==
  /\ Sectors = {SuperSec} \cup RowSecs \cup DataSecs
  /\ SuperSec \notin RowSecs /\ SuperSec \notin DataSecs /\ RowSecs \cap DataSecs = {}
  /\ 0 \notin DataSecs
  BY FileSystemAssumption DEF Sectors, SuperSec, RowSecs, DataSecs, DataStart, InodeSec

\* A write done leaves the old table on disk or puts the one in memory there.
LEMMA DiskOrMemory ==
  ASSUME SyncInv, OneSlotInv, Kept, WriteSector
  PROVE  TableOnDisk' = TableOnDisk \/ TableOnDisk' = inodes
<1>1. /\ TableOnDisk \in [Slots -> Inode] /\ TableOnDisk' \in [Slots -> Inode]
      /\ inodes \in [Slots -> Inode]
      /\ \A i \in Slots : TableOnDisk'[i] \in {TableOnDisk[i], inodes[i]}
  BY TableAfterWrite DEF SyncInv, QueueInv, TypeOK
<1>2. PICK i \in Slots : \A j \in Slots \ {i} : inodes[j] = TableOnDisk[j]
  BY DEF OneSlotInv, DifferAt
<1>3. CASE TableOnDisk'[i] = TableOnDisk[i]
  <2>1. \A j \in Slots : TableOnDisk'[j] = TableOnDisk[j]
    BY <1>1, <1>2, <1>3
  <2>2. QED
    BY <1>1, <2>1
<1>4. CASE TableOnDisk'[i] = inodes[i]
  <2>1. \A j \in Slots : TableOnDisk'[j] = inodes[j]
    BY <1>1, <1>2, <1>4
  <2>2. QED
    BY <1>1, <2>1
<1>5. QED
  BY <1>1, <1>3, <1>4

\* Where the data of the files is, as long as it is not written.
LEMMA FileSectors ==
  ASSUME SyncInv, NEW t \in [Slots -> Inode], FilesFine(t), NEW i \in Live(t), t[i].size # 0
  PROVE  t[i].start \in DataSecs /\ t[i].start \in Extent(t[i])
<1>1. i \in Slots /\ t[i] \in Inode /\ t[i].start # 0
  BY DEF Live, FilesFine
<1>2. QED
  BY <1>1, InodeFields, ExtentBounds

\* The disk command's sector holds no file's data.
LEMMA TestSectorFree ==
  ASSUME Promised, SyncInv, NEW t \in [Slots -> Inode], FilesFine(t),
         NEW n \in 0 .. MaxUsed, Below(t, n), NEW i \in Live(t), t[i].size # 0
  PROVE  t[i].start \notin TestSectors
<1>1. t[i].start \in DataStart .. (DataStart + n - 1)
  BY FileSectors DEF Below
<1>2. t[i].start \in DataStart .. (DataStart + MaxUsed - 1)
  BY <1>1, FileSystemAssumption DEF DataStart, InodeSec
<1>3. QED
  BY <1>2 DEF Promised

\* When no data sector is written, data stays what it is.
LEMMA DataStays ==
  ASSUME SyncInv, WriteSector, NEW s \in DataSecs
  PROVE  disk'[s] = IF todo[1].sector = s THEN todo[1].content ELSE disk[s]
  BY SyncQueue, HeadWrite, SectorKinds

\* A data sector is written.
LEMMA DataSectorStore ==
  ASSUME Promised, SyncInv, FrontierInv, StoreInv, WriteSector,
         todo[1].sector \in DataSecs
  PROVE  StoreInv'
<1> DEFINE w == todo[1]
<1>1. /\ 1 \in 1 .. Len(todo) /\ inodes' = inodes /\ mounted' = mounted
      /\ call' = IF Len(todo) = 1 THEN "idle" ELSE call
      /\ call # "idle"
      /\ \A s \in DataSecs : disk'[s] = IF w.sector = s THEN w.content ELSE disk[s]
  BY SyncQueue, HeadWrite, DataStays
<1>2. TableOnDisk' = TableOnDisk /\ TableOnDisk \in [Slots -> Inode] /\ inodes \in [Slots -> Inode]
  BY SectorKinds, TableAfterWrite DEF SyncInv, QueueInv, TypeOK
<1>3. DataWrite(w)
  BY <1>1 DEF StoreInv
<1>4. call # "Format"
  BY <1>3 DEF DataWrite, Kept
<1>5. Kept' => Kept
  BY <1>1, <1>4 DEF Kept
<1>6. w.content \in Values \/ (w.sector \in TestSectors /\ call = "disk" /\ Len(todo) = 1)
  BY <1>3 DEF DataWrite, SyncInv, QueueInv, CallKinds
<1> HIDE DEF w
<1>7. ASSUME NEW t \in [Slots -> Inode], FilesFine(t), NEW n \in 0 .. MaxUsed, Below(t, n),
             NEW i \in Live(t), t[i].size # 0
      PROVE  /\ t[i].start \in DataSecs
             /\ disk[t[i].start] \in Values => disk'[t[i].start] \in Values
             /\ w.sector = t[i].start => disk'[t[i].start] \in Values
             /\ call = "disk" => w.sector # t[i].start
  <2>1. t[i].start \in DataSecs
    BY <1>7, FileSectors
  <2>2. w.sector \in TestSectors => w.sector # t[i].start
    BY <1>7, TestSectorFree
  <2>3. QED
    BY <1>1, <1>3, <1>6, <2>1, <2>2 DEF DataWrite
<1>8. FilesFine(TableOnDisk)'
  BY <1>2 DEF StoreInv, FilesFine, Live
<1>9. (\A i \in Live(TableOnDisk) : DataOnDisk(TableOnDisk[i]))'
  <2>1. SUFFICES ASSUME NEW i \in Live(TableOnDisk), TableOnDisk[i].size # 0
                 PROVE  disk'[TableOnDisk[i].start] \in Values
    BY <1>2 DEF DataOnDisk, Live
  <2>2. disk[SuperSec].used \in 0 .. MaxUsed
    BY TableAfterWrite DEF Super
  <2>3. Below(TableOnDisk, disk[SuperSec].used)
    BY <1>4 DEF FrontierInv, FrontierAhead, Below
  <2>4. FilesFine(TableOnDisk) /\ disk[TableOnDisk[i].start] \in Values
    BY <2>1 DEF StoreInv, DataOnDisk
  <2>5. QED
    BY <1>2, <1>7, <2>1, <2>2, <2>3, <2>4
<1>10. ASSUME Kept'
       PROVE  MemoryInv'
  <2>1. MemoryInv /\ Below(inodes, sb.used) /\ sb.used \in 0 .. MaxUsed
    BY <1>5, <1>10 DEF StoreInv, FrontierInv, SyncInv, QueueInv, TypeOK, Super
  <2>2. (\A i \in Live(inodes) : DataOnDisk(inodes[i]) \/ DataFirst(inodes[i]))'
    <3>1. SUFFICES ASSUME NEW i \in Live(inodes), inodes[i].size # 0
                   PROVE  DataOnDisk(inodes[i])' \/ DataFirst(inodes[i])'
      BY <1>1 DEF DataOnDisk, Live
    <3>2. /\ disk[inodes[i].start] \in Values => disk'[inodes[i].start] \in Values
          /\ w.sector = inodes[i].start => disk'[inodes[i].start] \in Values
      BY <1>2, <1>7, <2>1, <3>1 DEF MemoryInv
    <3>3. CASE DataOnDisk(inodes[i])
      BY <1>1, <3>1, <3>2, <3>3 DEF DataOnDisk
    <3>4. CASE DataFirst(inodes[i])
      <4>1. \/ w.sector = inodes[i].start
            \/ \E j \in 1 .. Len(todo') :
                 todo'[j].sector = inodes[i].start /\ \A l \in Tables(todo') : j < l
        BY <3>1, <3>4, FirstWritten DEF w
      <4>2. QED
        BY <1>1, <3>2, <4>1 DEF DataOnDisk, DataFirst
    <3>5. QED
      BY <2>1, <3>3, <3>4 DEF MemoryInv
  <2>3. QED
    BY <1>1, <1>2, <2>1, <2>2 DEF MemoryInv, FilesFine, Live
<1>11. QED
  BY <1>8, <1>9, <1>10, QueueStore DEF StoreInv

\* A sector of the table, or the superblock, is written.
LEMMA TableSectorStore ==
  ASSUME Promised, SyncInv, OneSlotInv, StoreInv, WriteSector,
         todo[1].sector \notin DataSecs
  PROVE  StoreInv'
<1>1. /\ 1 \in 1 .. Len(todo) /\ inodes' = inodes /\ mounted' = mounted
      /\ call' = IF Len(todo) = 1 THEN "idle" ELSE call
      /\ \A s \in DataSecs : disk'[s] = disk[s]
  BY SyncQueue, HeadWrite, DataStays
<1>2. /\ TableOnDisk \in [Slots -> Inode] /\ TableOnDisk' \in [Slots -> Inode]
      /\ inodes \in [Slots -> Inode]
      /\ todo[1].sector \notin RowSecs => TableOnDisk' = TableOnDisk
      /\ \A i \in Slots : TableOnDisk'[i] \in {TableOnDisk[i], inodes[i]}
  BY TableAfterWrite DEF SyncInv, QueueInv, TypeOK
<1>3. ASSUME NEW t \in [Slots -> Inode], FilesFine(t), NEW i \in Live(t), DataOnDisk(t[i])
      PROVE  t[i].size # 0 => disk'[t[i].start] \in Values
  BY <1>1, <1>3, FileSectors DEF DataOnDisk
<1>4. CASE call = "Format"
  <2>1. Live(inodes) = {}
    BY <1>4 DEF SyncInv, QueueInv, CallKinds
  <2>2. \A i \in Live(TableOnDisk') : i \in Live(TableOnDisk) /\ TableOnDisk'[i] = TableOnDisk[i]
    BY <1>2, <2>1 DEF Live
  <2>3. FilesFine(TableOnDisk)'
    BY <2>2 DEF StoreInv, FilesFine
  <2>4. (\A i \in Live(TableOnDisk) : DataOnDisk(TableOnDisk[i]))'
    BY <1>2, <1>3, <2>2 DEF StoreInv, DataOnDisk
  <2>5. MemoryInv'
    BY <1>1, <2>1 DEF MemoryInv, FilesFine, Live
  <2>6. QED
    BY <2>3, <2>4, <2>5, QueueStore DEF StoreInv
<1>5. CASE call # "Format" /\ ~Kept
  <2>1. todo[1].sector \notin RowSecs
    BY <1>5, SyncQueue, HeadWrite, TableWriteKept
  <2>2. TableOnDisk' = TableOnDisk /\ ~Kept'
    BY <1>1, <1>2, <1>5, <2>1 DEF Kept
  <2>3. FilesFine(TableOnDisk)'
    BY <2>2 DEF StoreInv, FilesFine, Live
  <2>4. (\A i \in Live(TableOnDisk) : DataOnDisk(TableOnDisk[i]))'
    BY <1>2, <1>3, <2>2 DEF StoreInv, DataOnDisk, Live
  <2>5. QED
    BY <2>2, <2>3, <2>4, QueueStore DEF StoreInv
<1>6. CASE Kept
  <2>1. MemoryInv /\ (TableOnDisk' = TableOnDisk \/ TableOnDisk' = inodes)
    BY <1>6, DiskOrMemory DEF StoreInv
  <2>2. ASSUME NEW i \in Live(inodes), inodes[i].size # 0
        PROVE  DataOnDisk(inodes[i])' \/ DataFirst(inodes[i])'
    <3>1. CASE DataOnDisk(inodes[i])
      BY <1>1, <1>2, <1>3, <2>1, <3>1 DEF DataOnDisk, MemoryInv
    <3>2. CASE DataFirst(inodes[i])
      <4>1. inodes[i].start \in DataSecs
        BY <1>2, <2>1, <2>2, FileSectors DEF MemoryInv
      <4>2. \E j \in 1 .. Len(todo') :
              todo'[j].sector = inodes[i].start /\ \A l \in Tables(todo') : j < l
        BY <2>2, <3>2, <4>1, FirstWritten
      <4>3. QED
        BY <1>1, <4>2 DEF DataFirst
    <3>3. QED
      BY <2>1, <3>1, <3>2 DEF MemoryInv
  <2>3. (\A i \in Live(inodes) : DataOnDisk(inodes[i]) \/ DataFirst(inodes[i]))'
    BY <1>1, <2>2 DEF DataOnDisk, Live
  <2>4. CASE TableOnDisk' = TableOnDisk
    <3>1. FilesFine(TableOnDisk)'
      BY <2>4 DEF StoreInv, FilesFine, Live
    <3>2. (\A i \in Live(TableOnDisk) : DataOnDisk(TableOnDisk[i]))'
      BY <1>2, <1>3, <2>4 DEF StoreInv, DataOnDisk, Live
    <3>3. MemoryInv'
      BY <1>1, <2>1, <2>3, <2>4 DEF MemoryInv, FilesFine, Live
    <3>4. QED
      BY <3>1, <3>2, <3>3, QueueStore DEF StoreInv
  <2>5. CASE TableOnDisk' = inodes /\ TableOnDisk' # TableOnDisk
    <3>1. todo[1].sector \in RowSecs /\ 1 \in Tables(todo)
      BY <1>2, <2>5, TableAfterWrite
    <3>2. \A i \in Live(inodes) : DataOnDisk(inodes[i])
      <4>1. TAKE i \in Live(inodes)
      <4>2. CASE inodes[i].size = 0
        BY <4>2 DEF DataOnDisk
      <4>3. CASE inodes[i].size # 0
        BY <2>1, <3>1, <4>3, FirstWritten DEF MemoryInv
      <4>4. QED
        BY <4>2, <4>3
    <3>3. FilesFine(TableOnDisk)'
      BY <2>1, <2>5 DEF MemoryInv, FilesFine, Live
    <3>4. (\A i \in Live(TableOnDisk) : DataOnDisk(TableOnDisk[i]))'
      BY <1>2, <1>3, <2>1, <2>5, <3>2 DEF MemoryInv, DataOnDisk, Live
    <3>5. MemoryInv'
      BY <1>1, <2>1, <2>3, <2>5 DEF MemoryInv, FilesFine, Live
    <3>6. QED
      BY <3>3, <3>4, <3>5, QueueStore DEF StoreInv
  <2>6. QED
    BY <2>1, <2>4, <2>5
<1>7. QED
  BY <1>4, <1>5, <1>6

\* Every step keeps what the store needs.
LEMMA NextStore ==
  ASSUME Promised, SyncInv, FrontierInv, OneSlotInv, StoreInv, [Next]_vars
  PROVE  StoreInv'
<1> USE DEF Promised
<1>1. CASE Format
  <2>1. disk' = disk /\ call' = "Format"
    BY <1>1 DEF Format, Begin
  <2>2. ~Kept'
    BY <2>1 DEF Kept
  <2>3. \A j \in 1 .. Len(todo') : todo'[j].sector \notin DataSecs
    BY <1>1, SyncQueue, FormatQueue
  <2>4. QED
    BY <2>1, <2>2, <2>3, QuietStore
<1>2. CASE Mount
  <2>1. /\ Idle /\ disk' = disk /\ todo' = todo /\ call' = call
        /\ \/ inodes' = TableOnDisk
           \/ inodes' = inodes /\ mounted' = mounted
        /\ TableOnDisk' = TableOnDisk
    BY <1>2 DEF Mount, TableOnDisk
  <2>2. todo' = << >> /\ Len(todo') = 0
    BY <2>1, IdleSynced
  <2>3. ASSUME Kept'
        PROVE  MemoryInv'
    <3>1. inodes' = TableOnDisk
      <4>1. mounted'
        BY <2>1, <2>3 DEF Kept, Idle
      <4>2. QED
        BY <2>1, <4>1, IdleSynced
    <3>2. FilesFine(inodes)'
      BY <3>1 DEF StoreInv, FilesFine, Live
    <3>3. (\A i \in Live(inodes) : DataOnDisk(inodes[i]))'
      BY <2>1, <3>1 DEF StoreInv, DataOnDisk, Live
    <3>4. QED
      BY <2>1, <3>1, <3>2, <3>3 DEF MemoryInv
  <2>4. QED
    BY <2>1, <2>2, <2>3, QuietStore
<1>3. CASE Unmount
  <2>1. Idle /\ mounted /\ disk' = disk /\ inodes' = inodes
    BY <1>3 DEF Unmount, Begin
  <2>2. \A j \in 1 .. Len(todo') : todo'[j].sector \notin DataSecs
    BY <1>3, SyncQueue, UnmountQueue
  <2>3. TableOnDisk' = TableOnDisk
    BY <2>1 DEF TableOnDisk
  <2>4. MemoryInv'
    <3>1. FilesFine(inodes)'
      BY <2>1, IdleMemory DEF FilesFine, Live
    <3>2. (\A i \in Live(inodes) : DataOnDisk(inodes[i]))'
      BY <2>1, IdleMemory DEF DataOnDisk, Live
    <3>3. QED
      BY <2>1, <2>3, <3>1, <3>2, IdleMemory DEF MemoryInv
  <2>5. QED
    BY <2>1, <2>2, <2>4, QuietStore
<1>4. ASSUME NEW n \in Names, CreateFile(n)
      PROVE  StoreInv'
  BY <1>4, CreateStore
<1>5. ASSUME NEW n \in Names, DeleteFile(n)
      PROVE  StoreInv'
  BY <1>5, DeleteStore
<1>6. ASSUME NEW i \in Slots, NEW v \in Values, NEW k \in Sizes, WriteFile(i, v, k)
      PROVE  StoreInv'
  BY <1>6, WriteStore
<1>7. ASSUME NEW s \in TestSectors, DiskCommand(s)
      PROVE  StoreInv'
  <2>1. /\ Idle /\ call' = "disk" /\ disk' = disk /\ mounted' = mounted /\ inodes' = inodes
    BY <1>7 DEF DiskCommand, Begin
  <2>2. Len(todo') = 1 /\ todo'[1].sector = s
    <3>1. Len(todo') = 1 /\ todo'[1] = [sector |-> s, content |-> Pattern]
      BY <1>7, SyncQueue, DiskQueue
    <3>2. QED
      BY <3>1
  <2>3. (\A j \in 1 .. Len(todo) : todo[j].sector \in DataSecs => DataWrite(todo[j]))'
    <3>1. \A j \in 1 .. Len(todo') : todo'[j].sector = s
      BY <2>2
    <3>2. QED
      BY <2>1, <3>1 DEF DataWrite
  <2>4. ASSUME Kept'
        PROVE  MemoryInv'
    <3>1. mounted /\ TableOnDisk' = TableOnDisk
      BY <2>1, <2>4 DEF Kept, TableOnDisk
    <3>2. FilesFine(inodes)'
      BY <2>1, <3>1, IdleMemory DEF FilesFine, Live
    <3>3. (\A i \in Live(inodes) : DataOnDisk(inodes[i]))'
      BY <2>1, <3>1, IdleMemory DEF DataOnDisk, Live
    <3>4. QED
      BY <2>1, <3>1, <3>2, <3>3, IdleMemory DEF MemoryInv
  <2>5. QED
    BY <2>1, <2>3, <2>4, QuietStore
<1>8. CASE WriteSector
  BY <1>8, DataSectorStore, TableSectorStore
<1>9. CASE Crash
  <2>1. disk' = disk /\ call' = "idle" /\ mounted' = FALSE /\ todo' = << >>
    BY <1>9 DEF Crash
  <2>2. ~Kept' /\ Len(todo') = 0
    BY <2>1 DEF Kept
  <2>3. QED
    BY <2>1, <2>2, QuietStore
<1>10. CASE UNCHANGED vars
  <2>1. UNCHANGED <<mounted, inodes, disk, call, todo>>
    BY <1>10 DEF vars
  <2>2. TableOnDisk' = TableOnDisk
    BY <2>1 DEF TableOnDisk
  <2>3. QED
    BY <2>1, <2>2 DEF StoreInv, MemoryInv, FilesFine, DataOnDisk, DataFirst, DataWrite, Kept, Live,
                      Tables
<1>11. QED
  BY <1>1, <1>2, <1>3, <1>4, <1>5, <1>6, <1>7, <1>8, <1>9, <1>10 DEF Next

\* A file read from disk, and its empty data.
LEMMA FileRead ==
  ASSUME Promised, SyncInv, NEW t \in [Slots -> Inode], FilesFine(t),
         NEW i \in Live(t), DataOnDisk(t[i])
  PROVE  /\ ReadFile(t, i) \in Store!Data
         /\ t[i].size = 0 => ReadFile(t, i) = << >>
         /\ [name |-> t[i].name, data |-> ReadFile(t, i)] # NoFile
<1> DEFINE r == ReadFile(t, i)
           k == t[i].size
<1>1. i \in Slots /\ t[i] \in Inode /\ t[i].name \in Names
  BY DEF Live, FilesFine
<1>2. k \in Sizes \cup {0} /\ k \in {0, 1} /\ t[i].start \in Nat
  BY <1>1, InodeFields DEF Promised
<1>3. ASSUME NEW b \in 1 .. k
      PROVE  disk[t[i].start + b - 1] \in Values
  <2>1. k = 1 /\ b = 1 /\ t[i].start + b - 1 = t[i].start
    BY <1>2
  <2>2. disk[t[i].start] \in Values
    BY <2>1 DEF DataOnDisk
  <2>3. QED
    BY <2>1, <2>2
<1>4. r \in [1 .. k -> Values]
  BY <1>3 DEF ReadFile
<1> HIDE DEF r
<1>5. r \in Store!Data
  BY <1>2, <1>4 DEF Store!Data
<1>6. k = 0 => r = << >>
  <2>1. SUFFICES ASSUME k = 0 PROVE r = << >>
    OBVIOUS
  <2>2. r \in Seq(Values) /\ Len(r) = 0
    BY <1>4, <2>1
  <2>3. QED
    BY <2>2, EmptySeq
<1>7. [name |-> t[i].name, data |-> r] # NoFile
  <2>1. [name |-> t[i].name, data |-> r]
          \in [name : Names, data : UNION {[1 .. j -> Values] : j \in Sizes \cup {0}}]
    BY <1>1, <1>2, <1>4
  <2>2. QED
    BY <2>1, NoFileAssumption
<1>8. QED
  BY <1>5, <1>6, <1>7 DEF r

\* What is on disk in a slot.
LEMMA SlotRead ==
  /\ FilesOnDisk = [i \in Slots |-> FilesOnDisk[i]]
  /\ \A i \in Slots : i \notin Live(TableOnDisk) => FilesOnDisk[i] = NoFile
  /\ \A i \in Slots : i \in Live(TableOnDisk) =>
       FilesOnDisk[i] = [name |-> TableOnDisk[i].name, data |-> ReadFile(TableOnDisk, i)]
  BY DEF FilesOnDisk

\* One file comes, goes or is written.
LEMMA OneFileStep ==
  ASSUME NEW i \in Slots, \A j \in Slots : j # i => FilesOnDisk'[j] = FilesOnDisk[j],
         FilesOnDisk = [j \in Slots |-> FilesOnDisk[j]],
         FilesOnDisk' = [j \in Slots |-> FilesOnDisk'[j]],
         \/ FilesOnDisk'[i] = FilesOnDisk[i]
         \/ FilesOnDisk[i] # NoFile /\ FilesOnDisk'[i] = NoFile
         \/ /\ FilesOnDisk[i] = NoFile
            /\ \E n \in Names :
                 /\ FilesOnDisk'[i] = [name |-> n, data |-> << >>]
                 /\ \A j \in Slots : FilesOnDisk[j] # NoFile => FilesOnDisk[j].name # n
         \/ /\ FilesOnDisk[i] # NoFile
            /\ \E n, d : \E e \in Store!Data :
                 /\ FilesOnDisk[i] = [name |-> n, data |-> d]
                 /\ FilesOnDisk'[i] = [name |-> n, data |-> e]
  PROVE  [Store!Next]_FilesOnDisk
<1>1. CASE FilesOnDisk'[i] = FilesOnDisk[i]
  <2>1. \A j \in Slots : FilesOnDisk'[j] = FilesOnDisk[j]
    BY <1>1
  <2>2. FilesOnDisk' = FilesOnDisk
    BY <2>1
  <2>3. QED
    BY <2>2
<1>2. CASE FilesOnDisk[i] # NoFile /\ FilesOnDisk'[i] = NoFile
  <2>1. FilesOnDisk' = [FilesOnDisk EXCEPT ![i] = NoFile]
    BY <1>2
  <2>2. Store!Delete(i)
    BY <1>2, <2>1 DEF Store!Delete
  <2>3. QED
    BY <2>2 DEF Store!Next
<1>3. ASSUME FilesOnDisk[i] = NoFile,
             NEW n \in Names, FilesOnDisk'[i] = [name |-> n, data |-> << >>],
             \A j \in Slots : FilesOnDisk[j] # NoFile => FilesOnDisk[j].name # n
      PROVE  [Store!Next]_FilesOnDisk
  <2>1. FilesOnDisk' = [FilesOnDisk EXCEPT ![i] = [name |-> n, data |-> << >>]]
    BY <1>3
  <2>2. Store!Create(i, n)
    BY <1>3, <2>1 DEF Store!Create
  <2>3. QED
    BY <2>2 DEF Store!Next
<1>4. ASSUME FilesOnDisk[i] # NoFile, NEW n, NEW d, NEW e \in Store!Data,
             FilesOnDisk[i] = [name |-> n, data |-> d],
             FilesOnDisk'[i] = [name |-> n, data |-> e]
      PROVE  [Store!Next]_FilesOnDisk
  <2>1. [FilesOnDisk[i] EXCEPT !.data = e] = [name |-> n, data |-> e]
    BY <1>4
  <2>2. FilesOnDisk' = [FilesOnDisk EXCEPT ![i] = [FilesOnDisk[i] EXCEPT !.data = e]]
    BY <1>4, <2>1
  <2>3. Store!Write(i, e)
    BY <1>4, <2>2 DEF Store!Write
  <2>4. QED
    BY <2>3 DEF Store!Next
<1>5. QED
  BY <1>1, <1>2, <1>3, <1>4

\* Files go, nothing else.
LEMMA EraseStep ==
  ASSUME FilesOnDisk = [j \in Slots |-> FilesOnDisk[j]],
         FilesOnDisk' = [j \in Slots |-> FilesOnDisk'[j]],
         \A j \in Slots : FilesOnDisk'[j] \in {FilesOnDisk[j], NoFile}
  PROVE  Store!Next
<1> DEFINE S == {j \in Slots : FilesOnDisk'[j] = NoFile}
<1>1. \A j \in Slots : FilesOnDisk'[j] = IF j \in S THEN NoFile ELSE FilesOnDisk[j]
  OBVIOUS
<1>2. FilesOnDisk' = [j \in Slots |-> IF j \in S THEN NoFile ELSE FilesOnDisk[j]]
  BY <1>1
<1>3. S \in SUBSET Slots
  OBVIOUS
<1>4. Store!Erase(S)
  BY <1>2 DEF Store!Erase
<1>5. QED
  BY <1>3, <1>4 DEF Store!Next

\* A file whose sector stays reads the same.
LEMMA SameData ==
  ASSUME NEW f, f.size \in {0, 1}, f.start \in Nat,
         f.size # 0 => disk'[f.start] = disk[f.start]
  PROVE  [b \in 1 .. f.size |-> disk'[f.start + b - 1]]
           = [b \in 1 .. f.size |-> disk[f.start + b - 1]]
<1>1. ASSUME NEW b \in 1 .. f.size
      PROVE  disk'[f.start + b - 1] = disk[f.start + b - 1]
  <2>1. f.size = 1 /\ f.start + b - 1 = f.start
    OBVIOUS
  <2>2. QED
    BY <2>1
<1>2. QED
  BY <1>1

\* What the files on disk hold is data of the store.
LEMMA DiskRead ==
  ASSUME Promised, SyncInv, StoreInv
  PROVE  \A i \in Live(TableOnDisk) :
           /\ ReadFile(TableOnDisk, i) \in Store!Data
           /\ TableOnDisk[i].size = 0 => ReadFile(TableOnDisk, i) = << >>
           /\ FilesOnDisk[i] # NoFile
<1>1. TableOnDisk \in [Slots -> Inode] /\ FilesFine(TableOnDisk)
  BY TableTyped DEF SyncInv, QueueInv, StoreInv
<1>2. TAKE i \in Live(TableOnDisk)
<1>3. DataOnDisk(TableOnDisk[i])
  BY DEF StoreInv
<1>4. /\ ReadFile(TableOnDisk, i) \in Store!Data
      /\ TableOnDisk[i].size = 0 => ReadFile(TableOnDisk, i) = << >>
      /\ [name |-> TableOnDisk[i].name, data |-> ReadFile(TableOnDisk, i)] # NoFile
  BY <1>1, <1>3, FileRead
<1>5. i \in Slots
  BY DEF Live
<1>6. QED
  BY <1>4, <1>5, SlotRead

\* A slot whose row and data are not touched.
LEMMA SlotStays ==
  ASSUME Promised, SyncInv, NEW i \in Slots, TableOnDisk'[i] = TableOnDisk[i],
         i \in Live(TableOnDisk) /\ TableOnDisk[i].size # 0 =>
           disk'[TableOnDisk[i].start] = disk[TableOnDisk[i].start]
  PROVE  FilesOnDisk'[i] = FilesOnDisk[i]
<1> DEFINE f == TableOnDisk[i]
           Read(h) == [b \in 1 .. h.size |-> disk[h.start + b - 1]]
           ReadNext(h) == [b \in 1 .. h.size |-> disk'[h.start + b - 1]]
<1>1. i \in Live(TableOnDisk') <=> i \in Live(TableOnDisk)
  BY DEF Live
<1>2. FilesOnDisk'[i] = IF i \in Live(TableOnDisk')
                        THEN [name |-> TableOnDisk'[i].name, data |-> ReadNext(TableOnDisk'[i])]
                        ELSE NoFile
  BY DEF FilesOnDisk, ReadFile, Live
<1>3. FilesOnDisk[i] = IF i \in Live(TableOnDisk)
                       THEN [name |-> f.name, data |-> Read(f)]
                       ELSE NoFile
  BY DEF FilesOnDisk, ReadFile
<1>4. f \in Inode /\ f.start \in Nat /\ f.size \in {0, 1}
  BY TableTyped, InodeFields DEF SyncInv, QueueInv, Promised
<1>5. ASSUME i \in Live(TableOnDisk)
      PROVE  ReadNext(f) = Read(f)
  BY <1>4, <1>5, SameData
<1>6. TableOnDisk'[i] = f
  OBVIOUS
<1> HIDE DEF f, Read, ReadNext
<1>7. QED
  BY <1>1, <1>2, <1>3, <1>5, <1>6

\* Every sector written changes one file of the store, or erases files.
LEMMA SectorRefines ==
  ASSUME Promised, SyncInv, FrontierInv, DisjointInv, OneSlotInv, StoreInv,
         SyncInv', StoreInv', WriteSector
  PROVE  [Store!Next]_FilesOnDisk
<1> DEFINE w == todo[1]
<1>1. /\ TableOnDisk \in [Slots -> Inode] /\ TableOnDisk' \in [Slots -> Inode]
      /\ inodes \in [Slots -> Inode]
      /\ w.sector \notin RowSecs => TableOnDisk' = TableOnDisk
      /\ \A i \in Slots : TableOnDisk'[i] \in {TableOnDisk[i], inodes[i]}
      /\ \A s \in DataSecs : disk'[s] = IF w.sector = s THEN w.content ELSE disk[s]
      /\ FilesFine(TableOnDisk) /\ FilesFine(TableOnDisk')
      /\ Live(TableOnDisk) \subseteq Slots /\ Live(inodes) \subseteq Slots
  BY TableAfterWrite, DataStays DEF SyncInv, QueueInv, TypeOK, StoreInv, FilesFine, Live
<1>2. /\ FilesOnDisk = [i \in Slots |-> FilesOnDisk[i]]
      /\ \A i \in Slots : i \notin Live(TableOnDisk) => FilesOnDisk[i] = NoFile
      /\ \A i \in Slots : i \in Live(TableOnDisk) =>
           /\ FilesOnDisk[i] = [name |-> TableOnDisk[i].name, data |-> ReadFile(TableOnDisk, i)]
           /\ FilesOnDisk[i] # NoFile
  BY SlotRead, DiskRead
<1>3. (/\ FilesOnDisk = [i \in Slots |-> FilesOnDisk[i]]
       /\ \A i \in Slots : i \notin Live(TableOnDisk) => FilesOnDisk[i] = NoFile
       /\ \A i \in Slots : i \in Live(TableOnDisk) =>
            FilesOnDisk[i] = [name |-> TableOnDisk[i].name, data |-> ReadFile(TableOnDisk, i)])'
  BY SlotRead, PTL
<1>4. (\A i \in Live(TableOnDisk) :
         /\ ReadFile(TableOnDisk, i) \in Store!Data
         /\ TableOnDisk[i].size = 0 => ReadFile(TableOnDisk, i) = << >>)'
  <2>1. (Promised /\ SyncInv /\ StoreInv =>
           \A i \in Live(TableOnDisk) :
             /\ ReadFile(TableOnDisk, i) \in Store!Data
             /\ TableOnDisk[i].size = 0 => ReadFile(TableOnDisk, i) = << >>
             /\ FilesOnDisk[i] # NoFile)'
    BY DiskRead, PTL
  <2>2. Promised'
    BY DEF Promised, DataStart, InodeSec
  <2>3. QED
    BY <2>1, <2>2
<1> HIDE DEF w
<1>5. CASE w.sector \in DataSecs
  <2>1. TableOnDisk' = TableOnDisk /\ DataWrite(w)
    BY <1>1, <1>5, SectorKinds, SyncQueue, HeadWrite DEF StoreInv, w
  <2>2. ASSUME NEW j \in Slots, j \in Live(TableOnDisk) /\ TableOnDisk[j].size # 0 =>
                                  TableOnDisk[j].start # w.sector
        PROVE  FilesOnDisk'[j] = FilesOnDisk[j]
    <3>1. j \in Live(TableOnDisk) /\ TableOnDisk[j].size # 0 =>
            TableOnDisk[j].start \in DataSecs
      BY <1>1, FileSectors
    <3>2. j \in Live(TableOnDisk) /\ TableOnDisk[j].size # 0 =>
            disk'[TableOnDisk[j].start] = disk[TableOnDisk[j].start]
      BY <1>1, <2>2, <3>1
    <3>3. QED
      BY <2>1, <3>2, SlotStays
  <2>3. CASE call = "disk"
    <3>1. /\ disk[SuperSec].used \in 0 .. MaxUsed
          /\ Below(TableOnDisk, disk[SuperSec].used)
      BY <2>3, TableAfterWrite DEF Super, FrontierInv, FrontierAhead, Below
    <3>2. \A j \in Live(TableOnDisk) : TableOnDisk[j].size # 0 =>
            TableOnDisk[j].start # w.sector
      BY <1>1, <2>1, <2>3, <3>1, TestSectorFree DEF DataWrite
    <3>3. \A j \in Slots : FilesOnDisk'[j] = FilesOnDisk[j]
      BY <2>2, <3>2
    <3>4. QED
      BY <1>2, <1>3, <3>3, SlotsExist, OneFileStep
  <2>4. CASE call # "disk"
    <3>1. PICK i \in Live(inodes) : inodes[i].start = w.sector
      BY <2>1, <2>4 DEF DataWrite
    <3>2. i \in Slots /\ w.sector \in Extent(inodes[i])
      <4>1. i \in Slots /\ inodes[i] \in Inode
        BY <1>1
      <4>2. inodes[i].start # 0
        BY <1>5, <3>1, SectorKinds
      <4>3. QED
        BY <3>1, <4>1, <4>2, InodeFields, ExtentBounds
    <3>3. \A j \in Slots : j # i => FilesOnDisk'[j] = FilesOnDisk[j]
      <4>1. SUFFICES ASSUME NEW j \in Slots, j # i
                     PROVE  FilesOnDisk'[j] = FilesOnDisk[j]
        OBVIOUS
      <4>2. ASSUME j \in Live(TableOnDisk), TableOnDisk[j].size # 0
            PROVE  TableOnDisk[j].start # w.sector
        <5>1. TableOnDisk[j].start \in Extent(TableOnDisk[j])
          BY <1>1, <4>2, FileSectors
        <5>2. Extent(TableOnDisk[j]) \cap Extent(inodes[i]) = {}
          BY <3>1, <4>1, <4>2 DEF DisjointInv, Apart
        <5>3. QED
          BY <3>2, <5>1, <5>2
      <4>3. QED
        BY <2>2, <4>1, <4>2
    <3>4. CASE i \in Live(TableOnDisk)
      <4>1. i \in Live(TableOnDisk')
        BY <2>1, <3>4
      <4>2. FilesOnDisk'[i] = [name |-> TableOnDisk[i].name, data |-> ReadFile(TableOnDisk, i)']
        BY <1>3, <2>1, <3>2, <4>1
      <4>3. ReadFile(TableOnDisk, i)' \in Store!Data
        BY <1>4, <4>1
      <4>4. QED
        BY <1>2, <1>3, <3>2, <3>3, <3>4, <4>2, <4>3, OneFileStep
    <3>5. CASE i \notin Live(TableOnDisk)
      <4>1. FilesOnDisk'[i] = FilesOnDisk[i]
        BY <2>2, <3>2, <3>5
      <4>2. QED
        BY <1>2, <1>3, <3>2, <3>3, <4>1, OneFileStep
    <3>6. QED
      BY <3>4, <3>5
  <2>5. QED
    BY <2>3, <2>4
<1>6. CASE w.sector \notin DataSecs
  <2>1. ASSUME NEW j \in Slots, TableOnDisk'[j] = TableOnDisk[j]
        PROVE  FilesOnDisk'[j] = FilesOnDisk[j]
    <3>1. j \in Live(TableOnDisk) /\ TableOnDisk[j].size # 0 =>
            TableOnDisk[j].start \in DataSecs
      BY <1>1, FileSectors
    <3>2. j \in Live(TableOnDisk) /\ TableOnDisk[j].size # 0 =>
            disk'[TableOnDisk[j].start] = disk[TableOnDisk[j].start]
      BY <1>1, <1>6, <3>1
    <3>3. QED
      BY <2>1, <3>2, SlotStays
  <2>2. CASE TableOnDisk' = TableOnDisk
    <3>1. \A j \in Slots : FilesOnDisk'[j] = FilesOnDisk[j]
      BY <2>1, <2>2
    <3>2. QED
      BY <1>2, <1>3, <3>1, SlotsExist, OneFileStep
  <2>3. CASE call = "Format"
    <3>1. Live(inodes) = {}
      BY <2>3 DEF SyncInv, QueueInv, CallKinds
    <3>2. \A j \in Slots : FilesOnDisk'[j] \in {FilesOnDisk[j], NoFile}
      <4>1. TAKE j \in Slots
      <4>2. CASE TableOnDisk'[j] = TableOnDisk[j]
        BY <2>1, <4>2
      <4>3. CASE TableOnDisk'[j] = inodes[j]
        <5>1. j \notin Live(TableOnDisk')
          BY <3>1, <4>3 DEF Live
        <5>2. QED
          BY <1>3, <5>1
      <4>4. QED
        BY <1>1, <4>2, <4>3
    <3>3. QED
      BY <1>2, <1>3, <3>2, EraseStep
  <2>4. CASE call # "Format" /\ TableOnDisk' # TableOnDisk
    <3>1. Kept
      BY <1>1, <2>4, SyncQueue, HeadWrite, TableWriteKept DEF w
    <3>2. TableOnDisk' = inodes /\ MemoryInv
      BY <2>4, <3>1, DiskOrMemory DEF StoreInv
    <3>3. PICK i \in Slots : \A j \in Slots \ {i} : inodes[j] = TableOnDisk[j]
      BY <3>1 DEF OneSlotInv, DifferAt
    <3>4. \A j \in Slots : j # i => FilesOnDisk'[j] = FilesOnDisk[j]
      BY <2>1, <3>2, <3>3
    <3>5. CASE i \in Live(TableOnDisk) /\ i \notin Live(inodes)
      <4>1. FilesOnDisk'[i] = NoFile /\ FilesOnDisk[i] # NoFile
        BY <1>2, <1>3, <3>2, <3>5
      <4>2. QED
        BY <1>2, <1>3, <3>4, <4>1, OneFileStep
    <3>6. CASE i \notin Live(TableOnDisk) /\ i \notin Live(inodes)
      <4>1. FilesOnDisk'[i] = NoFile /\ FilesOnDisk[i] = NoFile
        BY <1>2, <1>3, <3>2, <3>6
      <4>2. QED
        BY <1>2, <1>3, <3>4, <4>1, OneFileStep
    <3>7. CASE i \in Live(TableOnDisk) /\ i \in Live(inodes)
      <4>1. FilesOnDisk'[i] = [name |-> TableOnDisk[i].name, data |-> ReadFile(TableOnDisk, i)']
        <5>1. TableOnDisk'[i].name = TableOnDisk[i].name
          BY <3>2, <3>7 DEF MemoryInv
        <5>2. QED
          BY <1>3, <3>2, <3>7, <5>1
      <4>2. ReadFile(TableOnDisk, i)' \in Store!Data
        BY <1>4, <3>2, <3>7
      <4>3. QED
        BY <1>2, <1>3, <3>4, <3>7, <4>1, <4>2, OneFileStep
    <3>8. CASE i \notin Live(TableOnDisk) /\ i \in Live(inodes)
      <4>1. inodes[i].size = 0 /\ inodes[i].name \in Names
        BY <3>2, <3>8 DEF MemoryInv, FilesFine
      <4>2. FilesOnDisk'[i] = [name |-> inodes[i].name, data |-> << >>]
        BY <1>3, <1>4, <3>2, <3>8, <4>1
      <4>3. \A j \in Slots : FilesOnDisk[j] # NoFile => FilesOnDisk[j].name # inodes[i].name
        <5>1. SUFFICES ASSUME NEW j \in Slots, FilesOnDisk[j] # NoFile
                       PROVE  FilesOnDisk[j].name # inodes[i].name
          OBVIOUS
        <5>2. j \in Live(TableOnDisk) /\ FilesOnDisk[j].name = TableOnDisk[j].name
          BY <1>2, <5>1
        <5>3. j # i /\ inodes[j] = TableOnDisk[j] /\ j \in Live(inodes)
          BY <3>3, <3>8, <5>2 DEF Live
        <5>4. QED
          BY <3>2, <3>8, <5>2, <5>3 DEF MemoryInv, FilesFine
      <4>4. FilesOnDisk[i] = NoFile
        BY <1>2, <3>8
      <4>5. QED
        BY <1>2, <1>3, <3>4, <4>1, <4>2, <4>3, <4>4, OneFileStep
    <3>9. QED
      BY <3>5, <3>6, <3>7, <3>8
  <2>5. QED
    BY <2>2, <2>3, <2>4
<1>7. QED
  BY <1>5, <1>6

\* Every step is a step of the store, or none.
LEMMA NextRefines ==
  ASSUME Promised, SyncInv, FrontierInv, DisjointInv, OneSlotInv, StoreInv,
         SyncInv', StoreInv', [Next]_vars
  PROVE  [Store!Next]_FilesOnDisk
<1>1. ASSUME disk' = disk
      PROVE  FilesOnDisk' = FilesOnDisk
  BY <1>1 DEF FilesOnDisk, TableOnDisk, ReadFile, Live
<1>2. CASE WriteSector
  BY <1>2, SectorRefines
<1>3. CASE ~WriteSector
  <2>1. disk' = disk
    BY <1>3 DEF Next, Format, Mount, Unmount, CreateFile, DeleteFile, WriteFile, DiskCommand,
                Crash, Begin, vars
  <2>2. QED
    BY <1>1, <2>1
<1>4. QED
  BY <1>2, <1>3

\* At first the store is empty.
LEMMA InitStore ==
  ASSUME Init
  PROVE  StoreInv /\ DisjointInv /\ Store!Init
<1>1. mounted = FALSE /\ call = "idle" /\ todo = << >> /\ inodes = [i \in Slots |-> EmptyInode]
  BY DEF Init
<1>2. Live(TableOnDisk) = {} /\ Live(inodes) = {} /\ Len(todo) = 0 /\ ~Kept
  BY <1>1, InitTable, BlankTyped DEF Kept
<1>3. FilesOnDisk = [i \in Slots |-> NoFile]
  BY <1>2 DEF FilesOnDisk
<1>4. QED
  BY <1>2, <1>3 DEF StoreInv, FilesFine, DisjointInv, Apart, Store!Init

\* The filesystem implements the abstract store: what is on disk, read as files,
\* changes by one whole Create, Write or Delete at a time, or by an erasure,
\* wherever the power is lost.  The hypotheses are the limits the store's
\* promise has in the code: Format not cut short, one sector to a file, names
\* that fit their field, and the disk command's sector behind the files.
THEOREM ImplementsStore ==
  ASSUME TornFormat = FALSE, Sizes \subseteq {0, 1}, LongNames = {},
         TestSectors \cap (DataStart .. (DataStart + MaxUsed - 1)) = {}
  PROVE  Spec => StoreSpec
<1>1. Promised
  BY DEF Promised
<1>2. Init => FrontierInv /\ OneSlotInv /\ StoreInv /\ DisjointInv /\ Store!Init
  BY InitFrontier, InitAgrees, InitStore
<1>3. SyncInv /\ FrontierInv /\ [Next]_vars => FrontierInv'
  BY NextFrontier
<1>4. SyncInv /\ FrontierInv /\ DisjointInv /\ [Next]_vars => DisjointInv'
  BY NextDisjoint
<1>5. SyncInv /\ OneSlotInv /\ [Next]_vars => OneSlotInv'
  BY NextOneSlot
<1>6. SyncInv /\ FrontierInv /\ OneSlotInv /\ StoreInv /\ [Next]_vars => StoreInv'
  BY <1>1, NextStore
<1>7. /\ SyncInv /\ FrontierInv /\ DisjointInv /\ OneSlotInv /\ StoreInv
      /\ SyncInv' /\ StoreInv' /\ [Next]_vars
      => [Store!Next]_FilesOnDisk
  BY <1>1, NextRefines
<1>8. QED
  BY <1>2, <1>3, <1>4, <1>5, <1>6, <1>7, SpecSync, PTL DEF Spec, StoreSpec, Store!Spec
=============================================================================
