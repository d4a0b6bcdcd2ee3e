--------------------------- MODULE MemoryManager ----------------------------
(***************************************************************************)
(* The kernel heap (memory.cpp, memory.h): one list of chunks in address   *)
(* order, each a header followed by its bytes; malloc walks the list and   *)
(* takes the first chunk that is large enough, free merges the chunk with  *)
(* its free neighbours.                                                    *)
(*                                                                         *)
(* The walk of malloc is modelled one chunk per step.  Callers are not     *)
(* interleaved with it: the kernel runs malloc and free only from          *)
(* kernelMain before interrupts are enabled and from interrupt handlers,   *)
(* which run with interrupts off.  Callers free what they were given, and  *)
(* once.                                                                   *)
(***************************************************************************)
EXTENDS Integers

CONSTANTS HeapStart,   \* address given to the constructor
          HeapSize,    \* size given to the constructor
          HeaderSize,  \* sizeof(MemoryChunk)
          Requests     \* the sizes callers ask for

ASSUME HeapAssumption ==
  /\ HeapStart \in Nat \ {0}
  /\ HeapSize \in Nat
  /\ HeaderSize \in Nat \ {0}
  /\ Requests \subseteq Nat

NULL == 0

HeapEnd == HeapStart + HeapSize

VARIABLES first,   \* head of the list
          chunk,   \* the chunk headers reachable in the heap, by address
          owned,   \* ghost: the blocks callers hold, with the size they asked for
          pc,      \* "idle", or "walk" inside malloc
          cursor,  \* the chunk malloc looks at
          want     \* the size malloc was called with

vars == <<first, chunk, owned, pc, cursor, want>>

Header == [next : Nat, prev : Nat, allocated : BOOLEAN, size : Nat]

-----------------------------------------------------------------------------
(* The list. *)

\* Slip in Fits: chunks in use are not passed over.
FitsUsed(h, a, n) == h[a].size > n

\* A chunk malloc accepts: the comparison with the request is strict.
Fits(h, a, n) == h[a].size > n /\ ~h[a].allocated

\* Slip in Split: the rest starts where the bytes end if there were no header.
SplitShort(h, a, n) ==
  [x \in DOMAIN h \cup {a + n} |->
     IF x = a + n
     THEN [next |-> h[a].next, prev |-> a, allocated |-> FALSE,
           size |-> h[a].size - n - HeaderSize]
     ELSE IF x = a
     THEN [next |-> a + n, prev |-> h[a].prev, allocated |-> TRUE, size |-> n]
     ELSE IF x = h[a].next THEN [h[x] EXCEPT !.prev = a + n] ELSE h[x]]

\* The chunk at a split into one of n bytes, in use, and a free rest.
Split(h, a, n) ==
  LET rest == a + HeaderSize + n
      after == h[a].next
  IN [x \in DOMAIN h \cup {rest} |->
        IF x = rest
        THEN [next |-> after, prev |-> a, allocated |-> FALSE,
              size |-> h[a].size - n - HeaderSize]
        ELSE IF x = a
        THEN [next |-> rest, prev |-> h[a].prev, allocated |-> TRUE, size |-> n]
        ELSE IF x = after THEN [h[x] EXCEPT !.prev = rest] ELSE h[x]]

\* Slips in Take: a split without room for a header; a chunk that is not
\* marked used when it is taken whole.
TakeAlwaysSplit(h, a, n) == Split(h, a, n)

TakeUnmarked(h, a, n) ==
  IF h[a].size >= n + HeaderSize + 1 THEN Split(h, a, n) ELSE h

\* The chunk at a put in use, split when a byte is left after the next header.
Take(h, a, n) ==
  IF h[a].size >= n + HeaderSize + 1
  THEN Split(h, a, n)
  ELSE [h EXCEPT ![a].allocated = TRUE]

\* Slips in Absorb: the chunk after the pair keeps pointing back at the
\* absorbed one; the absorbed header's bytes are lost.
AbsorbNoBack(h, a, b) ==
  [x \in DOMAIN h \ {b} |->
     IF x = a
     THEN [h[a] EXCEPT !.size = @ + h[b].size + HeaderSize, !.next = h[b].next]
     ELSE h[x]]

AbsorbLeak(h, a, b) ==
  [x \in DOMAIN h \ {b} |->
     IF x = a
     THEN [h[a] EXCEPT !.size = @ + h[b].size, !.next = h[b].next]
     ELSE IF x = h[b].next THEN [h[x] EXCEPT !.prev = a] ELSE h[x]]

\* The chunk at b, which follows the one at a, made part of it.
Absorb(h, a, b) ==
  LET after == h[b].next
  IN [x \in DOMAIN h \ {b} |->
        IF x = a
        THEN [next |-> after, prev |-> h[a].prev, allocated |-> h[a].allocated,
              size |-> h[a].size + h[b].size + HeaderSize]
        ELSE IF x = after THEN [h[x] EXCEPT !.prev = a] ELSE h[x]]

MergeNext(h, a) ==
  IF h[a].next # NULL /\ ~h[h[a].next].allocated
  THEN Absorb(h, a, h[a].next)
  ELSE h

MergePrev(h, a) ==
  IF h[a].prev # NULL /\ ~h[h[a].prev].allocated
  THEN Absorb(h, h[a].prev, a)
  ELSE h

\* Slip in Released: only the next neighbour is merged.
ReleasedNextOnly(h, a) == MergeNext([h EXCEPT ![a].allocated = FALSE], a)

\* The heap after the chunk at a is released.
Released(h, a) == MergePrev(MergeNext([h EXCEPT ![a].allocated = FALSE], a), a)

-----------------------------------------------------------------------------
(* The constructor. *)
Init ==
  /\ first = IF HeapSize < HeaderSize THEN NULL ELSE HeapStart
  /\ chunk = [x \in {first} \ {NULL} |->
                [next |-> NULL, prev |-> NULL, allocated |-> FALSE,
                 size |-> HeapSize - HeaderSize]]
  /\ owned = [p \in {} |-> 0]
  /\ pc = "idle"
  /\ cursor = NULL
  /\ want = 0

\* Slip in MallocCall: the search starts behind the first chunk.
MallocFromSecond(n) ==
  /\ pc = "idle"
  /\ pc' = "walk"
  /\ cursor' = IF first = NULL \/ chunk[first].next = NULL THEN first ELSE chunk[first].next
  /\ want' = n
  /\ UNCHANGED <<first, chunk, owned>>

MallocCall(n) ==
  /\ pc = "idle"
  /\ pc' = "walk"
  /\ cursor' = first
  /\ want' = n
  /\ UNCHANGED <<first, chunk, owned>>

WalkOn ==
  /\ pc = "walk"
  /\ cursor # NULL
  /\ ~Fits(chunk, cursor, want)
  /\ cursor' = chunk[cursor].next
  /\ UNCHANGED <<first, chunk, owned, pc, want>>

Return == pc' = "idle" /\ cursor' = NULL /\ want' = 0

WalkTake ==
  /\ pc = "walk"
  /\ cursor # NULL
  /\ Fits(chunk, cursor, want)
  /\ chunk' = Take(chunk, cursor, want)
  /\ LET p == cursor + HeaderSize
     IN owned' = [q \in DOMAIN owned \cup {p} |-> IF q = p THEN want ELSE owned[q]]
  /\ Return
  /\ UNCHANGED first

\* malloc returns 0.
WalkFail ==
  /\ pc = "walk"
  /\ cursor = NULL
  /\ Return
  /\ UNCHANGED <<first, chunk, owned>>

Free(p) ==
  /\ pc = "idle"
  /\ chunk' = Released(chunk, p - HeaderSize)
  /\ owned' = [q \in DOMAIN owned \ {p} |-> owned[q]]
  /\ UNCHANGED <<first, pc, cursor, want>>

Next ==
  \/ \E n \in Requests : MallocCall(n)
  \/ WalkOn \/ WalkTake \/ WalkFail
  \/ \E p \in DOMAIN owned : Free(p)

Spec == Init /\ [][Next]_vars

-----------------------------------------------------------------------------
(* Properties. *)

IsHeap(h) == DOMAIN h \subseteq Nat /\ h \in [DOMAIN h -> Header]

\* The variables have their types.
TypeOK ==
  /\ first \in {NULL, HeapStart}
  /\ IsHeap(chunk)
  /\ DOMAIN owned \subseteq Nat
  /\ owned \in [DOMAIN owned -> Requests]
  /\ \/ pc = "idle" /\ cursor = NULL /\ want = 0
     \/ pc = "walk" /\ cursor \in DOMAIN chunk \cup {NULL} /\ want \in Requests

ChunkEnd(h, a) == a + HeaderSize + h[a].size

\* The chunk at a lies in the heap, its next is where it ends, and the
\* neighbours point back at it.
ChunkLinked(h, a) ==
  /\ HeapStart <= a
  /\ ChunkEnd(h, a) <= HeapEnd
  /\ h[a].next = NULL <=> ChunkEnd(h, a) = HeapEnd
  /\ h[a].next # NULL =>
       /\ h[a].next = ChunkEnd(h, a)
       /\ h[a].next \in DOMAIN h
       /\ h[h[a].next].prev = a
  /\ h[a].prev = NULL <=> a = HeapStart
  /\ h[a].prev # NULL =>
       /\ h[a].prev \in DOMAIN h
       /\ h[h[a].prev].next = a

Linked(h) ==
  /\ \A a \in DOMAIN h : ChunkLinked(h, a)
  /\ \A a, b \in DOMAIN h : a < b => ChunkEnd(h, a) <= b

\* Chunks tile the heap: the list is in address order without gap or
\* overlap, every next ends where the chunk does, and prev is its inverse.
WellLinked ==
  /\ first = NULL <=> DOMAIN chunk = {}
  /\ first # NULL => HeapStart \in DOMAIN chunk
  /\ Linked(chunk)

\* The chunk at a and the one after it are both free.
FreePair(h, a) ==
  h[a].next # NULL /\ ~h[a].allocated /\ ~h[h[a].next].allocated

\* free coalesces eagerly: two neighbours are never both free.
Coalesced == \A a \in DOMAIN chunk : ~FreePair(chunk, a)

\* The chunks in use are the blocks callers hold: each is as large as was
\* asked for, and wastes at most the header that could not be split off.
OwnedIsAllocated ==
  /\ {a \in DOMAIN chunk : chunk[a].allocated} = {p - HeaderSize : p \in DOMAIN owned}
  /\ \A p \in DOMAIN owned :
       /\ owned[p] <= chunk[p - HeaderSize].size
       /\ chunk[p - HeaderSize].size <= owned[p] + HeaderSize

\* A caller that fills its block writes over no chunk header.
HeadersIntact ==
  \A p \in DOMAIN owned, a \in DOMAIN chunk :
    p + owned[p] <= a \/ a + HeaderSize <= p

\* When every block was freed the heap is one chunk again, as the
\* constructor left it: no sequence of calls leaks or fragments it for good.
WholeWhenEmpty ==
  DOMAIN owned = {} /\ first # NULL =>
    /\ DOMAIN chunk = {HeapStart}
    /\ chunk[HeapStart].size = HeapSize - HeaderSize

\* What malloc walked past cannot serve the request.
Skipped ==
  pc = "walk" =>
    \A a \in DOMAIN chunk :
      cursor = NULL \/ a < cursor => ~Fits(chunk, a, want)

\* A block is carved from the lowest chunk that can serve the request.
FirstFit ==
  [][\A p \in DOMAIN owned' \ DOMAIN owned :
       /\ Fits(chunk, p - HeaderSize, want)
       /\ \A a \in DOMAIN chunk : a < p - HeaderSize => ~Fits(chunk, a, want)]_vars

\* The blocks callers hold behave as the abstract heap says.
Heap == INSTANCE AbstractHeap WITH live <- owned
HeapSpec == Heap!Spec

\* The inductive invariant of the proofs.
IInv == TypeOK /\ WellLinked /\ Coalesced /\ OwnedIsAllocated /\ Skipped
=============================================================================
