---------------------------- MODULE AbstractHeap ----------------------------
(***************************************************************************)
(* What the callers of malloc and free are promised: a block handed out    *)
(* lies inside the heap, overlaps no other live block, and stays theirs    *)
(* until they give it back.  Nothing is said of where a block is placed,   *)
(* of headers or of when a request fails.                                  *)
(***************************************************************************)
EXTENDS Integers

CONSTANTS HeapStart, \* address of the first byte of the heap
          HeapSize,  \* its length in bytes
          Requests   \* the sizes callers ask for

VARIABLE live        \* live[p] = the size asked for the block at p

\* The blocks at p (n bytes) and q (m bytes) share no byte.
Apart(p, n, q, m) == p + n <= q \/ q + m <= p

Init == live = [p \in {} |-> 0]

Allocate(p, n) ==
  /\ p \notin DOMAIN live
  /\ HeapStart <= p
  /\ p + n <= HeapStart + HeapSize
  /\ \A q \in DOMAIN live : Apart(p, n, q, live[q])
  /\ live' = [q \in DOMAIN live \cup {p} |-> IF q = p THEN n ELSE live[q]]

Release(p) ==
  /\ p \in DOMAIN live
  /\ live' = [q \in DOMAIN live \ {p} |-> live[q]]

Next ==
  \/ \E p \in HeapStart .. (HeapStart + HeapSize), n \in Requests : Allocate(p, n)
  \/ \E p \in DOMAIN live : Release(p)

Spec == Init /\ [][Next]_live
=============================================================================
