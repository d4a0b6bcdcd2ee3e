------------------------ MODULE MemoryManagerProofs -------------------------
(***************************************************************************)
(* The heap is sound for every heap size, header size and set of requests. *)
(***************************************************************************)
EXTENDS MemoryManager, TLAPS

\* The fields of a typed header.
LEMMA HeapFields ==
  ASSUME NEW h, IsHeap(h)
  PROVE  \A x \in DOMAIN h :
           /\ x \in Nat
           /\ h[x] \in Header
           /\ h[x].next \in Nat
           /\ h[x].prev \in Nat
           /\ h[x].size \in Nat
           /\ h[x].allocated \in BOOLEAN
           /\ ChunkEnd(h, x) \in Nat
BY HeapAssumption DEF IsHeap, Header, ChunkEnd

\* No chunk sits at the null address.
LEMMA NullNoChunk ==
  ASSUME NEW h, Linked(h)
  PROVE  NULL \notin DOMAIN h
  BY HeapAssumption DEF Linked, ChunkLinked, NULL

\* In a linked heap the chunk after a starts where a ends.
LEMMA NextFollows ==
  ASSUME NEW h, IsHeap(h), Linked(h), NEW a \in DOMAIN h, h[a].next # NULL
  PROVE  /\ h[a].next \in DOMAIN h
         /\ h[a].next = ChunkEnd(h, a)
         /\ h[a].next \in Nat
         /\ a < h[a].next
         /\ h[h[a].next].prev = a
  BY HeapFields, HeapAssumption DEF Linked, ChunkLinked, ChunkEnd

\* Merging a free chunk with its free successor keeps the tiling, touches no
\* chunk in use, and leaves no free pair but the ones there were, with the
\* pair after the absorbed chunk now after the one that absorbed it.
LEMMA AbsorbSound ==
  ASSUME NEW h, IsHeap(h), Linked(h),
         NEW a \in DOMAIN h, h[a].next # NULL,
         ~h[a].allocated, ~h[h[a].next].allocated,
         NEW g, g = Absorb(h, a, h[a].next)
  PROVE  /\ DOMAIN g = DOMAIN h \ {h[a].next}
         /\ a \in DOMAIN g
         /\ IsHeap(g)
         /\ Linked(g)
         /\ \A x \in DOMAIN g : g[x].allocated = h[x].allocated
         /\ \A x \in DOMAIN g : x # a => g[x].size = h[x].size
         /\ \A x \in DOMAIN g : x # a /\ FreePair(g, x) => FreePair(h, x)
         /\ FreePair(g, a) => FreePair(h, h[a].next)
         /\ HeapStart \in DOMAIN h => HeapStart \in DOMAIN g
         /\ \A x \in DOMAIN g : x # a => g[x].next = h[x].next
<1> DEFINE b == h[a].next
           after == h[b].next
<1>1. /\ b \in DOMAIN h
      /\ b = ChunkEnd(h, a)
      /\ a \in Nat /\ b \in Nat /\ a < b
      /\ h[b].prev = a
  BY NextFollows, HeapFields
<1>2. after # NULL => /\ after \in DOMAIN h
                      /\ after > b
                      /\ h[after].prev = b
                      /\ after = ChunkEnd(h, b)
  BY <1>1, NextFollows
<1>3. DOMAIN g = DOMAIN h \ {b}
  BY DEF Absorb
<1>4. g[a] = [next |-> after, prev |-> h[a].prev, allocated |-> h[a].allocated,
              size |-> h[a].size + h[b].size + HeaderSize]
  BY <1>1 DEF Absorb
<1>5. \A x \in DOMAIN g : x # a /\ x # after => g[x] = h[x]
  BY <1>1 DEF Absorb
<1>6. after # NULL => g[after] = [h[after] EXCEPT !.prev = a]
  BY <1>1, <1>2 DEF Absorb
<1>7. after # NULL => g[after] = [next |-> h[after].next, prev |-> a,
                                  allocated |-> h[after].allocated,
                                  size |-> h[after].size]
  BY <1>2, <1>6, HeapFields DEF Header
<1>0. g = [x \in DOMAIN g |-> g[x]]
  BY DEF Absorb
<1>8. \A x \in DOMAIN g : x # a =>
        /\ x \in DOMAIN h
        /\ g[x].next = h[x].next
        /\ g[x].allocated = h[x].allocated
        /\ g[x].size = h[x].size
        /\ g[x].prev = IF x = after THEN a ELSE h[x].prev
  BY <1>3, <1>5, <1>7, NullNoChunk
<1>9. /\ a \in DOMAIN g
      /\ g[a].next = after
      /\ g[a].prev = h[a].prev
      /\ g[a].allocated = h[a].allocated
      /\ g[a].size = h[a].size + h[b].size + HeaderSize
  BY <1>1, <1>3, <1>4
<1>10. after \in Nat
  BY <1>1, HeapFields
<1>11. IsHeap(g)
  <2>1. g[a] \in Header
    BY <1>1, <1>4, <1>10, HeapFields, HeapAssumption DEF Header
  <2>2. \A x \in DOMAIN g : x # a => g[x] \in Header
    <3>1. after # NULL => g[after] \in Header
      BY <1>1, <1>2, <1>7, HeapFields DEF Header
    <3> QED
      BY <1>3, <1>5, <3>1, HeapFields, NullNoChunk
  <2> QED
    BY <1>0, <1>3, <2>1, <2>2 DEF IsHeap
<1>12. /\ ChunkEnd(g, a) = ChunkEnd(h, b)
       /\ \A x \in DOMAIN g : x # a => ChunkEnd(g, x) = ChunkEnd(h, x)
  BY <1>1, <1>8, <1>9, HeapFields, HeapAssumption DEF ChunkEnd
<1>13. \A x, y \in DOMAIN g : x < y => ChunkEnd(g, x) <= y
  <2> SUFFICES ASSUME NEW x \in DOMAIN g, NEW y \in DOMAIN g, x < y
               PROVE  ChunkEnd(g, x) <= y
    OBVIOUS
  <2>1. \A u, v \in DOMAIN h : u < v => ChunkEnd(h, u) <= v
    BY DEF Linked
  <2>2. x \in DOMAIN h /\ y \in DOMAIN h /\ y # b /\ x \in Nat /\ y \in Nat
    BY <1>3, HeapFields
  <2>3. CASE x = a
    BY <1>1, <1>12, <2>1, <2>2, <2>3
  <2>4. CASE x # a
    BY <1>12, <2>1, <2>2, <2>4
  <2> QED
    BY <2>3, <2>4
<1>14. \A x \in DOMAIN g : ChunkLinked(g, x)
  <2>0. \A x \in DOMAIN h : ChunkLinked(h, x)
    BY DEF Linked
  <2>1. ChunkLinked(g, a)
    <3>1. after # NULL => after \in DOMAIN g /\ after # a
      BY <1>1, <1>2, <1>3
    <3>2. h[a].prev # NULL => h[a].prev \in DOMAIN g /\ h[a].prev # a /\ h[a].prev # b
      <4> SUFFICES ASSUME h[a].prev # NULL PROVE h[a].prev \in DOMAIN h /\ h[a].prev < a
        BY <1>1, <1>3, HeapFields
      <4>1. h[a].prev \in DOMAIN h /\ h[h[a].prev].next = a
        BY <2>0 DEF ChunkLinked
      <4> QED
        BY <1>1, <4>1, NextFollows, NullNoChunk
    <3> QED
      BY <1>1, <1>2, <1>8, <1>9, <1>12, <2>0, <3>1, <3>2 DEF ChunkLinked
  <2>2. ASSUME NEW x \in DOMAIN g, x # a
        PROVE  ChunkLinked(g, x)
    <3>1. x \in DOMAIN h /\ x # b /\ ChunkLinked(h, x)
      BY <1>3, <2>0
    <3>2. h[x].next # NULL => h[x].next \in DOMAIN g
      BY <1>1, <1>3, <3>1, NextFollows, <2>2
    <3>3. h[x].next # NULL => g[h[x].next].prev = x
      <4>1. CASE h[x].next = a
        BY <1>9, <3>1, <4>1 DEF ChunkLinked
      <4>2. CASE h[x].next # a /\ h[x].next = after
        <5>1. h[x].next # NULL => x = b
          BY <1>2, <3>1, <4>2 DEF ChunkLinked
        <5> QED
          BY <3>1, <5>1
      <4>3. CASE h[x].next # a /\ h[x].next # after
        BY <1>8, <3>1, <3>2, <4>3 DEF ChunkLinked
      <4> QED
        BY <4>1, <4>2, <4>3
    <3>4. CASE x = after
      <4>1. x # NULL /\ h[x].prev = b
        BY <1>2, <3>1, <3>4, HeapAssumption DEF ChunkLinked, NULL
      <4>2. /\ g[x].prev = a /\ a # NULL /\ b # NULL
            /\ g[a].next = x /\ a \in DOMAIN g
        BY <1>1, <1>8, <1>9, <2>2, <3>4, NullNoChunk
      <4>3. x # HeapStart
        BY <3>1, <4>1, <4>2 DEF ChunkLinked
      <4> QED
        BY <1>8, <1>12, <2>2, <3>1, <3>2, <3>3, <4>2, <4>3 DEF ChunkLinked
    <3>5. CASE x # after
      <4>1. g[x].prev = h[x].prev
        BY <1>8, <2>2, <3>5
      <4>2. h[x].prev # NULL => h[x].prev \in DOMAIN g /\ g[h[x].prev].next = x
        BY <1>3, <1>8, <1>9, <2>2, <3>1, <3>5, <1>1 DEF ChunkLinked
      <4> QED
        BY <1>8, <1>12, <2>2, <3>1, <3>2, <3>3, <4>1, <4>2 DEF ChunkLinked
    <3> QED
      BY <3>4, <3>5
  <2> QED
    BY <2>1, <2>2
<1>15. /\ \A x \in DOMAIN g : g[x].allocated = h[x].allocated
       /\ \A x \in DOMAIN g : x # a => g[x].size = h[x].size
  BY <1>8, <1>9
<1>16. \A x \in DOMAIN g : x # a /\ FreePair(g, x) => FreePair(h, x)
  BY <1>8, <1>11, <1>14, <1>13, <1>15, NextFollows DEF FreePair, Linked
<1>17. FreePair(g, a) => FreePair(h, b)
  BY <1>1, <1>2, <1>3, <1>9, <1>15 DEF FreePair
<1>18. b # HeapStart
  BY <1>1, NullNoChunk DEF Linked, ChunkLinked
<1> QED
  BY <1>3, <1>8, <1>9, <1>11, <1>13, <1>14, <1>15, <1>16, <1>17, <1>18 DEF Linked

\* Splitting a free chunk keeps the tiling and makes no free pair.
LEMMA SplitSound ==
  ASSUME NEW h, IsHeap(h), Linked(h),
         NEW a \in DOMAIN h, ~h[a].allocated,
         NEW n \in Nat, h[a].size >= n + HeaderSize + 1,
         NEW g, g = Split(h, a, n),
         NEW rest, rest = a + HeaderSize + n
  PROVE  /\ DOMAIN g = DOMAIN h \cup {rest}
         /\ rest \notin DOMAIN h
         /\ IsHeap(g)
         /\ Linked(g)
         /\ g[a].allocated /\ g[a].size = n
         /\ ~g[rest].allocated
         /\ \A x \in DOMAIN h :
              x # a => g[x].allocated = h[x].allocated /\ g[x].size = h[x].size
         /\ (\A x \in DOMAIN h : ~FreePair(h, x)) => \A x \in DOMAIN g : ~FreePair(g, x)
<1> DEFINE after == h[a].next
<1>1. /\ a \in Nat /\ rest \in Nat /\ a < rest
      /\ rest + HeaderSize < ChunkEnd(h, a)
      /\ a # NULL /\ rest # NULL
  BY HeapFields, HeapAssumption, NullNoChunk DEF ChunkEnd, NULL
<1>2. rest \notin DOMAIN h
  <2> SUFFICES ASSUME rest \in DOMAIN h PROVE FALSE
    OBVIOUS
  <2>1. ChunkEnd(h, a) <= rest
    BY <1>1 DEF Linked
  <2> QED
    BY <1>1, <2>1, HeapFields, HeapAssumption
<1>3. after # NULL => /\ after \in DOMAIN h
                      /\ after > rest
                      /\ after # a
                      /\ h[after].prev = a
                      /\ after = ChunkEnd(h, a)
  BY <1>1, NextFollows, HeapAssumption, HeapFields
<1>4. DOMAIN g = DOMAIN h \cup {rest}
  BY DEF Split
<1>5. g[rest] = [next |-> after, prev |-> a, allocated |-> FALSE,
                 size |-> h[a].size - n - HeaderSize]
  BY DEF Split
<1>6. g[a] = [next |-> rest, prev |-> h[a].prev, allocated |-> TRUE, size |-> n]
  BY <1>2 DEF Split
<1>7. \A x \in DOMAIN g : x # a /\ x # rest /\ x # after => g[x] = h[x]
  BY DEF Split
<1>8. after # NULL => g[after] = [h[after] EXCEPT !.prev = rest]
  BY <1>2, <1>3 DEF Split
<1>9. after # NULL => g[after] = [next |-> h[after].next, prev |-> rest,
                                  allocated |-> h[after].allocated,
                                  size |-> h[after].size]
  BY <1>3, <1>8, HeapFields DEF Header
<1>0. g = [x \in DOMAIN g |-> g[x]]
  BY DEF Split
<1>10. \A x \in DOMAIN h : x # a =>
         /\ x \in DOMAIN g
         /\ g[x].next = h[x].next
         /\ g[x].allocated = h[x].allocated
         /\ g[x].size = h[x].size
         /\ g[x].prev = IF x = after THEN rest ELSE h[x].prev
  BY <1>2, <1>4, <1>7, <1>9, NullNoChunk
<1>11. /\ a \in DOMAIN g
       /\ g[a].next = rest /\ g[a].prev = h[a].prev
       /\ g[a].allocated /\ g[a].size = n
  BY <1>4, <1>6
<1>12. /\ rest \in DOMAIN g
       /\ g[rest].next = after /\ g[rest].prev = a
       /\ ~g[rest].allocated
       /\ g[rest].size = h[a].size - n - HeaderSize
       /\ g[rest].size \in Nat
  <2>1. h[a].size - n - HeaderSize \in Nat
    BY HeapFields, HeapAssumption
  <2> QED
    BY <1>4, <1>5, <2>1
<1>13. IsHeap(g)
  <2>1. g[a] \in Header
    BY <1>1, <1>6, HeapFields DEF Header
  <2>2. g[rest] \in Header
    BY <1>1, <1>5, <1>12, HeapFields DEF Header
  <2>3. after # NULL => g[after] \in Header
    BY <1>1, <1>3, <1>9, HeapFields DEF Header
  <2>4. \A x \in DOMAIN g : g[x] \in Header
    BY <1>4, <1>7, <2>1, <2>2, <2>3, HeapFields, NullNoChunk
  <2>5. DOMAIN g \subseteq Nat
    BY <1>1, <1>4, HeapFields
  <2> QED
    BY <1>0, <2>4, <2>5 DEF IsHeap
<1>14. /\ ChunkEnd(g, a) = rest
       /\ ChunkEnd(g, rest) = ChunkEnd(h, a)
       /\ \A x \in DOMAIN h : x # a => ChunkEnd(g, x) = ChunkEnd(h, x)
  BY <1>1, <1>10, <1>11, <1>12, HeapFields, HeapAssumption DEF ChunkEnd
<1>15. \A x, y \in DOMAIN g : x < y => ChunkEnd(g, x) <= y
  <2> SUFFICES ASSUME NEW x \in DOMAIN g, NEW y \in DOMAIN g, x < y
               PROVE  ChunkEnd(g, x) <= y
    OBVIOUS
  <2>1. \A u, v \in DOMAIN h : u < v => ChunkEnd(h, u) <= v
    BY DEF Linked
  <2>2. \A u \in DOMAIN g : u \in Nat /\ ChunkEnd(g, u) \in Nat
    BY <1>13, HeapFields
  <2>3. \A u \in DOMAIN h : u \in Nat /\ ChunkEnd(h, u) \in Nat
    BY HeapFields
  <2>4. CASE x = a
    BY <1>1, <1>4, <1>14, <2>1, <2>2, <2>3, <2>4, HeapAssumption
  <2>5. CASE x = rest
    BY <1>1, <1>4, <1>14, <2>1, <2>2, <2>3, <2>5
  <2>6. CASE x # a /\ x # rest /\ y = rest
    <3>1. x \in DOMAIN h /\ x < ChunkEnd(h, a)
      BY <1>1, <1>4, <2>2, <2>3, <2>6, HeapAssumption
    <3>2. x < a
      BY <1>1, <2>1, <2>3, <2>6, <3>1
    <3> QED
      BY <1>1, <1>14, <2>1, <2>3, <2>6, <3>1, <3>2
  <2>7. CASE x # a /\ x # rest /\ y # rest
    BY <1>4, <1>14, <2>1, <2>7
  <2> QED
    BY <2>4, <2>5, <2>6, <2>7
<1>16. \A x \in DOMAIN g : ChunkLinked(g, x)
  <2>0. \A x \in DOMAIN h : ChunkLinked(h, x)
    BY DEF Linked
  <2>1. ChunkLinked(g, a)
    <3>1. h[a].prev # NULL => h[a].prev \in DOMAIN h /\ h[a].prev # a
      <4>1. h[a].prev # NULL => h[a].prev \in DOMAIN h /\ h[h[a].prev].next = a
        BY <2>0 DEF ChunkLinked
      <4> QED
        BY <1>1, <4>1, NextFollows
    <3>2. HeapStart <= a /\ ChunkEnd(h, a) <= HeapEnd
      BY <2>0 DEF ChunkLinked
    <3>3. rest < HeapEnd
      BY <1>1, <3>2, HeapFields, HeapAssumption DEF HeapEnd
    <3> QED
      BY <1>1, <1>10, <1>11, <1>12, <1>14, <2>0, <3>1, <3>3, HeapAssumption
      DEF ChunkLinked, HeapEnd
  <2>2. ChunkLinked(g, rest)
    <3>1. rest # HeapStart /\ HeapStart <= rest
      BY <1>1, <2>0, HeapAssumption DEF ChunkLinked
    <3> QED
      BY <1>1, <1>3, <1>10, <1>11, <1>12, <1>14, <2>0, <3>1 DEF ChunkLinked
  <2>3. ASSUME NEW x \in DOMAIN h, x # a
        PROVE  ChunkLinked(g, x)
    <3>1. ChunkLinked(h, x) /\ x # rest
      BY <1>2, <2>0
    <3>2. h[x].next # NULL => h[x].next \in DOMAIN g /\ g[h[x].next].prev = x
      <4>1. h[x].next # NULL => h[x].next \in DOMAIN h /\ h[h[x].next].prev = x
        BY <3>1 DEF ChunkLinked
      <4>2. CASE h[x].next = a
        BY <1>11, <4>1, <4>2
      <4>3. CASE h[x].next # a
        BY <1>3, <1>10, <2>3, <4>1, <4>3
      <4> QED
        BY <4>2, <4>3
    <3>3. CASE x = after
      <4>1. x # NULL /\ h[x].prev = a /\ g[x].prev = rest
        BY <1>3, <1>10, <2>3, <3>3, NullNoChunk
      <4>2. x # HeapStart
        BY <1>1, <3>1, <4>1 DEF ChunkLinked
      <4> QED
        BY <1>1, <1>10, <1>12, <1>14, <2>3, <3>1, <3>2, <3>3, <4>1, <4>2 DEF ChunkLinked
    <3>4. CASE x # after
      <4>1. h[x].prev # a
        BY <1>1, <3>1, <3>4 DEF ChunkLinked
      <4>2. h[x].prev # NULL => /\ h[x].prev \in DOMAIN g
                                /\ g[h[x].prev].next = x
        BY <1>10, <3>1, <4>1 DEF ChunkLinked
      <4> QED
        BY <1>10, <1>14, <2>3, <3>1, <3>2, <3>4, <4>2 DEF ChunkLinked
    <3> QED
      BY <3>3, <3>4
  <2> QED
    BY <1>4, <2>1, <2>2, <2>3
<1>17. ASSUME \A x \in DOMAIN h : ~FreePair(h, x),
              NEW x \in DOMAIN g
       PROVE  ~FreePair(g, x)
  <2>1. CASE x = a
    BY <1>11, <2>1 DEF FreePair
  <2>2. CASE x = rest
    BY <1>3, <1>10, <1>12, <1>17, <2>2 DEF FreePair
  <2>3. CASE x # a /\ x # rest
    <3>1. x \in DOMAIN h /\ (h[x].next # NULL => h[x].next \in DOMAIN h)
      BY <1>4, <2>3, NextFollows
    <3> QED
      BY <1>10, <1>11, <1>17, <2>3, <3>1 DEF FreePair
  <2> QED
    BY <2>1, <2>2, <2>3
<1> QED
  BY <1>2, <1>4, <1>10, <1>11, <1>12, <1>13, <1>15, <1>16, <1>17 DEF Linked

\* Marking a chunk used or free changes that mark and nothing else.
LEMMA MarkSound ==
  ASSUME NEW h, IsHeap(h), Linked(h), NEW a \in DOMAIN h, NEW mark \in BOOLEAN
  PROVE  LET g == [h EXCEPT ![a].allocated = mark]
         IN /\ DOMAIN g = DOMAIN h
            /\ IsHeap(g)
            /\ Linked(g)
            /\ g[a].allocated = mark
            /\ \A x \in DOMAIN h : x # a => g[x] = h[x]
            /\ \A x \in DOMAIN h : /\ g[x].next = h[x].next
                                   /\ g[x].prev = h[x].prev
                                   /\ g[x].size = h[x].size
<1> DEFINE g == [h EXCEPT ![a].allocated = mark]
<1>1. DOMAIN g = DOMAIN h /\ \A x \in DOMAIN h : x # a => g[x] = h[x]
  OBVIOUS
<1>2. g[a] = [h[a] EXCEPT !.allocated = mark]
  OBVIOUS
<1>3. g[a] = [next |-> h[a].next, prev |-> h[a].prev, allocated |-> mark,
              size |-> h[a].size]
  BY <1>2, HeapFields DEF Header
<1>4. g = [x \in DOMAIN g |-> g[x]]
  OBVIOUS
<1> HIDE DEF g
<1>5. \A x \in DOMAIN h : /\ g[x].next = h[x].next
                          /\ g[x].prev = h[x].prev
                          /\ g[x].size = h[x].size
  BY <1>1, <1>3
<1>6. IsHeap(g)
  <2>1. g[a] \in Header
    BY <1>3, HeapFields DEF Header
  <2>2. \A x \in DOMAIN g : g[x] \in Header
    BY <1>1, <2>1, HeapFields
  <2> QED
    BY <1>1, <1>4, <2>2, HeapFields DEF IsHeap
<1>7. \A x \in DOMAIN h : ChunkEnd(g, x) = ChunkEnd(h, x)
  BY <1>5 DEF ChunkEnd
<1>8. ASSUME NEW x \in DOMAIN h PROVE ChunkLinked(g, x)
  <2>1. ChunkLinked(h, x)
    BY DEF Linked
  <2> QED
    BY <1>1, <1>5, <1>7, <2>1 DEF ChunkLinked
<1>9. Linked(g)
  BY <1>1, <1>7, <1>8 DEF Linked
<1> QED
  BY <1>1, <1>3, <1>5, <1>6, <1>9 DEF g

\* Releasing a chunk in use keeps the tiling and the coalescing, and takes
\* that chunk, and only it, out of the chunks in use.
LEMMA ReleasedSound ==
  ASSUME NEW h, IsHeap(h), Linked(h), \A x \in DOMAIN h : ~FreePair(h, x),
         NEW a \in DOMAIN h, h[a].allocated
  PROVE  LET g == Released(h, a)
         IN /\ IsHeap(g)
            /\ Linked(g)
            /\ \A x \in DOMAIN g : ~FreePair(g, x)
            /\ DOMAIN g \subseteq DOMAIN h
            /\ DOMAIN g # {}
            /\ HeapStart \in DOMAIN h => HeapStart \in DOMAIN g
            /\ {x \in DOMAIN g : g[x].allocated}
                 = {x \in DOMAIN h : h[x].allocated} \ {a}
            /\ \A x \in DOMAIN g : g[x].allocated => g[x].size = h[x].size
<1> DEFINE h1 == [h EXCEPT ![a].allocated = FALSE]
           h2 == MergeNext(h1, a)
           h3 == MergePrev(h2, a)
           Used(k) == {x \in DOMAIN k : k[x].allocated}
<1>1. /\ IsHeap(h1) /\ Linked(h1) /\ DOMAIN h1 = DOMAIN h
      /\ ~h1[a].allocated
      /\ \A x \in DOMAIN h : x # a => h1[x].allocated = h[x].allocated
      /\ \A x \in DOMAIN h : h1[x].next = h[x].next
      /\ \A x \in DOMAIN h : h1[x].prev = h[x].prev
      /\ \A x \in DOMAIN h : h1[x].size = h[x].size
  BY MarkSound
<1> HIDE DEF h1
<1>2. \A x \in DOMAIN h : x # a /\ h[x].next # a => ~FreePair(h1, x)
  <2>1. \A x \in DOMAIN h : h[x].next # NULL => h[x].next \in DOMAIN h
    BY NextFollows
  <2> QED
    BY <1>1, <2>1 DEF FreePair
<1>3. Used(h1) = Used(h) \ {a}
  BY <1>1
<1>4. /\ IsHeap(h2) /\ Linked(h2) /\ DOMAIN h2 \subseteq DOMAIN h /\ a \in DOMAIN h2
      /\ HeapStart \in DOMAIN h => HeapStart \in DOMAIN h2
      /\ ~h2[a].allocated
      /\ Used(h2) = Used(h1)
      /\ \A x \in DOMAIN h2 : h2[x].allocated => h2[x].size = h[x].size
      /\ \A x \in DOMAIN h2 : FreePair(h2, x) => h2[x].next = a
  <2>0. \A x \in DOMAIN h : FreePair(h1, x) => x = a \/ h1[x].next = a
    BY <1>1, <1>2
  <2>1. CASE h1[a].next # NULL /\ ~h1[h1[a].next].allocated
    <3> DEFINE b == h1[a].next
    <3>1. /\ IsHeap(h1) /\ Linked(h1) /\ a \in DOMAIN h1 /\ h1[a].next # NULL
          /\ ~h1[a].allocated /\ ~h1[h1[a].next].allocated
          /\ h1[a].next = b
          /\ h2 = Absorb(h1, a, h1[a].next)
      BY <1>1, <2>1 DEF MergeNext
    <3> HIDE DEF h2, b
    <3>2. /\ DOMAIN h2 = DOMAIN h1 \ {b}
          /\ a \in DOMAIN h2 /\ IsHeap(h2) /\ Linked(h2)
          /\ \A x \in DOMAIN h2 : h2[x].allocated = h1[x].allocated
          /\ \A x \in DOMAIN h2 : x # a => h2[x].size = h1[x].size
          /\ \A x \in DOMAIN h2 : x # a /\ FreePair(h2, x) => FreePair(h1, x)
          /\ FreePair(h2, a) => FreePair(h1, b)
          /\ HeapStart \in DOMAIN h1 => HeapStart \in DOMAIN h2
          /\ \A x \in DOMAIN h2 : x # a => h2[x].next = h1[x].next
      BY <3>1, AbsorbSound
    <3>3. b \in DOMAIN h1 /\ b # a /\ h1[b].next # a
      <4>1. b \in DOMAIN h1 /\ a < b /\ a \in Nat /\ b \in Nat
        BY <3>1, NextFollows, HeapFields
      <4> QED
        BY <1>1, <4>1, NextFollows, NullNoChunk
    <3>4. ~FreePair(h2, a)
      BY <1>1, <2>0, <3>2, <3>3
    <3>5. Used(h2) = Used(h1)
      BY <3>1, <3>2
    <3>6. \A x \in DOMAIN h2 : FreePair(h2, x) => h2[x].next = a
      BY <1>1, <2>0, <3>2, <3>4
    <3> QED
      BY <1>1, <3>2, <3>5, <3>6
  <2>2. CASE ~(h1[a].next # NULL /\ ~h1[h1[a].next].allocated)
    <3>1. h2 = h1
      BY <2>2 DEF MergeNext
    <3>2. ~FreePair(h1, a)
      BY <2>2 DEF FreePair
    <3> QED
      BY <1>1, <2>0, <3>1, <3>2
  <2> QED
    BY <2>1, <2>2
<1> HIDE DEF h2
<1>5. /\ IsHeap(h3) /\ Linked(h3) /\ DOMAIN h3 \subseteq DOMAIN h2 /\ DOMAIN h3 # {}
      /\ HeapStart \in DOMAIN h2 => HeapStart \in DOMAIN h3
      /\ Used(h3) = Used(h2)
      /\ \A x \in DOMAIN h3 : h3[x].allocated => h3[x].size = h2[x].size
      /\ \A x \in DOMAIN h3 : ~FreePair(h3, x)
  <2> DEFINE p == h2[a].prev
  <2>0. p # NULL => p \in DOMAIN h2 /\ h2[p].next = a
    BY <1>4 DEF Linked, ChunkLinked
  <2>1. \A x \in DOMAIN h2 : h2[x].next = a => x = p
    BY <1>4, NextFollows, NullNoChunk
  <2>2. CASE p # NULL /\ ~h2[p].allocated
    <3>1. a # NULL
      BY <1>4, NullNoChunk
    <3>2. /\ IsHeap(h2) /\ Linked(h2) /\ p \in DOMAIN h2 /\ h2[p].next # NULL
          /\ ~h2[p].allocated /\ ~h2[h2[p].next].allocated
          /\ h2[p].next = a
          /\ h3 = Absorb(h2, p, h2[p].next)
      BY <1>4, <2>0, <2>2, <3>1 DEF MergePrev
    <3> HIDE DEF h3, p
    <3>3. /\ DOMAIN h3 = DOMAIN h2 \ {a}
          /\ p \in DOMAIN h3 /\ IsHeap(h3) /\ Linked(h3)
          /\ \A x \in DOMAIN h3 : h3[x].allocated = h2[x].allocated
          /\ \A x \in DOMAIN h3 : x # p => h3[x].size = h2[x].size
          /\ \A x \in DOMAIN h3 : x # p /\ FreePair(h3, x) => FreePair(h2, x)
          /\ FreePair(h3, p) => FreePair(h2, a)
          /\ HeapStart \in DOMAIN h2 => HeapStart \in DOMAIN h3
      BY <3>2, AbsorbSound
    <3>4. ~FreePair(h2, a)
      BY <1>4, NextFollows, NullNoChunk DEF FreePair
    <3>5. \A x \in DOMAIN h3 : ~FreePair(h3, x)
      BY <1>4, <2>1, <3>3, <3>4
    <3>6. Used(h3) = Used(h2)
      BY <1>4, <3>3
    <3> QED
      BY <2>2, <3>3, <3>5, <3>6
  <2>3. CASE ~(p # NULL /\ ~h2[p].allocated)
    <3>1. h3 = h2
      BY <2>3 DEF MergePrev
    <3>2. \A x \in DOMAIN h2 : ~FreePair(h2, x)
      BY <1>4, <2>1, <2>3, NullNoChunk DEF FreePair
    <3> QED
      BY <1>4, <3>1, <3>2
  <2> QED
    BY <2>2, <2>3
<1> QED
  BY <1>3, <1>4, <1>5 DEF Released, h2, h1

\* Taking a free chunk that fits keeps the tiling and the coalescing and puts
\* that chunk, and only it, in use, at least as large as asked for.
LEMMA TakeSound ==
  ASSUME NEW h, IsHeap(h), Linked(h), \A x \in DOMAIN h : ~FreePair(h, x),
         NEW a \in DOMAIN h, NEW n \in Nat, Fits(h, a, n)
  PROVE  LET g == Take(h, a, n)
         IN /\ IsHeap(g)
            /\ Linked(g)
            /\ \A x \in DOMAIN g : ~FreePair(g, x)
            /\ DOMAIN h \subseteq DOMAIN g
            /\ {x \in DOMAIN g : g[x].allocated}
                 = {x \in DOMAIN h : h[x].allocated} \cup {a}
            /\ n <= g[a].size /\ g[a].size <= n + HeaderSize
            /\ \A x \in DOMAIN h : x # a => g[x].size = h[x].size
<1> DEFINE g == Take(h, a, n)
<1>0. h[a].size \in Nat /\ h[a].size > n /\ ~h[a].allocated
  BY HeapFields DEF Fits
<1>1. CASE h[a].size >= n + HeaderSize + 1
  <2>1. g = Split(h, a, n)
    BY <1>1 DEF Take
  <2> HIDE DEF g
  <2> DEFINE rest == a + HeaderSize + n
  <2>2. /\ DOMAIN g = DOMAIN h \cup {rest}
        /\ rest \notin DOMAIN h
        /\ IsHeap(g)
        /\ Linked(g)
        /\ g[a].allocated /\ g[a].size = n
        /\ ~g[rest].allocated
        /\ \A x \in DOMAIN h :
             x # a => g[x].allocated = h[x].allocated /\ g[x].size = h[x].size
        /\ \A x \in DOMAIN g : ~FreePair(g, x)
    BY <1>0, <1>1, <2>1, SplitSound
  <2> HIDE DEF rest
  <2>3. {x \in DOMAIN g : g[x].allocated} = {x \in DOMAIN h : h[x].allocated} \cup {a}
    BY <2>2
  <2>4. n <= g[a].size /\ g[a].size <= n + HeaderSize
    BY <2>2, HeapAssumption
  <2> QED
    BY <2>2, <2>3, <2>4 DEF g
<1>2. CASE ~(h[a].size >= n + HeaderSize + 1)
  <2>1. g = [h EXCEPT ![a].allocated = TRUE]
    BY <1>2 DEF Take
  <2> HIDE DEF g
  <2>2. /\ DOMAIN g = DOMAIN h /\ IsHeap(g) /\ Linked(g) /\ g[a].allocated
        /\ \A x \in DOMAIN h : x # a => g[x].allocated = h[x].allocated
        /\ \A x \in DOMAIN h : g[x].next = h[x].next /\ g[x].size = h[x].size
    BY <2>1, MarkSound
  <2>3. \A x \in DOMAIN g : ~FreePair(g, x)
    <3>1. \A x \in DOMAIN h : h[x].next # NULL => h[x].next \in DOMAIN h
      BY NextFollows
    <3> QED
      BY <2>2, <3>1 DEF FreePair
  <2>4. {x \in DOMAIN g : g[x].allocated} = {x \in DOMAIN h : h[x].allocated} \cup {a}
    BY <2>2
  <2>5. n <= g[a].size /\ g[a].size <= n + HeaderSize
    BY <1>0, <1>2, <2>2, HeapAssumption
  <2> QED
    BY <2>2, <2>3, <2>4, <2>5 DEF g
<1> QED
  BY <1>1, <1>2

-----------------------------------------------------------------------------
(* The inductive invariant. *)

\* The heap the constructor makes satisfies the inductive invariant.
LEMMA InitIInv == Init => IInv
<1> SUFFICES ASSUME Init PROVE IInv
  OBVIOUS
<1>1. CASE HeapSize < HeaderSize
  <2>1. first = NULL /\ DOMAIN chunk = {} /\ DOMAIN owned = {}
    BY <1>1 DEF Init
  <2>2. TypeOK
    BY <2>1 DEF Init, TypeOK, IsHeap
  <2> QED
    BY <2>1, <2>2 DEF Init, IInv, WellLinked, Linked, Coalesced, OwnedIsAllocated, Skipped
<1>2. CASE ~(HeapSize < HeaderSize)
  <2>1. /\ first = HeapStart /\ DOMAIN chunk = {HeapStart} /\ DOMAIN owned = {}
        /\ chunk = [x \in {HeapStart} |-> [next |-> NULL, prev |-> NULL, allocated |-> FALSE,
                                           size |-> HeapSize - HeaderSize]]
    BY <1>2, HeapAssumption DEF Init, NULL
  <2>2. HeapSize - HeaderSize \in Nat /\ HeapStart \in Nat /\ HeapStart # NULL
    BY <1>2, HeapAssumption DEF NULL
  <2>3. chunk[HeapStart] = [next |-> NULL, prev |-> NULL, allocated |-> FALSE,
                            size |-> HeapSize - HeaderSize]
    BY <2>1
  <2>4. TypeOK
    BY <2>1, <2>2 DEF Init, TypeOK, IsHeap, Header, NULL
  <2>5. ChunkEnd(chunk, HeapStart) = HeapEnd
    BY <2>2, <2>3, HeapAssumption DEF ChunkEnd, HeapEnd
  <2>6. HeapEnd \in Nat
    BY HeapAssumption DEF HeapEnd
  <2>7. Linked(chunk)
    BY <2>1, <2>2, <2>3, <2>5, <2>6 DEF Linked, ChunkLinked
  <2> QED
    BY <2>1, <2>2, <2>3, <2>4, <2>7
    DEF Init, IInv, WellLinked, Coalesced, FreePair, OwnedIsAllocated, Skipped
<1> QED
  BY <1>1, <1>2

\* The walk of malloc keeps what it walked past behind the cursor.
LEMMA WalkOnIInv == IInv /\ WalkOn => IInv'
<1> SUFFICES ASSUME IInv, WalkOn PROVE IInv'
  OBVIOUS
<1>1. /\ TypeOK /\ WellLinked /\ Coalesced /\ OwnedIsAllocated /\ Skipped
      /\ IsHeap(chunk) /\ Linked(chunk)
      /\ cursor \in DOMAIN chunk
      /\ UNCHANGED <<first, chunk, owned, pc, want>>
      /\ cursor' = chunk[cursor].next
  BY DEF IInv, WalkOn, TypeOK, WellLinked
<1>2. cursor' # NULL => cursor' \in DOMAIN chunk /\ cursor' = ChunkEnd(chunk, cursor)
  BY <1>1, NextFollows
<1>3. cursor' = NULL => ChunkEnd(chunk, cursor) = HeapEnd
  BY <1>1 DEF Linked, ChunkLinked
<1>4. ASSUME NEW a \in DOMAIN chunk, cursor' = NULL \/ a < cursor'
      PROVE  a = cursor \/ a < cursor
  <2>1. a \in Nat /\ cursor \in Nat /\ ChunkEnd(chunk, a) \in Nat /\ HeapEnd \in Nat
    BY <1>1, HeapFields, HeapAssumption DEF HeapEnd
  <2>2. a < HeapEnd
    <3>1. ChunkEnd(chunk, a) <= HeapEnd /\ chunk[a].size \in Nat
      BY <1>1, HeapFields DEF Linked, ChunkLinked
    <3> QED
      BY <2>1, <3>1, HeapAssumption DEF ChunkEnd
  <2>3. cursor < a => ChunkEnd(chunk, cursor) <= a /\ ChunkEnd(chunk, cursor) \in Nat
    BY <1>1, HeapFields DEF Linked
  <2> QED
    BY <1>2, <1>3, <1>4, <2>1, <2>2, <2>3
<1>5. TypeOK'
  BY <1>1, <1>2 DEF TypeOK, IsHeap, WalkOn
<1>6. Skipped'
  BY <1>1, <1>4 DEF WalkOn, Skipped, Fits
<1>7. WellLinked' /\ Coalesced' /\ OwnedIsAllocated'
  BY <1>1 DEF WellLinked, Linked, ChunkLinked, ChunkEnd, Coalesced, FreePair, OwnedIsAllocated
<1> QED
  BY <1>5, <1>6, <1>7 DEF IInv

\* A block taken is one more chunk in use, and every other block keeps its own.
LEMMA WalkTakeIInv == IInv /\ WalkTake => IInv'
<1> SUFFICES ASSUME IInv, WalkTake PROVE IInv'
  OBVIOUS
<1> DEFINE p == cursor + HeaderSize
<1>1. /\ TypeOK /\ WellLinked /\ Coalesced /\ OwnedIsAllocated
      /\ IsHeap(chunk) /\ Linked(chunk)
      /\ cursor \in DOMAIN chunk /\ cursor \in Nat
      /\ Fits(chunk, cursor, want)
      /\ chunk' = Take(chunk, cursor, want)
      /\ owned' = [q \in DOMAIN owned \cup {p} |-> IF q = p THEN want ELSE owned[q]]
      /\ first' = first /\ pc' = "idle" /\ cursor' = NULL /\ want' = 0
  BY DEF IInv, WalkTake, TypeOK, WellLinked, Return
<1>2. want \in Requests /\ want \in Nat
  BY HeapAssumption DEF IInv, WalkTake, TypeOK
<1>3. \A x \in DOMAIN chunk : ~FreePair(chunk, x)
  BY <1>1 DEF Coalesced
<1>4. /\ IsHeap(chunk') /\ Linked(chunk')
      /\ \A x \in DOMAIN chunk' : ~FreePair(chunk', x)
      /\ DOMAIN chunk \subseteq DOMAIN chunk'
      /\ {x \in DOMAIN chunk' : chunk'[x].allocated}
           = {x \in DOMAIN chunk : chunk[x].allocated} \cup {cursor}
      /\ want <= chunk'[cursor].size /\ chunk'[cursor].size <= want + HeaderSize
      /\ \A x \in DOMAIN chunk : x # cursor => chunk'[x].size = chunk[x].size
  BY <1>1, <1>2, <1>3, TakeSound
<1>5. \A q \in DOMAIN owned : q \in Nat /\ q - HeaderSize # cursor /\ q # p
                              /\ q - HeaderSize \in DOMAIN chunk
  BY <1>1, HeapAssumption DEF OwnedIsAllocated, Fits, TypeOK
<1>6. TypeOK'
  <2>1. owned' \in [DOMAIN owned' -> Requests] /\ DOMAIN owned' \subseteq Nat
    BY <1>1, <1>2, HeapAssumption DEF TypeOK
  <2> QED
    BY <1>1, <1>4, <2>1 DEF TypeOK, IsHeap
<1>7. WellLinked'
  BY <1>1, <1>4 DEF WellLinked, Linked, ChunkLinked, ChunkEnd
<1>8. Coalesced'
  BY <1>4 DEF Coalesced, FreePair
<1>9. OwnedIsAllocated'
  <2>1. p - HeaderSize = cursor
    BY <1>1, HeapAssumption
  <2>2. DOMAIN owned' = DOMAIN owned \cup {p}
    BY <1>1
  <2>3. {q - HeaderSize : q \in DOMAIN owned'}
          = {q - HeaderSize : q \in DOMAIN owned} \cup {cursor}
    BY <2>1, <2>2
  <2>4. {x \in DOMAIN chunk' : chunk'[x].allocated} = {q - HeaderSize : q \in DOMAIN owned'}
    BY <1>1, <1>4, <2>3 DEF OwnedIsAllocated
  <2>5. \A q \in DOMAIN owned' :
          /\ owned'[q] <= chunk'[q - HeaderSize].size
          /\ chunk'[q - HeaderSize].size <= owned'[q] + HeaderSize
    <3>1. owned'[p] = want /\ \A q \in DOMAIN owned : owned'[q] = owned[q]
      BY <1>1, <1>5
    <3> QED
      BY <1>1, <1>4, <1>5, <2>1, <2>2, <3>1 DEF OwnedIsAllocated
  <2> QED
    BY <2>4, <2>5 DEF OwnedIsAllocated
<1>10. Skipped'
  BY <1>1 DEF Skipped
<1> QED
  BY <1>6, <1>7, <1>8, <1>9, <1>10 DEF IInv

\* A block freed is one chunk in use less, and every other block keeps its own.
LEMMA FreeIInv == ASSUME NEW p \in DOMAIN owned PROVE IInv /\ Free(p) => IInv'
<1> SUFFICES ASSUME IInv, Free(p) PROVE IInv'
  OBVIOUS
<1> DEFINE a == p - HeaderSize
<1>1. /\ TypeOK /\ WellLinked /\ Coalesced /\ OwnedIsAllocated
      /\ IsHeap(chunk) /\ Linked(chunk)
      /\ chunk' = Released(chunk, a)
      /\ owned' = [q \in DOMAIN owned \ {p} |-> owned[q]]
      /\ UNCHANGED <<first, pc, cursor, want>>
      /\ pc = "idle" /\ cursor \in DOMAIN chunk \cup {NULL}
  BY DEF IInv, Free, TypeOK, WellLinked
<1>2. a \in DOMAIN chunk /\ chunk[a].allocated
  BY <1>1 DEF OwnedIsAllocated
<1>3. \A x \in DOMAIN chunk : ~FreePair(chunk, x)
  BY <1>1 DEF Coalesced
<1>4. /\ IsHeap(chunk') /\ Linked(chunk')
      /\ \A x \in DOMAIN chunk' : ~FreePair(chunk', x)
      /\ DOMAIN chunk' \subseteq DOMAIN chunk
      /\ DOMAIN chunk' # {}
      /\ HeapStart \in DOMAIN chunk => HeapStart \in DOMAIN chunk'
      /\ {x \in DOMAIN chunk' : chunk'[x].allocated}
           = {x \in DOMAIN chunk : chunk[x].allocated} \ {a}
      /\ \A x \in DOMAIN chunk' : chunk'[x].allocated => chunk'[x].size = chunk[x].size
  BY <1>1, <1>2, <1>3, ReleasedSound
<1>5. TypeOK'
  <2>1. owned' \in [DOMAIN owned' -> Requests] /\ DOMAIN owned' \subseteq Nat
    BY <1>1 DEF TypeOK
  <2> QED
    BY <1>1, <1>4, <2>1 DEF TypeOK, IsHeap
<1>6. WellLinked'
  BY <1>1, <1>2, <1>4 DEF WellLinked, Linked, ChunkLinked, ChunkEnd
<1>7. Coalesced'
  BY <1>4 DEF Coalesced, FreePair
<1>8. OwnedIsAllocated'
  <2>1. DOMAIN owned' = DOMAIN owned \ {p} /\ \A q \in DOMAIN owned' : owned'[q] = owned[q]
    BY <1>1
  <2>2. \A q \in DOMAIN owned : q \in Nat
    BY <1>1 DEF TypeOK
  <2>3. {q - HeaderSize : q \in DOMAIN owned'} = {q - HeaderSize : q \in DOMAIN owned} \ {a}
    BY <2>1, <2>2, HeapAssumption
  <2>4. {x \in DOMAIN chunk' : chunk'[x].allocated} = {q - HeaderSize : q \in DOMAIN owned'}
    BY <1>1, <1>4, <2>3 DEF OwnedIsAllocated
  <2>5. \A q \in DOMAIN owned' : chunk'[q - HeaderSize].size = chunk[q - HeaderSize].size
    BY <1>4, <2>4
  <2> QED
    BY <1>1, <2>1, <2>4, <2>5 DEF OwnedIsAllocated
<1>9. Skipped'
  BY <1>1 DEF Skipped
<1> QED
  BY <1>5, <1>6, <1>7, <1>8, <1>9 DEF IInv

\* Every step keeps the inductive invariant.
LEMMA NextIInv == IInv /\ [Next]_vars => IInv'
<1> SUFFICES ASSUME IInv, [Next]_vars PROVE IInv'
  OBVIOUS
<1>1. CASE \E n \in Requests : MallocCall(n)
  <2> PICK n \in Requests : MallocCall(n)
    BY <1>1
  <2>1. TypeOK'
    BY HeapAssumption DEF IInv, TypeOK, WellLinked, MallocCall, IsHeap
  <2>2. Skipped'
    <3>1. cursor' = first /\ chunk' = chunk
      BY DEF MallocCall
    <3>2. first = NULL => DOMAIN chunk = {}
      BY DEF IInv, WellLinked
    <3>3. first # NULL => first = HeapStart
      BY DEF IInv, TypeOK
    <3>4. \A a \in DOMAIN chunk : HeapStart <= a /\ a \in Nat
      BY HeapFields DEF IInv, TypeOK, WellLinked, Linked, ChunkLinked
    <3> QED
      BY <3>1, <3>2, <3>3, <3>4, HeapAssumption DEF Skipped
  <2>3. WellLinked' /\ Coalesced' /\ OwnedIsAllocated'
    BY DEF IInv, MallocCall, WellLinked, Linked, ChunkLinked, ChunkEnd, Coalesced, FreePair,
           OwnedIsAllocated
  <2> QED
    BY <2>1, <2>2, <2>3 DEF IInv
<1>2. CASE WalkOn
  BY <1>2, WalkOnIInv
<1>3. CASE WalkTake
  BY <1>3, WalkTakeIInv
<1>4. CASE WalkFail
  <2>1. TypeOK' /\ Skipped'
    BY <1>4 DEF IInv, WalkFail, Return, TypeOK, IsHeap, Skipped
  <2>2. WellLinked' /\ Coalesced' /\ OwnedIsAllocated'
    BY <1>4 DEF IInv, WalkFail, WellLinked, Linked, ChunkLinked, ChunkEnd, Coalesced, FreePair,
                OwnedIsAllocated
  <2> QED
    BY <2>1, <2>2 DEF IInv
<1>5. CASE \E p \in DOMAIN owned : Free(p)
  BY <1>5, FreeIInv
<1>6. CASE UNCHANGED vars
  <2>1. TypeOK' /\ Skipped'
    BY <1>6 DEF IInv, vars, TypeOK, IsHeap, Skipped, Fits
  <2>2. WellLinked' /\ Coalesced' /\ OwnedIsAllocated'
    BY <1>6 DEF IInv, vars, WellLinked, Linked, ChunkLinked, ChunkEnd, Coalesced, FreePair,
                OwnedIsAllocated
  <2> QED
    BY <2>1, <2>2 DEF IInv
<1> QED
  BY <1>1, <1>2, <1>3, <1>4, <1>5, <1>6 DEF Next

\* The inductive invariant holds in every reachable state: the heap is typed,
\* tiled by its chunks, coalesced, and lent out exactly to its callers.
THEOREM InvariantHolds == Spec => []IInv
  BY InitIInv, NextIInv, PTL DEF Spec

\* The heap keeps its types (memory.h).
THEOREM TypeCorrect == Spec => []TypeOK
<1>1. IInv => TypeOK
  BY DEF IInv
<1> QED
  BY <1>1, InvariantHolds, PTL

\* The chunk list always tiles the heap: no malloc or free breaks a link, loses
\* a byte or makes two chunks overlap.
THEOREM AlwaysWellLinked == Spec => []WellLinked
<1>1. IInv => WellLinked
  BY DEF IInv
<1> QED
  BY <1>1, InvariantHolds, PTL

\* free never leaves two free neighbours.
THEOREM AlwaysCoalesced == Spec => []Coalesced
<1>1. IInv => Coalesced
  BY DEF IInv
<1> QED
  BY <1>1, InvariantHolds, PTL

\* The chunks in use are exactly the blocks callers hold, large enough and
\* wasting at most one header each.
THEOREM AlwaysOwned == Spec => []OwnedIsAllocated
<1>1. IInv => OwnedIsAllocated
  BY DEF IInv
<1> QED
  BY <1>1, InvariantHolds, PTL

-----------------------------------------------------------------------------
(* What follows from it. *)

\* The bytes of a block lie in its chunk, between its header and the next one.
LEMMA BlockInChunk ==
  ASSUME IInv, NEW p \in DOMAIN owned
  PROVE  /\ p \in Nat /\ owned[p] \in Nat
         /\ p - HeaderSize \in DOMAIN chunk
         /\ HeapStart + HeaderSize <= p
         /\ p + owned[p] <= ChunkEnd(chunk, p - HeaderSize)
         /\ ChunkEnd(chunk, p - HeaderSize) \in Nat
         /\ ChunkEnd(chunk, p - HeaderSize) <= HeapEnd
<1>1. p \in Nat /\ owned[p] \in Nat /\ p - HeaderSize \in DOMAIN chunk
  BY HeapAssumption DEF IInv, TypeOK, OwnedIsAllocated
<1>2. /\ owned[p] <= chunk[p - HeaderSize].size
      /\ chunk[p - HeaderSize].size \in Nat
      /\ ChunkEnd(chunk, p - HeaderSize) \in Nat
  BY <1>1, HeapFields DEF IInv, TypeOK, OwnedIsAllocated
<1>3. HeapStart <= p - HeaderSize /\ ChunkEnd(chunk, p - HeaderSize) <= HeapEnd
  BY <1>1 DEF IInv, WellLinked, Linked, ChunkLinked
<1>4. ChunkEnd(chunk, p - HeaderSize) = p + chunk[p - HeaderSize].size
  BY <1>1, <1>2, HeapAssumption DEF ChunkEnd
<1> QED
  BY <1>1, <1>2, <1>3, <1>4, HeapAssumption

\* A caller that fills its whole block never writes over a chunk header.
THEOREM AlwaysIntact == Spec => []HeadersIntact
<1>1. IInv => HeadersIntact
  <2> SUFFICES ASSUME IInv, NEW p \in DOMAIN owned, NEW a \in DOMAIN chunk
               PROVE  p + owned[p] <= a \/ a + HeaderSize <= p
    BY DEF HeadersIntact
  <2> DEFINE c == p - HeaderSize
  <2>1. /\ p \in Nat /\ owned[p] \in Nat /\ c \in DOMAIN chunk
        /\ p + owned[p] <= ChunkEnd(chunk, c) /\ ChunkEnd(chunk, c) \in Nat
    BY BlockInChunk
  <2>2. a \in Nat /\ ChunkEnd(chunk, a) = a + HeaderSize + chunk[a].size
        /\ chunk[a].size \in Nat
    BY HeapFields DEF IInv, TypeOK, ChunkEnd
  <2>3. /\ c < a => ChunkEnd(chunk, c) <= a
        /\ a < c => ChunkEnd(chunk, a) <= c
    BY <2>1 DEF IInv, WellLinked, Linked
  <2> QED
    BY <2>1, <2>2, <2>3, HeapAssumption
<1> QED
  BY <1>1, InvariantHolds, PTL

\* When no block is lent out the heap is the one chunk it started as.
THEOREM AlwaysWhole == Spec => []WholeWhenEmpty
<1>1. IInv => WholeWhenEmpty
  <2> SUFFICES ASSUME IInv, DOMAIN owned = {}, first # NULL
               PROVE  /\ DOMAIN chunk = {HeapStart}
                      /\ chunk[HeapStart].size = HeapSize - HeaderSize
    BY DEF WholeWhenEmpty
  <2>1. IsHeap(chunk) /\ Linked(chunk) /\ HeapStart \in DOMAIN chunk
    BY DEF IInv, TypeOK, WellLinked
  <2>2. \A a \in DOMAIN chunk : ~chunk[a].allocated
    BY DEF IInv, OwnedIsAllocated
  <2>3. chunk[HeapStart].next = NULL
    BY <2>1, <2>2, NextFollows DEF IInv, Coalesced, FreePair
  <2>4. ChunkEnd(chunk, HeapStart) = HeapEnd
    BY <2>1, <2>3 DEF Linked, ChunkLinked
  <2>5. chunk[HeapStart].size = HeapSize - HeaderSize
    BY <2>1, <2>4, HeapFields, HeapAssumption DEF ChunkEnd, HeapEnd
  <2>6. ASSUME NEW a \in DOMAIN chunk PROVE a = HeapStart
    <3>1. /\ HeapStart <= a /\ ChunkEnd(chunk, a) <= HeapEnd
          /\ HeapStart < a => HeapEnd <= a
      BY <2>1, <2>4 DEF Linked, ChunkLinked
    <3>2. a \in Nat /\ ChunkEnd(chunk, a) = a + HeaderSize + chunk[a].size
          /\ chunk[a].size \in Nat
      BY <2>1, HeapFields DEF ChunkEnd
    <3> QED
      BY <3>1, <3>2, HeapAssumption DEF HeapEnd
  <2> QED
    BY <2>1, <2>5, <2>6
<1> QED
  BY <1>1, InvariantHolds, PTL

\* malloc carves a block from the lowest chunk that can serve the request.
THEOREM AlwaysFirstFit == Spec => FirstFit
<1> DEFINE A == \A p \in DOMAIN owned' \ DOMAIN owned :
                  /\ Fits(chunk, p - HeaderSize, want)
                  /\ \A a \in DOMAIN chunk : a < p - HeaderSize => ~Fits(chunk, a, want)
<1>1. IInv /\ [Next]_vars => [A]_vars
  <2> SUFFICES ASSUME IInv, Next PROVE A
    BY DEF A
  <2>1. CASE WalkTake
    <3> SUFFICES ASSUME NEW p \in DOMAIN owned' \ DOMAIN owned
                 PROVE  /\ Fits(chunk, p - HeaderSize, want)
                        /\ \A a \in DOMAIN chunk :
                             a < p - HeaderSize => ~Fits(chunk, a, want)
      OBVIOUS
    <3>1. p = cursor + HeaderSize /\ cursor \in Nat
      BY <2>1, HeapAssumption DEF WalkTake, IInv, TypeOK, IsHeap, NULL
    <3>2. p - HeaderSize = cursor
      BY <3>1, HeapAssumption
    <3>3. Fits(chunk, cursor, want)
      BY <2>1 DEF WalkTake
    <3>4. \A a \in DOMAIN chunk : a < cursor => ~Fits(chunk, a, want)
      BY <2>1 DEF WalkTake, IInv, Skipped
    <3> QED
      BY <3>2, <3>3, <3>4
  <2>2. CASE ~WalkTake
    <3>1. DOMAIN owned' \subseteq DOMAIN owned
      BY <2>2 DEF Next, MallocCall, WalkOn, WalkFail, Free
    <3> QED
      BY <3>1
  <2> QED
    BY <2>1, <2>2
<1> QED
  BY <1>1, InvariantHolds, PTL DEF Spec, FirstFit

\* The heap implements the abstract one: a block handed out lies in the heap
\* and overlaps no live block, and only its owner gives it back.
THEOREM ImplementsHeap == Spec => HeapSpec
<1>1. Init => Heap!Init
  BY DEF Init, Heap!Init
<1>2. IInv /\ [Next]_vars => [Heap!Next]_owned
  <2> SUFFICES ASSUME IInv, Next PROVE Heap!Next \/ owned' = owned
    BY DEF vars
  <2>1. CASE WalkTake
    <3> DEFINE p == cursor + HeaderSize
    <3>1. /\ cursor \in DOMAIN chunk /\ ~chunk[cursor].allocated
          /\ chunk[cursor].size > want
          /\ want \in Requests /\ want \in Nat
      BY <2>1, HeapAssumption DEF WalkTake, Fits, IInv, TypeOK
    <3>2. /\ cursor \in Nat /\ chunk[cursor].size \in Nat
          /\ ChunkEnd(chunk, cursor) = p + chunk[cursor].size
          /\ HeapStart <= cursor /\ ChunkEnd(chunk, cursor) <= HeapEnd
      BY <3>1, HeapFields DEF IInv, TypeOK, WellLinked, Linked, ChunkLinked, ChunkEnd
    <3>3. /\ p \in HeapStart .. (HeapStart + HeapSize)
          /\ p + want <= HeapStart + HeapSize
      BY <3>1, <3>2, HeapAssumption DEF HeapEnd
    <3>4. p \notin DOMAIN owned
      <4>1. p - HeaderSize = cursor
        BY <3>2, HeapAssumption
      <4> QED
        BY <3>1, <4>1 DEF IInv, OwnedIsAllocated
    <3>5. ASSUME NEW q \in DOMAIN owned PROVE Heap!Apart(p, want, q, owned[q])
      <4> DEFINE c == q - HeaderSize
      <4>1. /\ q \in Nat /\ owned[q] \in Nat /\ c \in DOMAIN chunk
            /\ q + owned[q] <= ChunkEnd(chunk, c) /\ ChunkEnd(chunk, c) \in Nat
        BY BlockInChunk
      <4>2. c # cursor
        BY <3>1 DEF IInv, OwnedIsAllocated
      <4>3. /\ c < cursor => ChunkEnd(chunk, c) <= cursor
            /\ cursor < c => ChunkEnd(chunk, cursor) <= c
        BY <3>1, <4>1 DEF IInv, WellLinked, Linked
      <4> QED
        BY <3>1, <3>2, <4>1, <4>2, <4>3, HeapAssumption DEF Heap!Apart
    <3>6. Heap!Allocate(p, want)
      <4>1. owned' = [q \in DOMAIN owned \cup {p} |-> IF q = p THEN want ELSE owned[q]]
        BY <2>1 DEF WalkTake
      <4>2. HeapStart <= p
        BY <3>2, HeapAssumption
      <4> QED
        BY <3>3, <3>4, <3>5, <4>1, <4>2 DEF Heap!Allocate
    <3> QED
      BY <3>1, <3>3, <3>6 DEF Heap!Next
  <2>2. CASE \E p \in DOMAIN owned : Free(p)
    BY <2>2 DEF Free, Heap!Next, Heap!Release
  <2>3. CASE ~WalkTake /\ ~ \E p \in DOMAIN owned : Free(p)
    BY <2>3 DEF Next, MallocCall, WalkOn, WalkFail
  <2> QED
    BY <2>1, <2>2, <2>3
<1> QED
  BY <1>1, <1>2, InvariantHolds, PTL DEF Spec, HeapSpec, Heap!Spec
=============================================================================
