---------------------------- MODULE ConsoleProofs ----------------------------
(***************************************************************************)
(* What the screen, the line editor and the cursor keep when kernelMain is *)
(* interrupted anywhere, for every size of the screen and the buffer and   *)
(* for all texts.                                                          *)
(***************************************************************************)
EXTENDS Console, SequenceTheorems, WellFoundedInduction, TLAPS

-----------------------------------------------------------------------------
(* Induction, and what a fold computes. *)

(***************************************************************************)
(* A set that has 0, and with each number the next one, has all up to n.   *)
(***************************************************************************)
LEMMA UpTo ==
  ASSUME NEW n \in Nat, NEW A, 0 \in A,
         \A k \in 0 .. (n - 1) : k \in A => k + 1 \in A
  PROVE  0 .. n \subseteq A
<1> DEFINE B == {k \in 0 .. n : k \notin A}
<1>1. SUFFICES ASSUME B # {} PROVE FALSE
  OBVIOUS
<1>2. B \in SUBSET Nat
  OBVIOUS
<1>3. PICK k \in B : \A j \in B : ~(<<j, k>> \in OpToRel(<, Nat))
  BY <1>1, <1>2, WFMin, NatLessThanWellFounded, Zenon
<1>4. \A j \in B : ~(j < k)
  BY <1>2, <1>3 DEF OpToRel
<1>5. k # 0 /\ k - 1 \in 0 .. (n - 1)
  OBVIOUS
<1>6. k - 1 \notin B
  BY <1>4, <1>5
<1>7. QED
  BY <1>5, <1>6

(***************************************************************************)
(* The last element of the first n numbers, and the others.                *)
(***************************************************************************)
LEMMA MaxLast ==
  ASSUME NEW n \in Nat, NEW s \in SUBSET (1 .. n), n \in s
  PROVE  Max(s) = n /\ s \ {n} \in SUBSET (1 .. (n - 1))
<1>1. \A x \in s : (\A y \in s : x >= y) => x = n
  OBVIOUS
<1>2. n \in s /\ \A y \in s : n >= y
  OBVIOUS
<1>3. Max(s) = n
  BY <1>1, <1>2 DEF Max
<1>4. QED
  BY <1>3

Folds(T, g, base, text) ==
  \E f \in [SUBSET (1 .. Len(text)) -> T] :
    \A s \in SUBSET (1 .. Len(text)) :
      /\ s # {} => Max(s) \in s
      /\ f[s] = IF s = {} THEN base ELSE g[<<f[s \ {Max(s)}], text[Max(s)]>>]

(***************************************************************************)
(* A fold with the function g over a text is a function of the sets of     *)
(* positions, as FoldLeft goes through them.                               *)
(***************************************************************************)
LEMMA FoldExists ==
  ASSUME NEW T, NEW E, NEW g \in [T \X E -> T], NEW base \in T, NEW text \in Seq(E)
  PROVE  Folds(T, g, base, text)
<1> DEFINE P(f, n) == \A s \in SUBSET (1 .. n) :
             /\ s # {} => Max(s) \in s
             /\ f[s] = IF s = {} THEN base ELSE g[<<f[s \ {Max(s)}], text[Max(s)]>>]
           A == {n \in 0 .. Len(text) : \E f \in [SUBSET (1 .. n) -> T] : P(f, n)}
<1>1. 0 \in A
  <2> DEFINE f0 == [s \in SUBSET (1 .. 0) |-> base]
  <2>1. f0 \in [SUBSET (1 .. 0) -> T]
    OBVIOUS
  <2>2. \A s \in SUBSET (1 .. 0) : s = {} /\ f0[s] = base
    OBVIOUS
  <2>3. P(f0, 0)
    <3> HIDE DEF f0
    <3>1. QED
      BY <2>2
  <2>4. QED
    <3> HIDE DEF P, f0
    <3>1. 0 \in 0 .. Len(text)
      OBVIOUS
    <3>2. QED
      BY <2>1, <2>3, <3>1
<1>2. ASSUME NEW n \in 0 .. (Len(text) - 1), n \in A
      PROVE  n + 1 \in A
  <2>1. PICK f \in [SUBSET (1 .. n) -> T] : P(f, n)
    BY <1>2
  <2> DEFINE h == [s \in SUBSET (1 .. (n + 1)) |->
                     IF n + 1 \in s THEN g[<<f[s \ {n + 1}], text[n + 1]>>] ELSE f[s]]
  <2>2. ASSUME NEW s \in SUBSET (1 .. (n + 1)), n + 1 \in s
        PROVE  /\ Max(s) = n + 1 /\ s \ {n + 1} \in SUBSET (1 .. n)
               /\ h[s] \in T
               /\ h[s] = g[<<h[s \ {Max(s)}], text[Max(s)]>>]
    <3>1. Max(s) = n + 1 /\ s \ {n + 1} \in SUBSET (1 .. n)
      BY <2>2, MaxLast
    <3>2. text[n + 1] \in E /\ f[s \ {n + 1}] \in T
      BY <3>1
    <3>3. h[s] = g[<<f[s \ {n + 1}], text[n + 1]>>]
      BY <2>2
    <3>4. h[s \ {n + 1}] = f[s \ {n + 1}]
      BY <3>1
    <3>5. QED
      BY <3>1, <3>2, <3>3, <3>4
  <2>3. ASSUME NEW s \in SUBSET (1 .. (n + 1)), n + 1 \notin s
        PROVE  /\ s \in SUBSET (1 .. n)
               /\ h[s] \in T
               /\ s # {} => Max(s) \in s
               /\ h[s] = IF s = {} THEN base ELSE g[<<h[s \ {Max(s)}], text[Max(s)]>>]
    <3>1. s \in SUBSET (1 .. n) /\ h[s] = f[s]
      BY <2>3
    <3>2. \A u \in SUBSET (1 .. n) : n + 1 \notin u /\ h[u] = f[u]
      OBVIOUS
    <3>3. s \ {Max(s)} \in SUBSET (1 .. n)
      BY <3>1
    <3>4. h[s \ {Max(s)}] = f[s \ {Max(s)}]
      BY <3>2, <3>3
    <3> HIDE DEF h
    <3>5. QED
      BY <3>1, <3>4, <2>1
  <2>4. h \in [SUBSET (1 .. (n + 1)) -> T]
    BY <2>2, <2>3
  <2>5. P(h, n + 1)
    <3> HIDE DEF h
    <3>1. QED
      BY <2>2, <2>3
  <2>6. QED
    <3> HIDE DEF P, h
    <3>1. n + 1 \in 0 .. Len(text)
      OBVIOUS
    <3>2. QED
      BY <2>4, <2>5, <3>1
<1>3. Len(text) \in A
  <2> HIDE DEF A
  <2>1. Len(text) \in Nat
    OBVIOUS
  <2>2. 0 .. Len(text) \subseteq A
    BY <1>1, <1>2, <2>1, UpTo
  <2>3. QED
    BY <2>1, <2>2
<1>4. QED
  BY <1>3 DEF Folds

\* The values on the way, when f says them of sets of positions.
Way(text, f) == [k \in 0 .. Len(text) |-> f[1 .. k]]

OnTheWay(T, g, base, text, h) ==
  /\ h \in [0 .. Len(text) -> T]
  /\ h[0] = base
  /\ \A k \in 1 .. Len(text) : h[k] = g[<<h[k - 1], text[k]>>]

Stepwise(T, g, base, text, f) ==
  /\ f[{}] = base
  /\ \A s \in SUBSET (1 .. Len(text)) :
       s # {} /\ f[s \ {Max(s)}] \in T => f[s] = g[<<f[s \ {Max(s)}], text[Max(s)]>>]

(***************************************************************************)
(* From the function of sets to the way: the first k positions.            *)
(***************************************************************************)
LEMMA FoldWay ==
  ASSUME NEW T, NEW E, NEW g \in [T \X E -> T], NEW base \in T, NEW text \in Seq(E), NEW f,
         Stepwise(T, g, base, text, f)
  PROVE  OnTheWay(T, g, base, text, Way(text, f))
<1> DEFINE D == 1 .. Len(text)
           h == Way(text, f)
<1>1. DOMAIN text = D /\ Len(text) \in Nat
  OBVIOUS
<1>2. h[0] = base
  <2>1. 1 .. 0 = {}
    OBVIOUS
  <2>2. QED
    BY <1>1, <2>1 DEF Stepwise, Way
<1>3. ASSUME NEW k \in D, h[k - 1] \in T
      PROVE  h[k] = g[<<h[k - 1], text[k]>>]
  <2>1. k \in Nat /\ k \in 1 .. k /\ 1 .. k \in SUBSET D /\ 1 .. k # {}
    <3>1. Len(text) \in Nat /\ k \in Nat /\ 1 <= k /\ k <= Len(text)
      BY <1>1
    <3>2. k \in 1 .. k
      BY <3>1
    <3>3. \A i \in 1 .. k : i \in D
      BY <3>1
    <3>4. QED
      BY <3>1, <3>2, <3>3
  <2>2. Max(1 .. k) = k
    BY <2>1, MaxLast
  <2>3. (1 .. k) \ {k} = 1 .. (k - 1)
    BY <2>1
  <2>4. h[k] = f[1 .. k] /\ h[k - 1] = f[1 .. (k - 1)]
    BY <1>1 DEF Way
  <2>5. QED
    BY <1>3, <2>1, <2>2, <2>3, <2>4 DEF Stepwise
<1>4. h \in [0 .. Len(text) -> T]
  <2> DEFINE A == {k \in 0 .. Len(text) : h[k] \in T}
  <2>1. 0 \in A
    BY <1>1, <1>2
  <2>2. ASSUME NEW k \in 0 .. (Len(text) - 1), k \in A
        PROVE  k + 1 \in A
    <3> HIDE DEF h
    <3>1. k + 1 \in D /\ (k + 1) - 1 = k /\ text[k + 1] \in E
      BY <1>1
    <3>2. h[k + 1] = g[<<h[k], text[k + 1]>>]
      BY <1>3, <2>2, <3>1
    <3>3. QED
      BY <2>2, <3>1, <3>2
  <2>3. 0 .. Len(text) \subseteq A
    <3> HIDE DEF A
    <3>1. QED
      BY <1>1, <2>1, <2>2, UpTo
  <2>4. QED
    BY <2>3 DEF Way
<1>5. ASSUME NEW k \in D
      PROVE  h[k] = g[<<h[k - 1], text[k]>>]
  <2>1. k - 1 \in 0 .. Len(text)
    BY <1>1
  <2> HIDE DEF h
  <2>2. QED
    BY <1>3, <1>4, <2>1
<1>6. QED
  <2> HIDE DEF h
  <2>1. OnTheWay(T, g, base, text, h)
    BY <1>2, <1>4, <1>5 DEF OnTheWay
  <2>2. QED
    BY <2>1 DEF h

\* The states h of the screen on the way through a text.
PutSteps(T, base, text, h) ==
  /\ h \in [0 .. Len(text) -> T]
  /\ h[0] = base
  /\ \A k \in 1 .. Len(text) : h[k] = PutChar(h[k - 1], text[k])
  /\ FoldLeft(PutChar, base, text) = h[Len(text)]

(***************************************************************************)
(* Every state of the screen on the way is one of T.                       *)
(***************************************************************************)
LEMMA PutTrace ==
  ASSUME NEW T, NEW E, NEW base \in T, NEW text \in Seq(E),
         \A s \in T : \A c \in E : PutChar(s, c) \in T
  PROVE  \E h : PutSteps(T, base, text, h)
<1> DEFINE D == 1 .. Len(text)
           R(f) == f = [s \in SUBSET D |->
                          IF s = {} THEN base ELSE PutChar(f[s \ {Max(s)}], text[Max(s)])]
           iter == CHOOSE f : R(f)
           h == Way(text, iter)
           g == [p \in T \X E |-> PutChar(p[1], p[2])]
<1>1. DOMAIN text = D /\ Len(text) \in Nat
  OBVIOUS
<1>2. FoldLeft(PutChar, base, text) = iter[D]
  BY <1>1, Zenon DEF FoldLeft, MapThenFoldSet
<1>3. g \in [T \X E -> T] /\ \A a \in T : \A c \in E : g[<<a, c>>] = PutChar(a, c)
  OBVIOUS
<1> HIDE DEF g
<1>4. PICK f \in [SUBSET D -> T] :
        \A s \in SUBSET D :
          /\ s # {} => Max(s) \in s
          /\ f[s] = IF s = {} THEN base ELSE g[<<f[s \ {Max(s)}], text[Max(s)]>>]
  <2>1. Folds(T, g, base, text)
    BY <1>3, FoldExists
  <2>2. QED
    BY <2>1, Zenon DEF Folds
<1>5. \A s \in SUBSET D : s # {} => s \ {Max(s)} \in SUBSET D /\ text[Max(s)] \in E
  <2>1. ASSUME NEW s \in SUBSET D, s # {}
        PROVE  s \ {Max(s)} \in SUBSET D /\ text[Max(s)] \in E
    <3>1. Max(s) \in D /\ s \ {Max(s)} \in SUBSET D
      BY <1>4, <2>1
    <3>2. text[Max(s)] \in E
      BY <3>1
    <3>3. QED
      BY <3>1, <3>2
  <2>2. QED
    BY <2>1
<1>6. R(iter)
  <2>1. ASSUME NEW s \in SUBSET D, s # {}
        PROVE  f[s] = PutChar(f[s \ {Max(s)}], text[Max(s)])
    BY <1>3, <1>4, <1>5, <2>1
  <2>2. R(f)
    BY <1>4, <2>1
  <2> HIDE DEF R
  <2>3. QED
    BY <2>2, Zenon
<1> HIDE DEF iter
<1>7. OnTheWay(T, g, base, text, h)
  <2>1. iter[{}] = base
    BY <1>6
  <2>2. \A s \in SUBSET D :
          s # {} /\ iter[s \ {Max(s)}] \in T =>
            iter[s] = g[<<iter[s \ {Max(s)}], text[Max(s)]>>]
    BY <1>3, <1>5, <1>6, Zenon
  <2> HIDE DEF R
  <2>3. Stepwise(T, g, base, text, iter)
    BY <2>1, <2>2 DEF Stepwise
  <2>4. QED
    BY <1>3, <2>3, FoldWay
<1>8. h[Len(text)] = iter[D]
  BY <1>1 DEF Way
<1> HIDE DEF h
<1>9. ASSUME NEW k \in D
      PROVE  h[k] = PutChar(h[k - 1], text[k])
  <2>1. k - 1 \in 0 .. Len(text) /\ text[k] \in E
    BY <1>1
  <2>2. QED
    BY <1>3, <1>7, <2>1 DEF OnTheWay
<1>10. PutSteps(T, base, text, h)
  BY <1>2, <1>7, <1>8, <1>9 DEF OnTheWay, PutSteps
<1>11. QED
  BY <1>10

\* The states h of the memory while rows move up.
RowSteps(T, base, text, h) ==
  /\ h \in [0 .. Len(text) -> T]
  /\ h[0] = base
  /\ \A k \in 1 .. Len(text) : h[k] = RowUp(h[k - 1], text[k])
  /\ FoldLeft(RowUp, base, text) = h[Len(text)]

(***************************************************************************)
(* Every state of the memory on the way is one of T.                       *)
(***************************************************************************)
LEMMA RowTrace ==
  ASSUME NEW T, NEW E, NEW base \in T, NEW text \in Seq(E),
         \A s \in T : \A c \in E : RowUp(s, c) \in T
  PROVE  \E h : RowSteps(T, base, text, h)
<1> DEFINE D == 1 .. Len(text)
           R(f) == f = [s \in SUBSET D |->
                          IF s = {} THEN base ELSE RowUp(f[s \ {Max(s)}], text[Max(s)])]
           iter == CHOOSE f : R(f)
           h == Way(text, iter)
           g == [p \in T \X E |-> RowUp(p[1], p[2])]
<1>1. DOMAIN text = D /\ Len(text) \in Nat
  OBVIOUS
<1>2. FoldLeft(RowUp, base, text) = iter[D]
  BY <1>1, Zenon DEF FoldLeft, MapThenFoldSet
<1>3. g \in [T \X E -> T] /\ \A a \in T : \A c \in E : g[<<a, c>>] = RowUp(a, c)
  OBVIOUS
<1> HIDE DEF g
<1>4. PICK f \in [SUBSET D -> T] :
        \A s \in SUBSET D :
          /\ s # {} => Max(s) \in s
          /\ f[s] = IF s = {} THEN base ELSE g[<<f[s \ {Max(s)}], text[Max(s)]>>]
  <2>1. Folds(T, g, base, text)
    BY <1>3, FoldExists
  <2>2. QED
    BY <2>1, Zenon DEF Folds
<1>5. \A s \in SUBSET D : s # {} => s \ {Max(s)} \in SUBSET D /\ text[Max(s)] \in E
  <2>1. ASSUME NEW s \in SUBSET D, s # {}
        PROVE  s \ {Max(s)} \in SUBSET D /\ text[Max(s)] \in E
    <3>1. Max(s) \in D /\ s \ {Max(s)} \in SUBSET D
      BY <1>4, <2>1
    <3>2. text[Max(s)] \in E
      BY <3>1
    <3>3. QED
      BY <3>1, <3>2
  <2>2. QED
    BY <2>1
<1>6. R(iter)
  <2>1. ASSUME NEW s \in SUBSET D, s # {}
        PROVE  f[s] = RowUp(f[s \ {Max(s)}], text[Max(s)])
    BY <1>3, <1>4, <1>5, <2>1
  <2>2. R(f)
    BY <1>4, <2>1
  <2> HIDE DEF R
  <2>3. QED
    BY <2>2, Zenon
<1> HIDE DEF iter
<1>7. OnTheWay(T, g, base, text, h)
  <2>1. iter[{}] = base
    BY <1>6
  <2>2. \A s \in SUBSET D :
          s # {} /\ iter[s \ {Max(s)}] \in T =>
            iter[s] = g[<<iter[s \ {Max(s)}], text[Max(s)]>>]
    BY <1>3, <1>5, <1>6, Zenon
  <2> HIDE DEF R
  <2>3. Stepwise(T, g, base, text, iter)
    BY <2>1, <2>2 DEF Stepwise
  <2>4. QED
    BY <1>3, <2>3, FoldWay
<1>8. h[Len(text)] = iter[D]
  BY <1>1 DEF Way
<1> HIDE DEF h
<1>9. ASSUME NEW k \in D
      PROVE  h[k] = RowUp(h[k - 1], text[k])
  <2>1. k - 1 \in 0 .. Len(text) /\ text[k] \in E
    BY <1>1
  <2>2. QED
    BY <1>3, <1>7, <2>1 DEF OnTheWay
<1>10. RowSteps(T, base, text, h)
  BY <1>2, <1>7, <1>8, <1>9 DEF OnTheWay, RowSteps
<1>11. QED
  BY <1>10

\* The states h of the screen and its pen on the way through a notice.
PenSteps(T, base, text, h) ==
  /\ h \in [0 .. Len(text) -> T]
  /\ h[0] = base
  /\ \A k \in 1 .. Len(text) : h[k] = PenPut(h[k - 1], text[k])
  /\ FoldLeft(PenPut, base, text) = h[Len(text)]

(***************************************************************************)
(* Every state of screen and pen on the way is one of T.                   *)
(***************************************************************************)
LEMMA PenTrace ==
  ASSUME NEW T, NEW E, NEW base \in T, NEW text \in Seq(E),
         \A s \in T : \A c \in E : PenPut(s, c) \in T
  PROVE  \E h : PenSteps(T, base, text, h)
<1> DEFINE D == 1 .. Len(text)
           R(f) == f = [s \in SUBSET D |->
                          IF s = {} THEN base ELSE PenPut(f[s \ {Max(s)}], text[Max(s)])]
           iter == CHOOSE f : R(f)
           h == Way(text, iter)
           g == [p \in T \X E |-> PenPut(p[1], p[2])]
<1>1. DOMAIN text = D /\ Len(text) \in Nat
  OBVIOUS
<1>2. FoldLeft(PenPut, base, text) = iter[D]
  BY <1>1, Zenon DEF FoldLeft, MapThenFoldSet
<1>3. g \in [T \X E -> T] /\ \A a \in T : \A c \in E : g[<<a, c>>] = PenPut(a, c)
  OBVIOUS
<1> HIDE DEF g
<1>4. PICK f \in [SUBSET D -> T] :
        \A s \in SUBSET D :
          /\ s # {} => Max(s) \in s
          /\ f[s] = IF s = {} THEN base ELSE g[<<f[s \ {Max(s)}], text[Max(s)]>>]
  <2>1. Folds(T, g, base, text)
    BY <1>3, FoldExists
  <2>2. QED
    BY <2>1, Zenon DEF Folds
<1>5. \A s \in SUBSET D : s # {} => s \ {Max(s)} \in SUBSET D /\ text[Max(s)] \in E
  <2>1. ASSUME NEW s \in SUBSET D, s # {}
        PROVE  s \ {Max(s)} \in SUBSET D /\ text[Max(s)] \in E
    <3>1. Max(s) \in D /\ s \ {Max(s)} \in SUBSET D
      BY <1>4, <2>1
    <3>2. text[Max(s)] \in E
      BY <3>1
    <3>3. QED
      BY <3>1, <3>2
  <2>2. QED
    BY <2>1
<1>6. R(iter)
  <2>1. ASSUME NEW s \in SUBSET D, s # {}
        PROVE  f[s] = PenPut(f[s \ {Max(s)}], text[Max(s)])
    BY <1>3, <1>4, <1>5, <2>1
  <2>2. R(f)
    BY <1>4, <2>1
  <2> HIDE DEF R
  <2>3. QED
    BY <2>2, Zenon
<1> HIDE DEF iter
<1>7. OnTheWay(T, g, base, text, h)
  <2>1. iter[{}] = base
    BY <1>6
  <2>2. \A s \in SUBSET D :
          s # {} /\ iter[s \ {Max(s)}] \in T =>
            iter[s] = g[<<iter[s \ {Max(s)}], text[Max(s)]>>]
    BY <1>3, <1>5, <1>6, Zenon
  <2> HIDE DEF R
  <2>3. Stepwise(T, g, base, text, iter)
    BY <2>1, <2>2 DEF Stepwise
  <2>4. QED
    BY <1>3, <2>3, FoldWay
<1>8. h[Len(text)] = iter[D]
  BY <1>1 DEF Way
<1> HIDE DEF h
<1>9. ASSUME NEW k \in D
      PROVE  h[k] = PenPut(h[k - 1], text[k])
  <2>1. k - 1 \in 0 .. Len(text) /\ text[k] \in E
    BY <1>1
  <2>2. QED
    BY <1>3, <1>7, <2>1 DEF OnTheWay
<1>10. PenSteps(T, base, text, h)
  BY <1>2, <1>7, <1>8, <1>9 DEF OnTheWay, PenSteps
<1>11. QED
  BY <1>10

\* The states h of the paper on the way through a text.
TypeSteps(T, base, text, h) ==
  /\ h \in [0 .. Len(text) -> T]
  /\ h[0] = base
  /\ \A k \in 1 .. Len(text) : h[k] = Type(h[k - 1], text[k])
  /\ FoldLeft(Type, base, text) = h[Len(text)]

(***************************************************************************)
(* Every state of the paper on the way is one of T.                        *)
(***************************************************************************)
LEMMA TypeTrace ==
  ASSUME NEW T, NEW E, NEW base \in T, NEW text \in Seq(E),
         \A s \in T : \A c \in E : Type(s, c) \in T
  PROVE  \E h : TypeSteps(T, base, text, h)
<1> DEFINE D == 1 .. Len(text)
           R(f) == f = [s \in SUBSET D |->
                          IF s = {} THEN base ELSE Type(f[s \ {Max(s)}], text[Max(s)])]
           iter == CHOOSE f : R(f)
           h == Way(text, iter)
           g == [p \in T \X E |-> Type(p[1], p[2])]
<1>1. DOMAIN text = D /\ Len(text) \in Nat
  OBVIOUS
<1>2. FoldLeft(Type, base, text) = iter[D]
  BY <1>1, Zenon DEF FoldLeft, MapThenFoldSet
<1>3. g \in [T \X E -> T] /\ \A a \in T : \A c \in E : g[<<a, c>>] = Type(a, c)
  OBVIOUS
<1> HIDE DEF g
<1>4. PICK f \in [SUBSET D -> T] :
        \A s \in SUBSET D :
          /\ s # {} => Max(s) \in s
          /\ f[s] = IF s = {} THEN base ELSE g[<<f[s \ {Max(s)}], text[Max(s)]>>]
  <2>1. Folds(T, g, base, text)
    BY <1>3, FoldExists
  <2>2. QED
    BY <2>1, Zenon DEF Folds
<1>5. \A s \in SUBSET D : s # {} => s \ {Max(s)} \in SUBSET D /\ text[Max(s)] \in E
  <2>1. ASSUME NEW s \in SUBSET D, s # {}
        PROVE  s \ {Max(s)} \in SUBSET D /\ text[Max(s)] \in E
    <3>1. Max(s) \in D /\ s \ {Max(s)} \in SUBSET D
      BY <1>4, <2>1
    <3>2. text[Max(s)] \in E
      BY <3>1
    <3>3. QED
      BY <3>1, <3>2
  <2>2. QED
    BY <2>1
<1>6. R(iter)
  <2>1. ASSUME NEW s \in SUBSET D, s # {}
        PROVE  f[s] = Type(f[s \ {Max(s)}], text[Max(s)])
    BY <1>3, <1>4, <1>5, <2>1
  <2>2. R(f)
    BY <1>4, <2>1
  <2> HIDE DEF R
  <2>3. QED
    BY <2>2, Zenon
<1> HIDE DEF iter
<1>7. OnTheWay(T, g, base, text, h)
  <2>1. iter[{}] = base
    BY <1>6
  <2>2. \A s \in SUBSET D :
          s # {} /\ iter[s \ {Max(s)}] \in T =>
            iter[s] = g[<<iter[s \ {Max(s)}], text[Max(s)]>>]
    BY <1>3, <1>5, <1>6, Zenon
  <2> HIDE DEF R
  <2>3. Stepwise(T, g, base, text, iter)
    BY <2>1, <2>2 DEF Stepwise
  <2>4. QED
    BY <1>3, <2>3, FoldWay
<1>8. h[Len(text)] = iter[D]
  BY <1>1 DEF Way
<1> HIDE DEF h
<1>9. ASSUME NEW k \in D
      PROVE  h[k] = Type(h[k - 1], text[k])
  <2>1. k - 1 \in 0 .. Len(text) /\ text[k] \in E
    BY <1>1
  <2>2. QED
    BY <1>3, <1>7, <2>1 DEF OnTheWay
<1>10. TypeSteps(T, base, text, h)
  BY <1>2, <1>7, <1>8, <1>9 DEF OnTheWay, TypeSteps
<1>11. QED
  BY <1>10

-----------------------------------------------------------------------------
(* Columns, rows and cells. *)

\* The largest value of the cursor's high register.
Top == (W * (H + 1)) \div PosBase

\* The next character goes on the screen.
Steady(s) == s.x < W /\ s.y < H

\* The screen and its cursor, also while kernelMain is in the middle of a
\* character: the column may be past the end, or the row, but not both.
Screens ==
  {s \in [mem : [Cells -> Chars], x : 0 .. W, y : 0 .. H, index : {"high", "low"},
          high : 0 .. Top, low : 0 .. (PosBase - 1)] :
     s.x < W \/ s.y < H}

\* The cursor's registers say where the next character goes.
Tracked(s) == s.index = "low" /\ s.high * PosBase + s.low = Cell(s.x, s.y)

(***************************************************************************)
(* Multiples of W keep their order.                                        *)
(***************************************************************************)
LEMMA Times ==
  ASSUME NEW a \in Nat, NEW b \in Nat, a <= b
  PROVE  W * a \in Nat /\ W * b \in Nat /\ W * a <= W * b /\ (a < b => W * a + W <= W * b)
<1> DEFINE d == b - a
<1>1. d \in Nat /\ W \in Nat /\ b = a + d
  BY ConsoleAssumption
<1>2. W * b = W * a + W * d /\ W * d \in Nat /\ W * a \in Nat
  BY <1>1
<1>3. ASSUME a < b
      PROVE  W <= W * d
  <2>1. d - 1 \in Nat /\ W * (d - 1) \in Nat
    BY <1>1, <1>3
  <2>2. W * d = W * (d - 1) + W
    BY <1>1
  <2>3. QED
    BY <1>1, <2>1, <2>2
<1> HIDE DEF d
<1>4. QED
  BY <1>1, <1>2, <1>3

(***************************************************************************)
(* A position on the screen is a cell of it; one past the end of a line or *)
(* of the screen is a cell all the same.                                   *)
(***************************************************************************)
LEMMA CellIn ==
  ASSUME NEW x \in 0 .. W, NEW y \in 0 .. H
  PROVE  /\ Cell(x, y) \in 0 .. (W * (H + 1))
         /\ x < W \/ y < H => Cell(x, y) \in Cells
         /\ x < W /\ y < H => Cell(x, y) < W * H
         /\ W * (H + 1) = W * H + W /\ W * H \in Nat
<1>1. W \in Nat \ {0} /\ H \in Nat \ {0} /\ y \in Nat /\ x \in Nat
  BY ConsoleAssumption
<1>2. W * y \in Nat /\ W * H \in Nat /\ W * y <= W * H /\ (y < H => W * y + W <= W * H)
  BY <1>1, Times
<1>3. W * (H + 1) = W * H + W
  BY <1>1
<1>4. QED
  BY <1>1, <1>2, <1>3 DEF Cell, Cells

(***************************************************************************)
(* A cell says its row.                                                    *)
(***************************************************************************)
LEMMA RowOf ==
  ASSUME NEW x \in 0 .. (W - 1), NEW y \in Int
  PROVE  Cell(x, y) \div W = y
BY ConsoleAssumption DEF Cell

(***************************************************************************)
(* Every cell is a column of a row.                                        *)
(***************************************************************************)
LEMMA CellAt ==
  ASSUME NEW c \in Cells
  PROVE  /\ c \div W \in 0 .. H /\ c % W \in 0 .. (W - 1)
         /\ c = Cell(c % W, c \div W)
<1>1. W \in Nat \ {0} /\ H \in Nat \ {0} /\ W * (H + 1) \in Nat
  BY ConsoleAssumption
<1>2. c \in Nat /\ c < W * (H + 1)
  BY <1>1 DEF Cells
<1>3. c % W \in 0 .. (W - 1) /\ c = W * (c \div W) + (c % W) /\ c \div W \in Int
  BY <1>1, <1>2
<1>4. c \div W <= H
  <2>1. SUFFICES ASSUME c \div W >= H + 1 PROVE FALSE
    BY <1>1, <1>3
  <2>2. W * (H + 1) <= W * (c \div W)
    BY <1>1, <1>3, <2>1, Times
  <2>3. QED
    BY <1>1, <1>2, <1>3, <2>2
<1>5. c \div W >= 0
  BY <1>1, <1>2
<1>6. QED
  BY <1>3, <1>4, <1>5 DEF Cell

(***************************************************************************)
(* A position and its parts in the cursor's registers.                     *)
(***************************************************************************)
LEMMA Registers ==
  ASSUME NEW p \in 0 .. (W * (H + 1))
  PROVE  /\ p \div PosBase \in 0 .. Top
         /\ p % PosBase \in 0 .. (PosBase - 1)
         /\ (p \div PosBase) * PosBase + (p % PosBase) = p
         /\ p < W * (H + 1) => p \div PosBase < PosBase
<1> DEFINE m == W * (H + 1)
<1>1. m \in Nat /\ PosBase \in Nat \ {0} /\ m <= PosBase * PosBase /\ p \in Nat /\ p <= m
  BY ConsoleAssumption
<1> HIDE DEF m
<1>2. /\ p % PosBase \in 0 .. (PosBase - 1)
      /\ (p \div PosBase) * PosBase + (p % PosBase) = p
      /\ p \div PosBase \in Nat
  BY <1>1
<1>3. /\ m % PosBase \in 0 .. (PosBase - 1)
      /\ (m \div PosBase) * PosBase + (m % PosBase) = m
      /\ m \div PosBase \in Nat
  BY <1>1
<1>4. \A a, b \in Nat : a < b => a * PosBase + PosBase <= b * PosBase
  <2>1. SUFFICES ASSUME NEW a \in Nat, NEW b \in Nat, a < b
                 PROVE  a * PosBase + PosBase <= b * PosBase
    OBVIOUS
  <2> DEFINE d == b - a - 1
  <2>2. d \in Nat /\ b = a + 1 + d
    BY <2>1
  <2>3. b * PosBase = a * PosBase + PosBase + d * PosBase /\ d * PosBase \in Nat
    BY <1>1, <2>2
  <2> HIDE DEF d
  <2>4. QED
    BY <1>1, <2>3
<1>5. p \div PosBase <= m \div PosBase
  <2>1. SUFFICES ASSUME m \div PosBase < p \div PosBase PROVE FALSE
    BY <1>2, <1>3
  <2>2. (m \div PosBase) * PosBase + PosBase <= (p \div PosBase) * PosBase
    BY <1>2, <1>3, <1>4, <2>1
  <2>3. QED
    BY <1>1, <1>2, <1>3, <2>2
<1>6. ASSUME p < m
      PROVE  p \div PosBase < PosBase
  <2>1. SUFFICES ASSUME PosBase <= p \div PosBase PROVE FALSE
    BY <1>1, <1>2
  <2>2. PosBase * PosBase <= (p \div PosBase) * PosBase
    <3>1. CASE PosBase = p \div PosBase
      BY <1>1, <3>1
    <3>2. CASE PosBase < p \div PosBase
      BY <1>1, <1>2, <1>4, <3>2
    <3>3. QED
      BY <1>1, <1>2, <2>1, <3>1, <3>2
  <2>3. QED
    BY <1>1, <1>2, <1>6, <2>2
<1>7. QED
  BY <1>2, <1>3, <1>5, <1>6 DEF m, Top

-----------------------------------------------------------------------------
(* Scrolling. *)

\* The screen m when the first k rows have moved up.
MovedUp(m, k) ==
  [c \in Cells |-> IF c \div W < k THEN IF c \div W < H - 1 THEN m[c + W] ELSE Space
                   ELSE m[c]]

(***************************************************************************)
(* The cell below.                                                         *)
(***************************************************************************)
LEMMA CellBelow ==
  ASSUME NEW c \in Cells, c \div W < H
  PROVE  c + W \in Cells /\ (c + W) \div W = (c \div W) + 1
<1> DEFINE x == c % W
           y == c \div W
<1>1. x \in 0 .. (W - 1) /\ y \in 0 .. H /\ c = Cell(x, y)
  BY CellAt
<1> HIDE DEF x, y
<1>2. y + 1 \in 0 .. H /\ x \in 0 .. W /\ x < W /\ W \in Nat /\ y \in Int /\ y + 1 \in Int
  BY <1>1, ConsoleAssumption DEF y
<1>3. c + W = Cell(x, y + 1)
  BY <1>1, <1>2 DEF Cell
<1>4. Cell(x, y + 1) \in Cells
  BY <1>2, CellIn
<1>5. Cell(x, y + 1) \div W = y + 1
  BY <1>1, <1>2, RowOf
<1>6. QED
  BY <1>3, <1>4, <1>5 DEF y

(***************************************************************************)
(* Moving up the next row.                                                 *)
(***************************************************************************)
LEMMA RowUpMoves ==
  ASSUME NEW m \in [Cells -> Chars], NEW k \in 0 .. (H - 1)
  PROVE  /\ MovedUp(m, 0) = m
         /\ MovedUp(m, k) \in [Cells -> Chars]
         /\ MovedUp(m, k + 1) \in [Cells -> Chars]
         /\ RowUp(MovedUp(m, k), k) = MovedUp(m, k + 1)
<1>1. H \in Nat \ {0} /\ k \in Nat /\ k <= H - 1
  BY ConsoleAssumption
<1>2. \A c \in Cells : c \div W \in Nat
  BY CellAt
<1>3. \A c \in Cells : c \div W < H - 1 =>
        c + W \in Cells /\ (c + W) \div W = (c \div W) + 1
  BY <1>1, <1>2, CellBelow
<1>4. Space \in Chars
  BY DEF Chars
<1>5. \A j \in 0 .. H : MovedUp(m, j) \in [Cells -> Chars]
  BY <1>2, <1>3, <1>4 DEF MovedUp
<1>6. MovedUp(m, 0) = m
  <2>1. \A c \in Cells : ~(c \div W < 0)
    BY <1>2
  <2>2. \A c \in Cells : MovedUp(m, 0)[c] = m[c]
    BY <2>1 DEF MovedUp
  <2>3. MovedUp(m, 0) = [c \in Cells |-> MovedUp(m, 0)[c]] /\ m = [c \in Cells |-> m[c]]
    BY DEF MovedUp
  <2>4. QED
    BY <2>2, <2>3
<1>7. RowUp(MovedUp(m, k), k) = MovedUp(m, k + 1)
  <2> DEFINE a == RowUp(MovedUp(m, k), k)
             b == MovedUp(m, k + 1)
  <2>1. ASSUME NEW c \in Cells
        PROVE  a[c] = b[c]
    <3>1. CASE c \div W = k
      <4>1. CASE k < H - 1
        <5>1. c + W \in Cells /\ ~((c + W) \div W < k)
          BY <1>1, <1>3, <3>1, <4>1
        <5>2. a[c] = MovedUp(m, k)[c + W]
          BY <3>1, <4>1 DEF RowUp
        <5>3. MovedUp(m, k)[c + W] = m[c + W]
          BY <5>1 DEF MovedUp
        <5>4. c \div W < k + 1 /\ c \div W < H - 1
          BY <1>1, <3>1, <4>1
        <5>5. b[c] = m[c + W]
          BY <5>4 DEF MovedUp
        <5>6. QED
          BY <5>2, <5>3, <5>5
      <4>2. CASE ~(k < H - 1)
        <5>1. c \div W < k + 1 /\ ~(c \div W < H - 1)
          BY <1>1, <3>1, <4>2
        <5>2. a[c] = Space
          BY <3>1, <4>2 DEF RowUp
        <5>3. b[c] = Space
          BY <5>1 DEF MovedUp
        <5>4. QED
          BY <5>2, <5>3
      <4>3. QED
        BY <4>1, <4>2
    <3>2. CASE c \div W # k
      <4>1. a[c] = MovedUp(m, k)[c]
        BY <3>2 DEF RowUp
      <4>2. c \div W < k + 1 <=> c \div W < k
        BY <1>1, <1>2, <3>2
      <4>3. QED
        BY <4>1, <4>2 DEF MovedUp
    <3>3. QED
      BY <3>1, <3>2
  <2>2. a = [c \in Cells |-> a[c]] /\ b = [c \in Cells |-> b[c]]
    BY DEF RowUp, MovedUp
  <2> HIDE DEF a, b
  <2>3. a = b
    BY <2>1, <2>2
  <2>4. QED
    BY <2>3 DEF a, b
<1>8. QED
  BY <1>1, <1>5, <1>6, <1>7

(***************************************************************************)
(* Scroll moves all rows up, and the last one is blank then.               *)
(***************************************************************************)
LEMMA Scrolled ==
  ASSUME NEW s, s.mem \in [Cells -> Chars]
  PROVE  /\ Scroll(s) = [s EXCEPT !.mem = MovedUp(s.mem, H), !.y = H - 1]
         /\ MovedUp(s.mem, H) \in [Cells -> Chars]
<1> DEFINE T == [Cells -> Chars]
           rows == [r \in 1 .. H |-> r - 1]
           m == s.mem
<1>1. H \in Nat \ {0} /\ H - 1 \in 0 .. (H - 1) /\ (H - 1) + 1 = H
  BY ConsoleAssumption
<1>2. rows \in Seq(0 .. (H - 1)) /\ Len(rows) = H /\ \A r \in 1 .. H : rows[r] = r - 1
  BY <1>1
<1>3. \A t \in T : \A r \in 0 .. (H - 1) : RowUp(t, r) \in T
  <2>1. SUFFICES ASSUME NEW t \in T, NEW r \in 0 .. (H - 1)
                 PROVE  RowUp(t, r) \in T
    OBVIOUS
  <2>2. \A c \in Cells : c \div W = r /\ r < H - 1 => c + W \in Cells
    BY <1>1, CellBelow
  <2>3. Space \in Chars
    BY DEF Chars
  <2>4. QED
    BY <2>2, <2>3 DEF RowUp
<1> HIDE DEF rows, m
<1>4. PICK h \in [0 .. H -> T] :
        /\ h[0] = m
        /\ \A k \in 1 .. H : h[k] = RowUp(h[k - 1], rows[k])
        /\ FoldLeft(RowUp, m, rows) = h[H]
  <2>1. m \in T
    BY DEF m
  <2> HIDE DEF T
  <2>2. \E h : RowSteps(T, m, rows, h)
    BY <1>2, <1>3, <2>1, RowTrace
  <2>3. QED
    BY <1>2, <2>2 DEF RowSteps
<1>5. h[H] = MovedUp(m, H)
  <2> DEFINE A == {k \in 0 .. H : h[k] = MovedUp(m, k)}
  <2>1. m \in T
    BY DEF m
  <2>2. 0 \in A
    BY <1>1, <1>4, <2>1, RowUpMoves
  <2>3. ASSUME NEW k \in 0 .. (H - 1), k \in A
        PROVE  k + 1 \in A
    <3>1. k + 1 \in 1 .. H /\ k + 1 \in 0 .. H /\ rows[k + 1] = k /\ (k + 1) - 1 = k
      BY <1>1, <1>2
    <3>2. h[k + 1] = RowUp(MovedUp(m, k), k)
      BY <1>4, <2>3, <3>1
    <3>3. QED
      BY <2>1, <3>1, <3>2, RowUpMoves
  <2>4. 0 .. H \subseteq A
    <3> HIDE DEF A
    <3>1. QED
      BY <1>1, <2>2, <2>3, UpTo
  <2>5. QED
    BY <1>1, <2>4
<1>6. Scroll(s) = [s EXCEPT !.mem = MovedUp(m, H), !.y = H - 1]
  BY <1>4, <1>5 DEF Scroll, rows, m
<1>7. MovedUp(m, H) \in T
  BY <1>1, RowUpMoves DEF m
<1>8. QED
  BY <1>6, <1>7 DEF m

-----------------------------------------------------------------------------
(* One character. *)

\* What PutChar is called with.
Marks == Chars \cup {NewLine, "back"}

(***************************************************************************)
(* The end of a line is not the eraser.                                    *)
(***************************************************************************)
LEMMA Distinct == NewLine # "back"
BY Zenon DEF NewLine

\* A screen in the middle of PutChar.
Raw == [mem : [Cells -> Chars], x : 0 .. (W + 1), y : 0 .. (H + 1), index : {"high", "low"},
        high : 0 .. Top, low : 0 .. (PosBase - 1)]

(***************************************************************************)
(* UpdateCursor writes the position, whatever it is.                       *)
(***************************************************************************)
LEMMA CursorUpdated ==
  ASSUME NEW s \in Screens
  PROVE  /\ UpdateCursor(s) \in Screens /\ Tracked(UpdateCursor(s))
         /\ UpdateCursor(s).mem = s.mem /\ UpdateCursor(s).x = s.x /\ UpdateCursor(s).y = s.y
<1> DEFINE p == Cell(s.x, s.y)
<1>1. /\ s.x \in 0 .. W /\ s.y \in 0 .. H /\ (s.x < W \/ s.y < H)
      /\ s.mem \in [Cells -> Chars]
  BY DEF Screens
<1>2. p \in 0 .. (W * (H + 1)) /\ p \in Cells
  BY <1>1, CellIn
<1>3. p < W * (H + 1)
  BY <1>2, ConsoleAssumption DEF Cells
<1>4. /\ p \div PosBase \in 0 .. Top
      /\ p % PosBase \in 0 .. (PosBase - 1)
      /\ (p \div PosBase) * PosBase + (p % PosBase) = p
  BY <1>2, Registers
<1>5. UpdateCursor(s) = [s EXCEPT !.index = "low", !.high = p \div PosBase, !.low = p % PosBase]
  BY DEF UpdateCursor
<1> HIDE DEF p
<1>6. UpdateCursor(s) = [mem |-> s.mem, x |-> s.x, y |-> s.y, index |-> "low",
                         high |-> p \div PosBase, low |-> p % PosBase]
  BY <1>5 DEF Screens
<1>7. UpdateCursor(s) \in Screens
  BY <1>1, <1>4, <1>6 DEF Screens
<1>8. QED
  BY <1>4, <1>6, <1>7 DEF Tracked, p

(***************************************************************************)
(* What the switch of PutChar leaves: a position at worst one past the end *)
(* of its line, or one row below the screen.                               *)
(***************************************************************************)
LEMMA Placed ==
  ASSUME NEW s \in Screens, NEW c \in Marks
  PROVE  Place(s, c) \in Raw /\ (Place(s, c).x >= W => Place(s, c).y <= H)
<1>1. s.x \in 0 .. W /\ s.y \in 0 .. H /\ (s.x < W \/ s.y < H)
  BY DEF Screens
<1>2. W \in Nat \ {0} /\ H \in Nat \ {0}
  BY ConsoleAssumption
<1>3. /\ s.mem \in [Cells -> Chars]
      /\ s = [mem |-> s.mem, x |-> s.x, y |-> s.y, index |-> s.index,
              high |-> s.high, low |-> s.low]
      /\ s.index \in {"high", "low"} /\ s.high \in 0 .. Top
      /\ s.low \in 0 .. (PosBase - 1)
  BY DEF Screens
<1>4. CASE c = NewLine
  <2>1. Place(s, c) = [mem |-> s.mem, x |-> 0, y |-> s.y + 1, index |-> s.index,
                       high |-> s.high, low |-> s.low]
    BY <1>3, <1>4, Distinct DEF Place
  <2>2. s.y + 1 \in 0 .. (H + 1) /\ 0 \in 0 .. (W + 1) /\ ~(0 >= W)
    BY <1>1, <1>2
  <2>3. QED
    BY <1>3, <2>1, <2>2 DEF Raw
<1>5. CASE c = "back" /\ s.x = 0
  <2>1. Place(s, c) = s
    BY <1>5 DEF Place
  <2>2. s.y \in 0 .. (H + 1) /\ s.x \in 0 .. (W + 1) /\ ~(s.x >= W)
    BY <1>1, <1>2, <1>5
  <2>3. QED
    BY <1>3, <2>1, <2>2 DEF Raw
<1>6. CASE c = "back" /\ s.x # 0
  <2> DEFINE m == [s.mem EXCEPT ![Cell(s.x - 1, s.y)] = Space]
  <2>1. Place(s, c) = [s EXCEPT !.x = s.x - 1, !.mem = m]
    BY <1>6 DEF Place
  <2>2. m \in [Cells -> Chars]
    BY <1>3 DEF Chars
  <2> HIDE DEF m
  <2>3. Place(s, c) = [mem |-> m, x |-> s.x - 1, y |-> s.y, index |-> s.index,
                       high |-> s.high, low |-> s.low]
    BY <1>3, <2>1
  <2>4. s.y \in 0 .. (H + 1) /\ s.x - 1 \in 0 .. (W + 1) /\ s.y <= H
    BY <1>1, <1>2, <1>6
  <2>5. QED
    BY <1>3, <2>2, <2>3, <2>4 DEF Raw
<1>7. CASE c # NewLine /\ c # "back"
  <2> DEFINE m == [s.mem EXCEPT ![Cell(s.x, s.y)] = c]
  <2>1. Place(s, c) = [s EXCEPT !.x = s.x + 1, !.mem = m]
    BY <1>7 DEF Place
  <2>2. m \in [Cells -> Chars]
    BY <1>3, <1>7 DEF Marks
  <2> HIDE DEF m
  <2>3. Place(s, c) = [mem |-> m, x |-> s.x + 1, y |-> s.y, index |-> s.index,
                       high |-> s.high, low |-> s.low]
    BY <1>3, <2>1
  <2>4. s.y \in 0 .. (H + 1) /\ s.x + 1 \in 0 .. (W + 1) /\ s.y <= H
    BY <1>1, <1>2
  <2>5. QED
    BY <1>3, <2>2, <2>3, <2>4 DEF Raw
<1>8. QED
  BY <1>4, <1>5, <1>6, <1>7

(***************************************************************************)
(* The end of the line: a new one.                                         *)
(***************************************************************************)
LEMMA Wrapped ==
  ASSUME NEW t \in Raw, t.x >= W => t.y <= H
  PROVE  Wrap(t) \in Raw /\ Wrap(t).x < W /\ Wrap(t).mem = t.mem
<1>1. /\ t.x \in 0 .. (W + 1) /\ t.y \in 0 .. (H + 1) /\ t.mem \in [Cells -> Chars]
      /\ t = [mem |-> t.mem, x |-> t.x, y |-> t.y, index |-> t.index,
              high |-> t.high, low |-> t.low]
      /\ t.index \in {"high", "low"} /\ t.high \in 0 .. Top
      /\ t.low \in 0 .. (PosBase - 1)
  BY DEF Raw
<1>2. W \in Nat \ {0} /\ H \in Nat \ {0}
  BY ConsoleAssumption
<1>3. CASE t.x >= W
  <2>1. Wrap(t) = [mem |-> t.mem, x |-> 0, y |-> t.y + 1, index |-> t.index,
                   high |-> t.high, low |-> t.low]
    BY <1>1, <1>3 DEF Wrap, PastEnd
  <2>2. QED
    BY <1>1, <1>2, <1>3, <2>1 DEF Raw
<1>4. CASE ~(t.x >= W)
  BY <1>1, <1>2, <1>4 DEF Wrap, PastEnd
<1>5. QED
  BY <1>3, <1>4

(***************************************************************************)
(* The end of the screen: a scroll.                                        *)
(***************************************************************************)
LEMMA ScrolledIn ==
  ASSUME NEW t \in Raw, t.x < W
  PROVE  LET u == IF t.y >= H THEN Scroll(t) ELSE t
         IN  u \in Screens /\ Steady(u) /\ u.x = t.x
<1>1. /\ t.x \in 0 .. (W + 1) /\ t.y \in 0 .. (H + 1) /\ t.mem \in [Cells -> Chars]
      /\ t = [mem |-> t.mem, x |-> t.x, y |-> t.y, index |-> t.index,
              high |-> t.high, low |-> t.low]
      /\ t.index \in {"high", "low"} /\ t.high \in 0 .. Top
      /\ t.low \in 0 .. (PosBase - 1)
  BY DEF Raw
<1>2. W \in Nat \ {0} /\ H \in Nat \ {0}
  BY ConsoleAssumption
<1>3. CASE t.y >= H
  <2> DEFINE m == MovedUp(t.mem, H)
  <2>1. Scroll(t) = [t EXCEPT !.mem = m, !.y = H - 1] /\ m \in [Cells -> Chars]
    BY <1>1, Scrolled
  <2> HIDE DEF m
  <2>2. Scroll(t) = [mem |-> m, x |-> t.x, y |-> H - 1, index |-> t.index,
                     high |-> t.high, low |-> t.low]
    BY <1>1, <2>1
  <2>3. QED
    BY <1>1, <1>2, <1>3, <2>1, <2>2 DEF Screens, Steady
<1>4. CASE ~(t.y >= H)
  BY <1>1, <1>2, <1>4 DEF Screens, Steady
<1>5. QED
  BY <1>3, <1>4

(***************************************************************************)
(* From any state PutChar may be called in, it leaves the cursor on the    *)
(* screen and its registers right.                                         *)
(***************************************************************************)
LEMMA CharPut ==
  ASSUME NEW s \in Screens, NEW c \in Marks
  PROVE  PutChar(s, c) \in Screens /\ Steady(PutChar(s, c)) /\ Tracked(PutChar(s, c))
<1> DEFINE t == Wrap(Place(s, c))
           u == IF t.y >= H THEN Scroll(t) ELSE t
<1>1. t \in Raw /\ t.x < W
  BY Placed, Wrapped
<1>2. u \in Screens /\ Steady(u)
  <2> HIDE DEF t
  <2>1. QED
    BY <1>1, ScrolledIn
<1>3. PutChar(s, c) = UpdateCursor(u)
  BY DEF PutChar
<1> HIDE DEF u
<1>4. QED
  BY <1>2, <1>3, CursorUpdated DEF Steady

(***************************************************************************)
(* So does every text.                                                     *)
(***************************************************************************)
LEMMA TextPut ==
  ASSUME NEW s \in Screens, NEW text \in Seq(Marks)
  PROVE  /\ PrintText(s, text) \in Screens
         /\ Steady(s) \/ text # << >> => Steady(PrintText(s, text))
         /\ Tracked(s) \/ text # << >> => Tracked(PrintText(s, text))
<1>1. \A t \in Screens : \A c \in Marks : PutChar(t, c) \in Screens
  BY CharPut
<1>2. \E h : PutSteps(Screens, s, text, h)
  BY <1>1, PutTrace
<1>3. PICK h : PutSteps(Screens, s, text, h)
  BY <1>2
<1>4. PrintText(s, text) = h[Len(text)] /\ h[0] = s /\ h[Len(text)] \in Screens
  BY <1>3 DEF PutSteps, PrintText
<1>5. CASE text = << >>
  BY <1>4, <1>5
<1>6. CASE text # << >>
  <2> DEFINE k == Len(text)
  <2>1. k \in 1 .. k /\ k - 1 \in 0 .. k /\ text[k] \in Marks
    BY <1>6
  <2>2. h[k] = PutChar(h[k - 1], text[k]) /\ h[k - 1] \in Screens
    BY <1>3, <2>1 DEF PutSteps
  <2> HIDE DEF k
  <2>3. Steady(h[k]) /\ Tracked(h[k])
    BY <2>1, <2>2, CharPut
  <2>4. QED
    BY <1>4, <2>3 DEF k
<1>7. QED
  BY <1>5, <1>6

-----------------------------------------------------------------------------
(* The screen and the paper. *)

Rows == [0 .. (W - 1) -> Chars]

Papers == [lines : Seq(Rows) \ {<< >>}, x : 0 .. (W - 1)]

\* The first of the lines that are on the screen.
First(last) == IF last > H THEN last - H + 1 ELSE 1

\* The screen m shows the last of the lines, and y is the row of the last one.
Pictured(m, y, lines) ==
  /\ \A a \in 0 .. (W - 1), r \in 0 .. (H - 1) :
       m[Cell(a, r)] = IF First(Len(lines)) + r > Len(lines) THEN Space
                       ELSE lines[First(Len(lines)) + r][a]
  /\ First(Len(lines)) + y = Len(lines)

Shows(s, paper) == Pictured(s.mem, s.y, paper.lines) /\ s.x = paper.x

(***************************************************************************)
(* Different positions are different cells.                                *)
(***************************************************************************)
LEMMA CellsApart ==
  ASSUME NEW a \in 0 .. (W - 1), NEW x \in 0 .. (W - 1), NEW r \in 0 .. (H - 1),
         NEW y \in 0 .. (H - 1), Cell(a, r) = Cell(x, y)
  PROVE  a = x /\ r = y
<1>1. r \in Int /\ y \in Int /\ W \in Nat \ {0} /\ a \in Int /\ x \in Int
  BY ConsoleAssumption
<1>2. r = y
  <2>1. Cell(a, r) \div W = r /\ Cell(x, y) \div W = y
    BY <1>1, RowOf
  <2>2. QED
    BY <2>1
<1>3. W * r \in Int /\ W * y = W * r
  BY <1>1, <1>2
<1>4. QED
  BY <1>1, <1>2, <1>3 DEF Cell

(***************************************************************************)
(* A character stored in the cursor's row is one in the last line.         *)
(***************************************************************************)
LEMMA Stored ==
  ASSUME NEW m \in [Cells -> Chars], NEW lines \in Seq(Rows) \ {<< >>}, NEW c \in Chars,
         NEW x \in 0 .. (W - 1), NEW y \in 0 .. (H - 1), Pictured(m, y, lines)
  PROVE  LET m1 == [m EXCEPT ![Cell(x, y)] = c]
             l1 == [lines EXCEPT ![Len(lines)][x] = c]
         IN  /\ m1 \in [Cells -> Chars] /\ l1 \in Seq(Rows) \ {<< >>}
             /\ Pictured(m1, y, l1)
<1> DEFINE n == Len(lines)
           f == First(n)
           m1 == [m EXCEPT ![Cell(x, y)] = c]
           row == [lines[n] EXCEPT ![x] = c]
           l1 == [lines EXCEPT ![n] = row]
<1>1. W \in Nat \ {0} /\ H \in Nat \ {0} /\ n \in Nat \ {0} /\ f \in Nat \ {0} /\ f + y = n
  BY ConsoleAssumption DEF Pictured, First
<1>2. lines[n] \in Rows /\ n \in 1 .. n
  BY <1>1
<1>3. row \in Rows /\ \A a \in 0 .. (W - 1) : row[a] = IF a = x THEN c ELSE lines[n][a]
  BY <1>2 DEF Rows
<1> HIDE DEF row
<1>4. l1 \in Seq(Rows) /\ Len(l1) = n /\ \A i \in 1 .. n : l1[i] = IF i = n THEN row ELSE lines[i]
  BY <1>2, <1>3
<1>5. l1 # << >>
  BY <1>1, <1>4
<1>6. m1 \in [Cells -> Chars]
  OBVIOUS
<1>7. \A a \in 0 .. (W - 1), r \in 0 .. (H - 1) : Cell(a, r) \in Cells
  <2>1. SUFFICES ASSUME NEW a \in 0 .. (W - 1), NEW r \in 0 .. (H - 1)
                 PROVE  Cell(a, r) \in Cells
    OBVIOUS
  <2>2. a \in 0 .. W /\ r \in 0 .. H /\ a < W
    BY <1>1
  <2>3. QED
    BY <2>2, CellIn
<1>8. Pictured(m1, y, l1)
  <2>1. ASSUME NEW a \in 0 .. (W - 1), NEW r \in 0 .. (H - 1)
        PROVE  m1[Cell(a, r)] = IF f + r > n THEN Space ELSE l1[f + r][a]
    <3>1. m[Cell(a, r)] = IF f + r > n THEN Space ELSE lines[f + r][a]
      BY DEF Pictured
    <3>2. CASE a = x /\ r = y
      <4>1. m1[Cell(a, r)] = c
        BY <1>7, <3>2
      <4>2. ~(f + r > n) /\ f + r = n
        BY <1>1, <3>2
      <4>3. l1[f + r][a] = c
        BY <1>2, <1>3, <1>4, <3>2, <4>2
      <4>4. QED
        BY <4>1, <4>2, <4>3
    <3>3. CASE ~(a = x /\ r = y)
      <4>1. Cell(a, r) # Cell(x, y)
        BY <3>3, CellsApart
      <4>2. m1[Cell(a, r)] = m[Cell(a, r)]
        BY <1>7, <4>1
      <4> HIDE DEF f, n, m1, l1
      <4>3. CASE f + r > n
        BY <3>1, <4>2, <4>3
      <4>4. CASE f + r = n
        <5>1. r = y /\ a # x
          BY <1>1, <3>3, <4>4
        <5>2. l1[n][a] = lines[n][a]
          BY <1>2, <1>3, <1>4, <5>1
        <5>3. ~(f + r > n)
          BY <1>1, <4>4
        <5>4. QED
          BY <3>1, <4>2, <4>4, <5>2, <5>3
      <4>5. CASE f + r < n
        <5>1. f + r \in 1 .. n /\ f + r # n /\ ~(f + r > n)
          BY <1>1, <4>5
        <5>2. l1[f + r] = lines[f + r]
          BY <1>4, <5>1
        <5>3. QED
          BY <3>1, <4>2, <5>1, <5>2
      <4>6. QED
        BY <1>1, <4>3, <4>4, <4>5
    <3>4. QED
      BY <3>2, <3>3
  <2>2. QED
    <3> HIDE DEF m1, l1
    <3>1. QED
      BY <1>1, <1>4, <2>1 DEF Pictured
<1>9. l1 = [lines EXCEPT ![Len(lines)][x] = c]
  BY DEF row
<1> HIDE DEF l1
<1>10. QED
  BY <1>4, <1>5, <1>6, <1>8, <1>9

(***************************************************************************)
(* A line feed of the paper is a new row, or a scroll.                     *)
(***************************************************************************)
LEMMA Fed ==
  ASSUME NEW m \in [Cells -> Chars], NEW lines \in Seq(Rows) \ {<< >>},
         NEW y \in 0 .. (H - 1), Pictured(m, y, lines)
  PROVE  LET l1 == Append(lines, Line0)
         IN  /\ l1 \in Seq(Rows) \ {<< >>}
             /\ y + 1 < H => Pictured(m, y + 1, l1)
             /\ y + 1 >= H => Pictured(MovedUp(m, H), H - 1, l1)
<1> DEFINE n == Len(lines)
           f == First(n)
           l1 == Append(lines, Line0)
<1>1. W \in Nat \ {0} /\ H \in Nat \ {0} /\ n \in Nat \ {0} /\ f \in Nat \ {0} /\ f + y = n
  BY ConsoleAssumption DEF Pictured, First
<1>2. Line0 \in Rows /\ \A a \in 0 .. (W - 1) : Line0[a] = Space
  BY DEF Line0, Rows, Chars
<1>3. l1 \in Seq(Rows) /\ Len(l1) = n + 1 /\ l1[n + 1] = Line0 /\ \A i \in 1 .. n : l1[i] = lines[i]
  BY <1>2
<1>4. l1 # << >>
  BY <1>1, <1>3
<1>5. \A a \in 0 .. (W - 1), r \in 0 .. (H - 1) :
        m[Cell(a, r)] = IF f + r > n THEN Space ELSE lines[f + r][a]
  BY DEF Pictured
<1> HIDE DEF l1
<1>6. ASSUME y + 1 < H
      PROVE  Pictured(m, y + 1, l1)
  <2>1. n < H /\ f = 1 /\ First(n + 1) = 1
    BY <1>1, <1>6 DEF First
  <2>2. ASSUME NEW a \in 0 .. (W - 1), NEW r \in 0 .. (H - 1)
        PROVE  m[Cell(a, r)] = IF 1 + r > n + 1 THEN Space ELSE l1[1 + r][a]
    <3> HIDE DEF f, n
    <3>1. CASE 1 + r > n
      <4>1. m[Cell(a, r)] = Space
        BY <1>5, <2>1, <3>1
      <4>2. 1 + r > n + 1 \/ 1 + r = n + 1
        BY <1>1, <3>1
      <4>3. QED
        BY <1>2, <1>3, <4>1, <4>2
    <3>2. CASE ~(1 + r > n)
      <4>1. 1 + r \in 1 .. n /\ ~(1 + r > n + 1)
        BY <1>1, <3>2
      <4>2. QED
        BY <1>3, <1>5, <2>1, <3>2, <4>1
    <3>3. QED
      BY <3>1, <3>2
  <2>3. First(n + 1) + (y + 1) = n + 1
    BY <1>1, <2>1
  <2> HIDE DEF n
  <2>4. QED
    BY <1>3, <2>1, <2>2, <2>3 DEF Pictured
<1>7. ASSUME y + 1 >= H
      PROVE  Pictured(MovedUp(m, H), H - 1, l1)
  <2>1. y = H - 1 /\ f + (H - 1) = n /\ First(n + 1) = f + 1
    BY <1>1, <1>7 DEF First
  <2>2. ASSUME NEW a \in 0 .. (W - 1), NEW r \in 0 .. (H - 1)
        PROVE  MovedUp(m, H)[Cell(a, r)] =
                 IF (f + 1) + r > n + 1 THEN Space ELSE l1[(f + 1) + r][a]
    <3>1. Cell(a, r) \in Cells /\ Cell(a, r) \div W = r
      <4>1. a \in 0 .. W /\ r \in 0 .. H /\ a < W /\ r \in Int
        BY <1>1
      <4>2. QED
        BY <4>1, CellIn, RowOf
    <3>2. MovedUp(m, H)[Cell(a, r)] = IF r < H - 1 THEN m[Cell(a, r) + W] ELSE Space
      <4>1. r < H
        BY <1>1
      <4>2. QED
        BY <3>1, <4>1 DEF MovedUp
    <3> HIDE DEF f, n
    <3>3. ~((f + 1) + r > n + 1)
      BY <1>1, <2>1
    <3>4. CASE r < H - 1
      <4>1. r + 1 \in 0 .. (H - 1) /\ f + (r + 1) \in 1 .. n /\ (f + 1) + r = f + (r + 1)
            /\ ~(f + (r + 1) > n)
        BY <1>1, <2>1, <3>4
      <4>2. Cell(a, r) + W = Cell(a, r + 1)
        BY <1>1 DEF Cell
      <4>3. m[Cell(a, r + 1)] = lines[f + (r + 1)][a]
        BY <1>5, <4>1
      <4>4. l1[f + (r + 1)] = lines[f + (r + 1)]
        BY <1>3, <4>1
      <4>5. QED
        BY <3>2, <3>3, <3>4, <4>1, <4>2, <4>3, <4>4
    <3>5. CASE ~(r < H - 1)
      <4>1. (f + 1) + r = n + 1
        BY <1>1, <2>1, <3>5
      <4>2. QED
        BY <1>2, <1>3, <3>2, <3>3, <3>5, <4>1
    <3>6. QED
      BY <3>4, <3>5
  <2>3. First(n + 1) + (H - 1) = n + 1
    BY <1>1, <2>1
  <2> HIDE DEF n, f
  <2>4. QED
    BY <1>3, <2>1, <2>2, <2>3 DEF Pictured
<1>8. QED
  BY <1>3, <1>4, <1>6, <1>7 DEF l1

(***************************************************************************)
(* The end of PutChar: a scroll when the row is past the last one.         *)
(***************************************************************************)
LEMMA Ended ==
  ASSUME NEW s \in Screens, NEW c \in Marks
  PROVE  LET t == Wrap(Place(s, c))
             r == PutChar(s, c)
         IN  /\ r.x = t.x
             /\ t.y >= H => r.mem = MovedUp(t.mem, H) /\ r.y = H - 1
             /\ ~(t.y >= H) => r.mem = t.mem /\ r.y = t.y
<1> DEFINE t == Wrap(Place(s, c))
           u == IF t.y >= H THEN Scroll(t) ELSE t
           r == PutChar(s, c)
<1>1. t \in Raw /\ t.x < W
  BY Placed, Wrapped
<1>2. r = UpdateCursor(u)
  BY DEF PutChar
<1> HIDE DEF t, r
<1>3. u \in Screens /\ u.x = t.x
  BY <1>1, ScrolledIn
<1>4. t.y >= H => u.mem = MovedUp(t.mem, H) /\ u.y = H - 1
  <2>1. SUFFICES ASSUME t.y >= H PROVE u.mem = MovedUp(t.mem, H) /\ u.y = H - 1
    OBVIOUS
  <2>2. t.mem \in [Cells -> Chars]
    BY <1>1 DEF Raw
  <2> DEFINE m == MovedUp(t.mem, H)
  <2>3. u = [t EXCEPT !.mem = m, !.y = H - 1]
    BY <2>1, <2>2, Scrolled
  <2> HIDE DEF m, u
  <2>4. u.mem = m /\ u.y = H - 1
    BY <1>1, <2>3 DEF Raw
  <2>5. QED
    BY <2>4 DEF m
<1>5. ~(t.y >= H) => u = t
  OBVIOUS
<1> HIDE DEF u
<1>6. r.mem = u.mem /\ r.x = u.x /\ r.y = u.y
  BY <1>2, <1>3, CursorUpdated
<1>7. QED
  BY <1>3, <1>4, <1>5, <1>6 DEF t, r

(***************************************************************************)
(* The switch of PutChar and the end of the line, member by member.        *)
(***************************************************************************)
LEMMA PlacedAt ==
  ASSUME NEW s \in Screens, Steady(s), NEW c \in Marks
  PROVE  LET p == Place(s, c)
             t == Wrap(p)
         IN  /\ c = NewLine => p.mem = s.mem /\ p.x = 0 /\ p.y = s.y + 1
             /\ c = "back" /\ s.x = 0 => p.mem = s.mem /\ p.x = s.x /\ p.y = s.y
             /\ c = "back" /\ s.x # 0 =>
                  p.mem = [s.mem EXCEPT ![Cell(s.x - 1, s.y)] = Space] /\ p.x = s.x - 1 /\ p.y = s.y
             /\ c # NewLine /\ c # "back" =>
                  p.mem = [s.mem EXCEPT ![Cell(s.x, s.y)] = c] /\ p.x = s.x + 1 /\ p.y = s.y
             /\ t.mem = p.mem
             /\ p.x >= W => t.x = 0 /\ t.y = p.y + 1
             /\ ~(p.x >= W) => t.x = p.x /\ t.y = p.y
<1> DEFINE p == Place(s, c)
           t == Wrap(p)
<1>1. c = NewLine => p.mem = s.mem /\ p.x = 0 /\ p.y = s.y + 1
  <2>1. SUFFICES ASSUME c = NewLine PROVE p.mem = s.mem /\ p.x = 0 /\ p.y = s.y + 1
    OBVIOUS
  <2>2. p = [s EXCEPT !.x = 0, !.y = @ + 1]
    BY <2>1, Distinct DEF Place
  <2> HIDE DEF p
  <2>3. QED
    BY <2>2 DEF Screens
<1>2. c = "back" /\ s.x = 0 => p.mem = s.mem /\ p.x = s.x /\ p.y = s.y
  BY Distinct DEF Place
<1>3. c = "back" /\ s.x # 0 =>
        p.mem = [s.mem EXCEPT ![Cell(s.x - 1, s.y)] = Space] /\ p.x = s.x - 1 /\ p.y = s.y
  <2> DEFINE m == [s.mem EXCEPT ![Cell(s.x - 1, s.y)] = Space]
  <2>1. SUFFICES ASSUME c = "back", s.x # 0 PROVE p.mem = m /\ p.x = s.x - 1 /\ p.y = s.y
    OBVIOUS
  <2>2. p = [s EXCEPT !.x = @ - 1, !.mem = m]
    BY <2>1, Distinct DEF Place
  <2> HIDE DEF p, m
  <2>3. QED
    BY <2>2 DEF Screens
<1>4. c # NewLine /\ c # "back" =>
        p.mem = [s.mem EXCEPT ![Cell(s.x, s.y)] = c] /\ p.x = s.x + 1 /\ p.y = s.y
  <2> DEFINE m == [s.mem EXCEPT ![Cell(s.x, s.y)] = c]
  <2>1. SUFFICES ASSUME c # NewLine, c # "back" PROVE p.mem = m /\ p.x = s.x + 1 /\ p.y = s.y
    OBVIOUS
  <2>2. p = [s EXCEPT !.x = @ + 1, !.mem = m]
    BY <2>1 DEF Place
  <2> HIDE DEF p, m
  <2>3. QED
    BY <2>2 DEF Screens
<1>5. p \in Raw
  BY Placed
<1> HIDE DEF p
<1>6. p.x >= W => t.mem = p.mem /\ t.x = 0 /\ t.y = p.y + 1
  <2>1. SUFFICES ASSUME p.x >= W PROVE t.mem = p.mem /\ t.x = 0 /\ t.y = p.y + 1
    OBVIOUS
  <2>2. t = [p EXCEPT !.x = 0, !.y = @ + 1]
    BY <2>1 DEF Wrap, PastEnd
  <2> HIDE DEF t
  <2>3. QED
    BY <1>5, <2>2 DEF Raw
<1>7. ~(p.x >= W) => t.mem = p.mem /\ t.x = p.x /\ t.y = p.y
  BY DEF Wrap, PastEnd
<1> HIDE DEF t
<1>8. QED
  BY <1>1, <1>2, <1>3, <1>4, <1>6, <1>7 DEF p, t

(***************************************************************************)
(* A character is put on the screen as on the paper.                       *)
(***************************************************************************)
LEMMA PutType ==
  ASSUME NEW s \in Screens, Steady(s), NEW p \in Papers, Shows(s, p), NEW c \in Marks
  PROVE  Type(p, c) \in Papers /\ Shows(PutChar(s, c), Type(p, c))
<1> DEFINE q == Place(s, c)
           t == Wrap(q)
           r == PutChar(s, c)
           n == Len(p.lines)
           y == s.y
           Sheet(l, x) == [lines |-> l, x |-> x]
<1>1. /\ W \in Nat \ {0} /\ H \in Nat \ {0} /\ s.x \in 0 .. (W - 1) /\ y \in 0 .. (H - 1)
      /\ s.mem \in [Cells -> Chars] /\ p.lines \in Seq(Rows) \ {<< >>} /\ p.x = s.x
      /\ Pictured(s.mem, y, p.lines) /\ p = Sheet(p.lines, p.x)
  BY ConsoleAssumption DEF Screens, Steady, Papers, Shows
<1>2. /\ c = NewLine => q.mem = s.mem /\ q.x = 0 /\ q.y = y + 1
      /\ c = "back" /\ s.x = 0 => q.mem = s.mem /\ q.x = s.x /\ q.y = y
      /\ c = "back" /\ s.x # 0 =>
           q.mem = [s.mem EXCEPT ![Cell(s.x - 1, y)] = Space] /\ q.x = s.x - 1 /\ q.y = y
      /\ c # NewLine /\ c # "back" =>
           q.mem = [s.mem EXCEPT ![Cell(s.x, y)] = c] /\ q.x = s.x + 1 /\ q.y = y
      /\ t.mem = q.mem
      /\ q.x >= W => t.x = 0 /\ t.y = q.y + 1
      /\ ~(q.x >= W) => t.x = q.x /\ t.y = q.y
  BY PlacedAt
<1>3. /\ r.x = t.x
      /\ t.y >= H => r.mem = MovedUp(t.mem, H) /\ r.y = H - 1
      /\ ~(t.y >= H) => r.mem = t.mem /\ r.y = t.y
  BY Ended
<1> HIDE DEF q, t, r
<1>4. ASSUME NEW m \in [Cells -> Chars], NEW l \in Seq(Rows) \ {<< >>}, Pictured(m, y, l),
             t.mem = m, t.x = 0, t.y = y + 1
      PROVE  Sheet(Append(l, Line0), 0) \in Papers /\ Shows(r, Sheet(Append(l, Line0), 0))
  <2> DEFINE l1 == Append(l, Line0)
  <2>1. /\ l1 \in Seq(Rows) \ {<< >>}
        /\ y + 1 < H => Pictured(m, y + 1, l1)
        /\ y + 1 >= H => Pictured(MovedUp(m, H), H - 1, l1)
    BY <1>1, <1>4, Fed
  <2> HIDE DEF l1
  <2>2. Pictured(r.mem, r.y, l1)
    BY <1>1, <1>3, <1>4, <2>1
  <2>3. 0 \in 0 .. (W - 1) /\ r.x = 0
    BY <1>1, <1>3, <1>4
  <2>4. Sheet(l1, 0) \in Papers /\ Shows(r, Sheet(l1, 0))
    BY <2>1, <2>2, <2>3 DEF Papers, Shows
  <2>5. QED
    BY <2>4 DEF l1
<1>5. ASSUME NEW m, NEW l \in Seq(Rows) \ {<< >>}, Pictured(m, y, l),
             NEW x \in 0 .. (W - 1), t.mem = m, t.x = x, t.y = y
      PROVE  Sheet(l, x) \in Papers /\ Shows(r, Sheet(l, x))
  <2>1. ~(t.y >= H)
    BY <1>1, <1>5
  <2>2. r.mem = m /\ r.x = x /\ r.y = y
    BY <1>3, <1>5, <2>1
  <2>3. QED
    BY <1>5, <2>2 DEF Papers, Shows
<1>6. CASE c = NewLine
  <2>1. Type(p, c) = Sheet(Append(p.lines, Line0), 0)
    BY <1>6 DEF Type, Feed
  <2>2. t.mem = s.mem /\ t.x = 0 /\ t.y = y + 1
    BY <1>1, <1>2, <1>6
  <2> HIDE DEF Sheet
  <2>3. QED
    BY <1>1, <1>4, <2>1, <2>2 DEF r
<1>7. CASE c = "back" /\ s.x = 0
  <2>1. Type(p, c) = Sheet(p.lines, p.x)
    BY <1>1, <1>7, Distinct DEF Type
  <2>2. t.mem = s.mem /\ t.x = p.x /\ t.y = y
    BY <1>1, <1>2, <1>7
  <2> HIDE DEF Sheet
  <2>3. QED
    BY <1>1, <1>5, <2>1, <2>2 DEF r
<1>8. ASSUME NEW x \in 0 .. (W - 1), NEW d \in Chars
      PROVE  LET m1 == [s.mem EXCEPT ![Cell(x, y)] = d]
                 l1 == [p.lines EXCEPT ![n][x] = d]
             IN  /\ m1 \in [Cells -> Chars] /\ l1 \in Seq(Rows) \ {<< >>}
                 /\ Pictured(m1, y, l1)
  BY <1>1, Stored
<1>9. CASE c = "back" /\ s.x # 0
  <2> DEFINE x1 == s.x - 1
             m1 == [s.mem EXCEPT ![Cell(x1, y)] = Space]
             l1 == [p.lines EXCEPT ![n][x1] = Space]
  <2>1. x1 \in 0 .. (W - 1) /\ ~(x1 >= W) /\ Space \in Chars
    BY <1>1, <1>9 DEF Chars
  <2>2. Type(p, c) = Sheet(l1, x1)
    <3>1. Type(p, c) = [[p EXCEPT !.lines[n][p.x - 1] = Space] EXCEPT !.x = @ - 1]
      BY <1>1, <1>9, Distinct DEF Type
    <3>2. QED
      BY <1>1, <3>1
  <2>3. m1 \in [Cells -> Chars] /\ l1 \in Seq(Rows) \ {<< >>} /\ Pictured(m1, y, l1)
    <3> HIDE DEF x1
    <3>1. QED
      BY <1>8, <2>1
  <2>4. t.mem = m1 /\ t.x = x1 /\ t.y = y
    BY <1>2, <1>9, <2>1
  <2> HIDE DEF Sheet, m1, l1, x1
  <2>5. QED
    BY <1>5, <2>1, <2>2, <2>3, <2>4 DEF r
<1>10. CASE c # NewLine /\ c # "back"
  <2> DEFINE m1 == [s.mem EXCEPT ![Cell(s.x, y)] = c]
             l1 == [p.lines EXCEPT ![n][s.x] = c]
  <2>1. c \in Chars
    BY <1>10 DEF Marks
  <2>2. m1 \in [Cells -> Chars] /\ l1 \in Seq(Rows) \ {<< >>} /\ Pictured(m1, y, l1)
    BY <1>1, <1>8, <2>1
  <2>3. t.mem = m1 /\ q.x = s.x + 1 /\ q.y = y
    BY <1>2, <1>10
  <2>4. CASE s.x = W - 1
    <3>1. Type(p, c) = Sheet(Append(l1, Line0), 0)
      BY <1>1, <1>10, <2>4 DEF Type, Feed
    <3>2. t.x = 0 /\ t.y = y + 1
      BY <1>1, <1>2, <2>3, <2>4
    <3> HIDE DEF Sheet, m1, l1
    <3>3. QED
      BY <1>4, <2>2, <2>3, <3>1, <3>2 DEF r
  <2>5. CASE s.x # W - 1
    <3> DEFINE x1 == s.x + 1
    <3>1. Type(p, c) = Sheet(l1, x1)
      <4>1. Type(p, c) = [[p EXCEPT !.lines[n][p.x] = c] EXCEPT !.x = @ + 1]
        BY <1>1, <1>10, <2>5 DEF Type
      <4>2. QED
        BY <1>1, <4>1
    <3>2. t.x = x1 /\ t.y = y /\ x1 \in 0 .. (W - 1)
      BY <1>1, <1>2, <2>3, <2>5
    <3> HIDE DEF Sheet, m1, l1, x1
    <3>3. QED
      BY <1>5, <2>2, <2>3, <3>1, <3>2 DEF r
  <2>6. QED
    BY <2>4, <2>5
<1>11. QED
  BY <1>6, <1>7, <1>9, <1>10 DEF r

(***************************************************************************)
(* The paper stays a paper.                                                *)
(***************************************************************************)
LEMMA TypeIn ==
  ASSUME NEW p \in Papers, NEW c \in Marks
  PROVE  Type(p, c) \in Papers
<1> DEFINE n == Len(p.lines)
           Sheet(l, x) == [lines |-> l, x |-> x]
<1>1. /\ W \in Nat \ {0} /\ p.lines \in Seq(Rows) \ {<< >>} /\ p.x \in 0 .. (W - 1)
      /\ p = Sheet(p.lines, p.x) /\ n \in Nat \ {0}
  BY ConsoleAssumption DEF Papers
<1>2. Space \in Chars /\ Line0 \in Rows
  BY DEF Chars, Line0, Rows
<1>3. \A l \in Seq(Rows) \ {<< >>} : Append(l, Line0) \in Seq(Rows) \ {<< >>}
  <2>1. SUFFICES ASSUME NEW l \in Seq(Rows) \ {<< >>}
                 PROVE  Append(l, Line0) \in Seq(Rows) \ {<< >>}
    OBVIOUS
  <2>2. Append(l, Line0) \in Seq(Rows) /\ Len(Append(l, Line0)) = Len(l) + 1 /\ Len(l) \in Nat
    BY <1>2
  <2>3. QED
    BY <2>2
<1>4. ASSUME NEW x \in 0 .. (W - 1), NEW d \in Chars
      PROVE  [p.lines EXCEPT ![n][x] = d] \in Seq(Rows) \ {<< >>}
  <2> DEFINE row == [p.lines[n] EXCEPT ![x] = d]
             l1 == [p.lines EXCEPT ![n] = row]
  <2>1. row \in Rows
    BY <1>1 DEF Rows
  <2> HIDE DEF row
  <2>2. l1 \in Seq(Rows) /\ Len(l1) = n
    BY <1>1, <2>1
  <2>3. l1 = [p.lines EXCEPT ![n][x] = d]
    BY DEF row
  <2> HIDE DEF l1
  <2>4. QED
    BY <1>1, <2>2, <2>3
<1>5. \A l \in Seq(Rows) \ {<< >>} : \A x \in 0 .. (W - 1) : Sheet(l, x) \in Papers
  BY DEF Papers
<1>6. 0 \in 0 .. (W - 1)
  BY <1>1
<1>7. CASE c = NewLine
  <2>1. Type(p, c) = Sheet(Append(p.lines, Line0), 0)
    BY <1>7 DEF Type, Feed
  <2> HIDE DEF Sheet
  <2>2. QED
    BY <1>1, <1>3, <1>5, <1>6, <2>1
<1>8. CASE c = "back" /\ p.x = 0
  BY <1>8, Distinct DEF Type
<1>9. CASE c = "back" /\ p.x # 0
  <2> DEFINE x1 == p.x - 1
             l1 == [p.lines EXCEPT ![n][x1] = Space]
  <2>1. x1 \in 0 .. (W - 1)
    BY <1>1, <1>9
  <2>2. Type(p, c) = Sheet(l1, x1)
    <3>1. Type(p, c) = [[p EXCEPT !.lines[n][p.x - 1] = Space] EXCEPT !.x = @ - 1]
      BY <1>9, Distinct DEF Type
    <3>2. QED
      BY <1>1, <3>1
  <2> HIDE DEF x1
  <2>3. l1 \in Seq(Rows) \ {<< >>}
    BY <1>2, <1>4, <2>1
  <2> HIDE DEF Sheet, l1
  <2>4. QED
    BY <1>5, <2>1, <2>2, <2>3
<1>10. CASE c # NewLine /\ c # "back"
  <2> DEFINE l1 == [p.lines EXCEPT ![n][p.x] = c]
  <2>1. l1 \in Seq(Rows) \ {<< >>}
    BY <1>1, <1>4, <1>10 DEF Marks
  <2>2. CASE p.x = W - 1
    <3>1. Type(p, c) = Sheet(Append(l1, Line0), 0)
      BY <1>10, <2>2 DEF Type, Feed
    <3> HIDE DEF Sheet, l1
    <3>2. QED
      BY <1>3, <1>5, <1>6, <2>1, <3>1
  <2>3. CASE p.x # W - 1
    <3> DEFINE x1 == p.x + 1
    <3>1. Type(p, c) = Sheet(l1, x1)
      <4>1. Type(p, c) = [[p EXCEPT !.lines[n][p.x] = c] EXCEPT !.x = @ + 1]
        BY <1>10, <2>3 DEF Type
      <4>2. QED
        BY <1>1, <4>1
    <3>2. x1 \in 0 .. (W - 1)
      BY <1>1, <2>3
    <3> HIDE DEF Sheet, l1, x1
    <3>3. QED
      BY <1>5, <2>1, <3>1, <3>2
  <2>4. QED
    BY <2>2, <2>3
<1>11. QED
  BY <1>7, <1>8, <1>9, <1>10

(***************************************************************************)
(* A text is put on the screen as on the paper.                            *)
(***************************************************************************)
LEMMA TextShown ==
  ASSUME NEW s \in Screens, Steady(s), NEW p \in Papers, Shows(s, p), NEW text \in Seq(Marks)
  PROVE  /\ FoldLeft(Type, p, text) \in Papers
         /\ Shows(PrintText(s, text), FoldLeft(Type, p, text))
<1> DEFINE n == Len(text)
<1>1. n \in Nat /\ \A k \in 1 .. n : text[k] \in Marks
  OBVIOUS
<1>2. PICK h : PutSteps(Screens, s, text, h)
  <2>1. \A t \in Screens : \A c \in Marks : PutChar(t, c) \in Screens
    BY CharPut
  <2>2. QED
    BY <2>1, PutTrace
<1>3. PICK g : TypeSteps(Papers, p, text, g)
  <2>1. \A q \in Papers : \A c \in Marks : Type(q, c) \in Papers
    BY TypeIn
  <2>2. QED
    BY <2>1, TypeTrace
<1>4. /\ h \in [0 .. n -> Screens] /\ h[0] = s /\ PrintText(s, text) = h[n]
      /\ \A k \in 1 .. n : h[k] = PutChar(h[k - 1], text[k])
  BY <1>2 DEF PutSteps, PrintText
<1>5. /\ g \in [0 .. n -> Papers] /\ g[0] = p /\ FoldLeft(Type, p, text) = g[n]
      /\ \A k \in 1 .. n : g[k] = Type(g[k - 1], text[k])
  BY <1>3 DEF TypeSteps
<1> DEFINE A == {k \in 0 .. n : Steady(h[k]) /\ Shows(h[k], g[k])}
<1> HIDE DEF n
<1>6. 0 \in A
  BY <1>1, <1>4, <1>5
<1>7. ASSUME NEW k \in 0 .. (n - 1), k \in A
      PROVE  k + 1 \in A
  <2>1. k + 1 \in 1 .. n /\ (k + 1) - 1 = k /\ k \in 0 .. n /\ k + 1 \in 0 .. n
    BY <1>1
  <2>2. h[k] \in Screens /\ g[k] \in Papers /\ text[k + 1] \in Marks
    BY <1>1, <1>4, <1>5, <2>1
  <2>3. h[k + 1] = PutChar(h[k], text[k + 1]) /\ g[k + 1] = Type(g[k], text[k + 1])
    BY <1>4, <1>5, <2>1
  <2>4. Steady(h[k + 1]) /\ Shows(h[k + 1], g[k + 1])
    BY <1>7, <2>2, <2>3, CharPut, PutType
  <2>5. QED
    BY <2>1, <2>4
<1>8. n \in A
  <2> HIDE DEF A
  <2>1. 0 .. n \subseteq A
    BY <1>1, <1>6, <1>7, UpTo
  <2>2. QED
    BY <1>1, <2>1
<1>9. QED
  BY <1>1, <1>4, <1>5, <1>8

(***************************************************************************)
(* What is typed later goes on the paper that was there.                   *)
(***************************************************************************)
LEMMA TypeOn ==
  ASSUME NEW p \in Papers, NEW a \in Seq(Marks), NEW b \in Seq(Marks)
  PROVE  /\ FoldLeft(Type, p, a) \in Papers
         /\ FoldLeft(Type, p, a \o b) = FoldLeft(Type, FoldLeft(Type, p, a), b)
<1> DEFINE n == Len(a)
           m == Len(b)
           q == FoldLeft(Type, p, a)
<1>1. /\ n \in Nat /\ m \in Nat /\ a \o b \in Seq(Marks) /\ Len(a \o b) = n + m
      /\ \A k \in 1 .. n : (a \o b)[k] = a[k]
      /\ \A k \in 1 .. m : (a \o b)[n + k] = b[k]
  OBVIOUS
<1>2. \A r \in Papers : \A c \in Marks : Type(r, c) \in Papers
  BY TypeIn
<1>3. PICK f : TypeSteps(Papers, p, a, f)
  BY <1>2, TypeTrace
<1>4. /\ f \in [0 .. n -> Papers] /\ f[0] = p /\ q = f[n]
      /\ \A k \in 1 .. n : f[k] = Type(f[k - 1], a[k])
  BY <1>3 DEF TypeSteps
<1> HIDE DEF n, m, q
<1>5. q \in Papers
  BY <1>1, <1>4
<1>6. PICK g : TypeSteps(Papers, q, b, g)
  BY <1>2, <1>5, TypeTrace
<1>7. /\ g \in [0 .. m -> Papers] /\ g[0] = q /\ FoldLeft(Type, q, b) = g[m]
      /\ \A k \in 1 .. m : g[k] = Type(g[k - 1], b[k])
  BY <1>6 DEF TypeSteps, m
<1>8. PICK h : TypeSteps(Papers, p, a \o b, h)
  BY <1>1, <1>2, TypeTrace
<1>9. /\ h[0] = p /\ FoldLeft(Type, p, a \o b) = h[n + m]
      /\ \A k \in 1 .. (n + m) : h[k] = Type(h[k - 1], (a \o b)[k])
  BY <1>1, <1>8 DEF TypeSteps
<1>10. n \in {k \in 0 .. n : h[k] = f[k]}
  <2> DEFINE A == {k \in 0 .. n : h[k] = f[k]}
  <2>1. 0 \in A
    BY <1>1, <1>4, <1>9
  <2>2. ASSUME NEW k \in 0 .. (n - 1), k \in A
        PROVE  k + 1 \in A
    <3>1. k + 1 \in 1 .. n /\ k + 1 \in 1 .. (n + m) /\ (k + 1) - 1 = k /\ k + 1 \in 0 .. n
      BY <1>1
    <3>2. h[k + 1] = Type(h[k], (a \o b)[k + 1]) /\ f[k + 1] = Type(f[k], a[k + 1])
          /\ (a \o b)[k + 1] = a[k + 1]
      BY <1>1, <1>4, <1>9, <3>1
    <3>3. QED
      BY <2>2, <3>1, <3>2
  <2> HIDE DEF A
  <2>3. 0 .. n \subseteq A
    BY <1>1, <2>1, <2>2, UpTo
  <2>4. QED
    BY <1>1, <2>3 DEF A
<1>11. m \in {k \in 0 .. m : h[n + k] = g[k]}
  <2> DEFINE A == {k \in 0 .. m : h[n + k] = g[k]}
  <2>1. 0 \in A
    BY <1>1, <1>4, <1>7, <1>10
  <2>2. ASSUME NEW k \in 0 .. (m - 1), k \in A
        PROVE  k + 1 \in A
    <3>1. k + 1 \in 1 .. m /\ n + (k + 1) \in 1 .. (n + m) /\ (k + 1) - 1 = k
          /\ k + 1 \in 0 .. m /\ (n + (k + 1)) - 1 = n + k
      BY <1>1
    <3>2. h[n + (k + 1)] = Type(h[n + k], (a \o b)[n + (k + 1)])
      BY <1>9, <3>1
    <3>3. g[k + 1] = Type(g[k], b[k + 1])
      BY <1>7, <3>1
    <3>4. (a \o b)[n + (k + 1)] = b[k + 1]
      BY <1>1, <3>1
    <3>5. QED
      BY <2>2, <3>1, <3>2, <3>3, <3>4
  <2> HIDE DEF A
  <2>3. 0 .. m \subseteq A
    BY <1>1, <2>1, <2>2, UpTo
  <2>4. QED
    BY <1>1, <2>3 DEF A
<1>12. QED
  BY <1>5, <1>7, <1>9, <1>11 DEF q

(***************************************************************************)
(* One more character.                                                     *)
(***************************************************************************)
LEMMA TypeOneOn ==
  ASSUME NEW p \in Papers, NEW a \in Seq(Marks), NEW c \in Marks
  PROVE  FoldLeft(Type, p, Append(a, c)) = Type(FoldLeft(Type, p, a), c)
<1> DEFINE q == FoldLeft(Type, p, a)
           text == <<c>>
<1>1. text \in Seq(Marks) /\ Len(text) = 1 /\ text[1] = c /\ Append(a, c) = a \o text
  OBVIOUS
<1> HIDE DEF text
<1>2. q \in Papers /\ FoldLeft(Type, p, a \o text) = FoldLeft(Type, q, text)
  BY <1>1, TypeOn
<1> HIDE DEF q
<1>3. \A r \in Papers : \A d \in Marks : Type(r, d) \in Papers
  BY TypeIn
<1>4. PICK h : TypeSteps(Papers, q, text, h)
  BY <1>1, <1>2, <1>3, TypeTrace
<1>5. h[0] = q /\ h[1] = Type(h[1 - 1], text[1]) /\ FoldLeft(Type, q, text) = h[1]
  BY <1>1, <1>4 DEF TypeSteps
<1>6. FoldLeft(Type, q, text) = Type(q, c)
  BY <1>1, <1>5
<1>7. QED
  BY <1>1, <1>2, <1>6 DEF q

-----------------------------------------------------------------------------
(* The inductive invariant: types, positions, the cursor's registers, the  *)
(* line.                                                                   *)

Kernels == [at : Places, next : 1 .. (Len(BootText) + 1), x : 0 .. W, y : 0 .. H,
            row : 0 .. (H - 1)]

Typed ==
  /\ vga \in Screens
  /\ kernel \in Kernels
  /\ pen \in [x : 0 .. (W - 1), y : 0 .. (H - 1)]
  /\ buffer \in Seq(Chars) /\ Len(buffer) <= BufMax
  /\ keys \in 0 .. MaxKeys
  /\ log \in Seq(Marks)
  /\ irq \in BOOLEAN /\ mixed \in BOOLEAN /\ spoiled \in BOOLEAN /\ torn \in BOOLEAN

InCursor == {"position", "index_high", "high", "index_low", "low"}

\* Where kernelMain is in PutChar, and what that says of the cursor, whoever
\* moved it last, and of the position it has loaded.
Placing ==
  /\ ~Done => kernel.next <= Len(BootText)
  /\ ~At("wrap?") /\ ~At("wrap") => vga.x < W
  /\ ~At("scroll?") /\ ~At("scroll") /\ ~At("last_line") => vga.y < H
  /\ kernel.at \in {"load_column", "store", "store_line"} \cup InCursor => kernel.y < H
  /\ kernel.at \in {"store", "store_x"} \cup (InCursor \ {"position"}) => kernel.x < W
  /\ ~At("scroll") => kernel.row = 0

\* The registers of the cursor.  Unless a key came between, they get the
\* position that was loaded, and that is where the next character goes.
Tracking ==
  /\ At("low") => vga.index = "low"
  /\ ~torn =>
       /\ Between => Tracked(vga)
       /\ kernel.at \in InCursor => kernel.y = vga.y
       /\ kernel.at \in InCursor \ {"position"} => kernel.x = vga.x
       /\ At("high") => vga.index = "high"
       /\ kernel.at \in {"index_low", "low"} => vga.high = Cell(vga.x, vga.y) \div PosBase

\* The characters of b stand before the cursor of s.
Stands(s, b) ==
  \A j \in 1 .. Len(b) :
    Cell(s.x, s.y) >= j => s.mem[Cell(s.x, s.y) - j] = b[Len(b) + 1 - j]

\* Before kernelMain is done, the first key spoils the line.
LineKept == ~spoiled => IF Done THEN Stands(vga, buffer) ELSE buffer = << >>

IInv == Typed /\ Placing /\ Tracking /\ LineKept

Screen(m, x, y) == vga.mem = m /\ vga.x = x /\ vga.y = y

\* kernelMain is putting its character on the screen s, with nothing in
\* between: p is the screen after the switch of PutChar, t the one after the
\* end of the line.
Midway(s, p, t) ==
  /\ Between => Screen(s.mem, s.x, s.y)
  /\ At("load_column") => Screen(s.mem, s.x, s.y) /\ kernel.y = s.y
  /\ At("store") => Screen(s.mem, s.x, s.y) /\ kernel.x = s.x /\ kernel.y = s.y
  /\ At("load_x") => Screen(p.mem, s.x, s.y)
  /\ At("store_x") => Screen(p.mem, s.x, s.y) /\ kernel.x = s.x
  /\ At("wrap?") => Screen(p.mem, p.x, p.y)
  /\ At("wrap") => Screen(p.mem, p.x, p.y) /\ p.x >= W
  /\ At("load_line") => Screen(t.mem, t.x, s.y) /\ t.y = s.y + 1
  /\ At("store_line") => Screen(t.mem, t.x, s.y) /\ t.y = s.y + 1 /\ kernel.y = s.y
  /\ At("scroll?") => Screen(t.mem, t.x, t.y)
  /\ At("scroll") => Screen(MovedUp(t.mem, kernel.row), t.x, t.y) /\ t.y >= H
  /\ At("last_line") => Screen(MovedUp(t.mem, H), t.x, t.y) /\ t.y >= H
  /\ kernel.at \in {"load_y"} \cup InCursor =>
       IF t.y >= H THEN Screen(MovedUp(t.mem, H), t.x, H - 1) ELSE Screen(t.mem, t.x, t.y)
  /\ kernel.at \in {"load_column", "store", "load_x", "store_x", "wrap?", "wrap"} =>
       Char # NewLine

\* What lemma PlacedAt says of p and t.
Fits(s, p, t) ==
  /\ t.mem = p.mem /\ t.mem \in [Cells -> Chars]
  /\ Char = NewLine => p.mem = s.mem /\ p.x = 0 /\ p.y = s.y + 1
  /\ Char # NewLine =>
       p.mem = [s.mem EXCEPT ![Cell(s.x, s.y)] = Char] /\ p.x = s.x + 1 /\ p.y = s.y
  /\ p.x >= W => t.x = 0 /\ t.y = p.y + 1
  /\ ~(p.x >= W) => t.x = p.x /\ t.y = p.y

GoesOn == \A s, p, t : Fits(s, p, t) /\ Midway(s, p, t) => Midway(s, p, t)'

(***************************************************************************)
(* An assignment to the characters keeps the type and the rest.            *)
(***************************************************************************)
LEMMA MemAssigned ==
  ASSUME NEW s \in Screens, NEW m \in [Cells -> Chars]
  PROVE  LET t == [s EXCEPT !.mem = m]
         IN  /\ t \in Screens /\ t.mem = m /\ t.x = s.x /\ t.y = s.y
             /\ t.index = s.index /\ t.high = s.high /\ t.low = s.low
<1>1. /\ s = [mem |-> s.mem, x |-> s.x, y |-> s.y, index |-> s.index,
              high |-> s.high, low |-> s.low]
      /\ s.mem \in [Cells -> Chars] /\ s.x \in 0 .. W /\ s.y \in 0 .. H
      /\ s.index \in {"high", "low"} /\ s.high \in 0 .. Top /\ s.low \in 0 .. (PosBase - 1)
      /\ s.x < W \/ s.y < H
  BY DEF Screens
<1>2. [s EXCEPT !.mem = m] =
        [mem |-> m, x |-> s.x, y |-> s.y, index |-> s.index, high |-> s.high, low |-> s.low]
  BY <1>1
<1>3. QED
  BY <1>1, <1>2 DEF Screens

(***************************************************************************)
(* An assignment to the column keeps the type and the rest.                *)
(***************************************************************************)
LEMMA XAssigned ==
  ASSUME NEW s \in Screens, NEW x \in 0 .. W, x < W \/ s.y < H
  PROVE  LET t == [s EXCEPT !.x = x]
         IN  /\ t \in Screens /\ t.mem = s.mem /\ t.x = x /\ t.y = s.y
             /\ t.index = s.index /\ t.high = s.high /\ t.low = s.low
<1>1. /\ s = [mem |-> s.mem, x |-> s.x, y |-> s.y, index |-> s.index,
              high |-> s.high, low |-> s.low]
      /\ s.mem \in [Cells -> Chars] /\ s.x \in 0 .. W /\ s.y \in 0 .. H
      /\ s.index \in {"high", "low"} /\ s.high \in 0 .. Top /\ s.low \in 0 .. (PosBase - 1)
      /\ s.x < W \/ s.y < H
  BY DEF Screens
<1>2. [s EXCEPT !.x = x] =
        [mem |-> s.mem, x |-> x, y |-> s.y, index |-> s.index, high |-> s.high, low |-> s.low]
  BY <1>1
<1>3. QED
  BY <1>1, <1>2 DEF Screens

(***************************************************************************)
(* An assignment to the row keeps the type and the rest.                   *)
(***************************************************************************)
LEMMA YAssigned ==
  ASSUME NEW s \in Screens, NEW y \in 0 .. H, s.x < W \/ y < H
  PROVE  LET t == [s EXCEPT !.y = y]
         IN  /\ t \in Screens /\ t.mem = s.mem /\ t.x = s.x /\ t.y = y
             /\ t.index = s.index /\ t.high = s.high /\ t.low = s.low
<1>1. /\ s = [mem |-> s.mem, x |-> s.x, y |-> s.y, index |-> s.index,
              high |-> s.high, low |-> s.low]
      /\ s.mem \in [Cells -> Chars] /\ s.x \in 0 .. W /\ s.y \in 0 .. H
      /\ s.index \in {"high", "low"} /\ s.high \in 0 .. Top /\ s.low \in 0 .. (PosBase - 1)
      /\ s.x < W \/ s.y < H
  BY DEF Screens
<1>2. [s EXCEPT !.y = y] =
        [mem |-> s.mem, x |-> s.x, y |-> y, index |-> s.index, high |-> s.high, low |-> s.low]
  BY <1>1
<1>3. QED
  BY <1>1, <1>2 DEF Screens

(***************************************************************************)
(* An assignment to the index register keeps the type and the rest.        *)
(***************************************************************************)
LEMMA IndexAssigned ==
  ASSUME NEW s \in Screens, NEW i \in {"high", "low"}
  PROVE  LET t == [s EXCEPT !.index = i]
         IN  /\ t \in Screens /\ t.mem = s.mem /\ t.x = s.x /\ t.y = s.y
             /\ t.index = i /\ t.high = s.high /\ t.low = s.low
<1>1. /\ s = [mem |-> s.mem, x |-> s.x, y |-> s.y, index |-> s.index,
              high |-> s.high, low |-> s.low]
      /\ s.mem \in [Cells -> Chars] /\ s.x \in 0 .. W /\ s.y \in 0 .. H
      /\ s.index \in {"high", "low"} /\ s.high \in 0 .. Top /\ s.low \in 0 .. (PosBase - 1)
      /\ s.x < W \/ s.y < H
  BY DEF Screens
<1>2. [s EXCEPT !.index = i] =
        [mem |-> s.mem, x |-> s.x, y |-> s.y, index |-> i, high |-> s.high, low |-> s.low]
  BY <1>1
<1>3. QED
  BY <1>1, <1>2 DEF Screens

(***************************************************************************)
(* An assignment to the high register keeps the type and the rest.         *)
(***************************************************************************)
LEMMA HighAssigned ==
  ASSUME NEW s \in Screens, NEW v \in 0 .. Top
  PROVE  LET t == [s EXCEPT !.high = v]
         IN  /\ t \in Screens /\ t.mem = s.mem /\ t.x = s.x /\ t.y = s.y
             /\ t.index = s.index /\ t.high = v /\ t.low = s.low
<1>1. /\ s = [mem |-> s.mem, x |-> s.x, y |-> s.y, index |-> s.index,
              high |-> s.high, low |-> s.low]
      /\ s.mem \in [Cells -> Chars] /\ s.x \in 0 .. W /\ s.y \in 0 .. H
      /\ s.index \in {"high", "low"} /\ s.high \in 0 .. Top /\ s.low \in 0 .. (PosBase - 1)
      /\ s.x < W \/ s.y < H
  BY DEF Screens
<1>2. [s EXCEPT !.high = v] =
        [mem |-> s.mem, x |-> s.x, y |-> s.y, index |-> s.index, high |-> v, low |-> s.low]
  BY <1>1
<1>3. QED
  BY <1>1, <1>2 DEF Screens

(***************************************************************************)
(* An assignment to the low register keeps the type and the rest.          *)
(***************************************************************************)
LEMMA LowAssigned ==
  ASSUME NEW s \in Screens, NEW v \in 0 .. (PosBase - 1)
  PROVE  LET t == [s EXCEPT !.low = v]
         IN  /\ t \in Screens /\ t.mem = s.mem /\ t.x = s.x /\ t.y = s.y
             /\ t.index = s.index /\ t.high = s.high /\ t.low = v
<1>1. /\ s = [mem |-> s.mem, x |-> s.x, y |-> s.y, index |-> s.index,
              high |-> s.high, low |-> s.low]
      /\ s.mem \in [Cells -> Chars] /\ s.x \in 0 .. W /\ s.y \in 0 .. H
      /\ s.index \in {"high", "low"} /\ s.high \in 0 .. Top /\ s.low \in 0 .. (PosBase - 1)
      /\ s.x < W \/ s.y < H
  BY DEF Screens
<1>2. [s EXCEPT !.low = v] =
        [mem |-> s.mem, x |-> s.x, y |-> s.y, index |-> s.index, high |-> s.high, low |-> v]
  BY <1>1
<1>3. QED
  BY <1>1, <1>2 DEF Screens

(***************************************************************************)
(* Assignments to the members of kernelMain keep its type.                 *)
(***************************************************************************)
LEMMA Loaded ==
  ASSUME NEW k \in Kernels, NEW p \in Places
  PROVE  /\ LET j == [k EXCEPT !.at = p]
            IN  /\ j \in Kernels /\ j.at = p /\ j.x = k.x /\ j.y = k.y
                /\ j.next = k.next /\ j.row = k.row
         /\ \A x \in 0 .. W :
              LET j == [k EXCEPT !.x = x, !.at = p]
              IN  /\ j \in Kernels /\ j.at = p /\ j.x = x /\ j.y = k.y
                  /\ j.next = k.next /\ j.row = k.row
         /\ \A y \in 0 .. H :
              LET j == [k EXCEPT !.y = y, !.at = p]
              IN  /\ j \in Kernels /\ j.at = p /\ j.x = k.x /\ j.y = y
                  /\ j.next = k.next /\ j.row = k.row
         /\ \A r \in 0 .. (H - 1) :
              LET j == [k EXCEPT !.row = r, !.at = p]
              IN  /\ j \in Kernels /\ j.at = p /\ j.x = k.x /\ j.y = k.y
                  /\ j.next = k.next /\ j.row = r
BY DEF Kernels

(***************************************************************************)
(* A row moving up leaves a screen.                                        *)
(***************************************************************************)
LEMMA RowUpIn ==
  ASSUME NEW m \in [Cells -> Chars], NEW r \in 0 .. (H - 1)
  PROVE  RowUp(m, r) \in [Cells -> Chars]
<1>1. \A c \in Cells : c \div W = r /\ r < H - 1 => c + W \in Cells
  BY ConsoleAssumption, CellBelow
<1>2. Space \in Chars
  BY DEF Chars
<1>3. QED
  BY <1>1, <1>2 DEF RowUp

(***************************************************************************)
(* Every step of PutChar but the last, whatever a key did since the one    *)
(* before.                                                                 *)
(***************************************************************************)
LEMMA StepKeeps ==
  ASSUME IInv, KernelStep, Step, UNCHANGED log
  PROVE  IInv' /\ GoesOn /\ kernel'.next = kernel.next
<1>1. /\ W \in Nat \ {0} /\ H \in Nat \ {0}
      /\ vga.x \in 0 .. W /\ vga.y \in 0 .. H /\ vga.mem \in [Cells -> Chars]
      /\ vga.index \in {"high", "low"} /\ vga.high \in 0 .. Top
      /\ vga.low \in 0 .. (PosBase - 1)
  BY ConsoleAssumption DEF IInv, Typed, Screens
<1>2. /\ kernel.at \in Places /\ kernel.next \in 1 .. (Len(BootText) + 1)
      /\ kernel.x \in 0 .. W /\ kernel.y \in 0 .. H /\ kernel.row \in 0 .. (H - 1)
  BY DEF IInv, Typed, Kernels
<1>3. vga \in Screens /\ kernel \in Kernels /\ Placing /\ Tracking
  BY DEF IInv, Typed
<1>4. torn' = (torn /\ ~At("char")) /\ torn \in BOOLEAN
  BY DEF IInv, Typed, KernelStep
<1>5. vga.x \in 0 .. W /\ vga.y \in 0 .. H
  BY <1>1
<1>6. 0 \in 0 .. W /\ 0 < W /\ 0 \in 0 .. (H - 1)
  BY <1>1
<1> DEFINE Fine == vga' \in Screens /\ kernel' \in Kernels /\ Placing' /\ Tracking'
                   /\ ~Done /\ ~Done' /\ GoesOn
                   /\ kernel'.next = kernel.next
<1> HIDE DEF Fine
<1>7. SUFFICES Fine
  BY <1>4 DEF IInv, Typed, LineKept, KernelStep, Fine
<1>8. CASE At("char") /\ Char = NewLine /\ vga' = [vga EXCEPT !.x = 0] /\ GoTo("load_line")
  <2>1. "load_line" \in Places
    BY DEF Places
  <2>2. /\ vga' \in Screens /\ vga'.x = 0 /\ vga'.y = vga.y /\ vga'.mem = vga.mem
        /\ vga'.index = vga.index /\ vga'.high = vga.high
    BY <1>3, <1>8, <1>6, XAssigned
  <2>3. /\ kernel' \in Kernels /\ kernel'.at = "load_line"
        /\ kernel'.x = kernel.x /\ kernel'.y = kernel.y
        /\ kernel'.next = kernel.next /\ kernel'.row = kernel.row
    BY <1>3, <1>8, <2>1, Loaded DEF GoTo
  <2>4. Placing'
    BY <1>1, <1>2, <1>3, <1>8, <2>2, <2>3 DEF Placing, Done, At, InCursor
  <2>5. Tracking' /\ ~Done /\ ~Done'
    BY <1>1, <1>3, <1>4, <1>8, <2>2, <2>3 DEF Tracking, Done, At, InCursor, Between
  <2>6. ASSUME NEW s, NEW p, NEW t, Fits(s, p, t), Midway(s, p, t)
       PROVE  Midway(s, p, t)'
    BY <1>1, <1>8, <2>2, <2>3, <2>6 DEF Fits, Midway, Screen, Char, At, Between, InCursor
  <2>7. QED
    BY <1>3, <1>8, <2>2, <2>3, <2>4, <2>5, <2>6 DEF Fine, GoesOn
<1>9. CASE At("char") /\ Char # NewLine /\ LoadY("load_column")
  <2>1. "load_column" \in Places
    BY DEF Places
  <2>2. /\ kernel' \in Kernels /\ kernel'.at = "load_column"
        /\ kernel'.x = kernel.x /\ kernel'.y = vga.y
        /\ kernel'.next = kernel.next /\ kernel'.row = kernel.row
    BY <1>3, <1>9, <1>5, <2>1 DEF LoadY, Kernels
  <2>3. Placing'
    BY <1>1, <1>2, <1>3, <1>9, <2>2 DEF Placing, Done, At, InCursor, LoadX, LoadY
  <2>4. Tracking' /\ ~Done /\ ~Done'
    BY <1>1, <1>3, <1>4, <1>9, <2>2 DEF Tracking, Done, At, InCursor, Between, LoadX, LoadY
  <2>5. ASSUME NEW s, NEW p, NEW t, Fits(s, p, t), Midway(s, p, t)
       PROVE  Midway(s, p, t)'
    BY <1>1, <1>9, <2>2, <2>5 DEF Fits, Midway, Screen, Char, At, Between, InCursor, LoadY
  <2>6. QED
    BY <1>3, <1>9, <2>2, <2>3, <2>4, <2>5 DEF Fine, GoesOn, LoadX, LoadY
<1>10. CASE At("load_column") /\ LoadX("store")
  <2>1. "store" \in Places
    BY DEF Places
  <2>2. /\ kernel' \in Kernels /\ kernel'.at = "store"
        /\ kernel'.x = vga.x /\ kernel'.y = kernel.y
        /\ kernel'.next = kernel.next /\ kernel'.row = kernel.row
    BY <1>3, <1>10, <1>5, <2>1 DEF LoadX, Kernels
  <2>3. Placing'
    BY <1>1, <1>2, <1>3, <1>10, <2>2 DEF Placing, Done, At, InCursor, LoadX, LoadY
  <2>4. Tracking' /\ ~Done /\ ~Done'
    BY <1>1, <1>3, <1>4, <1>10, <2>2 DEF Tracking, Done, At, InCursor, Between, LoadX, LoadY
  <2>5. ASSUME NEW s, NEW p, NEW t, Fits(s, p, t), Midway(s, p, t)
       PROVE  Midway(s, p, t)'
    BY <1>1, <1>10, <2>2, <2>5 DEF Fits, Midway, Screen, Char, At, Between, InCursor, LoadX
  <2>6. QED
    BY <1>3, <1>10, <2>2, <2>3, <2>4, <2>5 DEF Fine, GoesOn, LoadX, LoadY
<1>11. CASE At("store") /\ vga' = [vga EXCEPT !.mem[Cell(kernel.x, kernel.y)] = Char]
           /\ GoTo("load_x")
  <2>1. Char \in Chars
    BY <1>2, <1>3, <1>11, TextAssumption DEF Placing, Done, At, Char
  <2> DEFINE m == [vga.mem EXCEPT ![Cell(kernel.x, kernel.y)] = Char]
  <2>2. m \in [Cells -> Chars] /\ vga' = [vga EXCEPT !.mem = m]
    BY <1>1, <1>11, <2>1
  <2> HIDE DEF m
  <2>3. "load_x" \in Places
    BY DEF Places
  <2>4. /\ vga' \in Screens /\ vga'.x = vga.x /\ vga'.y = vga.y /\ vga'.mem = m
        /\ vga'.index = vga.index /\ vga'.high = vga.high
    BY <1>3, <2>2, MemAssigned
  <2>5. /\ kernel' \in Kernels /\ kernel'.at = "load_x"
        /\ kernel'.x = kernel.x /\ kernel'.y = kernel.y
        /\ kernel'.next = kernel.next /\ kernel'.row = kernel.row
    BY <1>3, <1>11, <2>3, Loaded DEF GoTo
  <2>6. Placing'
    BY <1>1, <1>2, <1>3, <1>11, <2>4, <2>5 DEF Placing, Done, At, InCursor
  <2>7. Tracking' /\ ~Done /\ ~Done'
    BY <1>1, <1>3, <1>4, <1>11, <2>4, <2>5 DEF Tracking, Done, At, InCursor, Between
  <2>8. ASSUME NEW s, NEW p, NEW t, Fits(s, p, t), Midway(s, p, t)
       PROVE  Midway(s, p, t)'
    BY <1>1, <1>11, <2>1, <2>2, <2>4, <2>5, <2>8
      DEF Fits, Midway, Screen, Char, At, Between, InCursor, m
  <2>9. QED
    BY <1>3, <1>11, <2>4, <2>5, <2>6, <2>7, <2>8 DEF Fine, GoesOn
<1>12. CASE At("load_x") /\ LoadX("store_x")
  <2>1. "store_x" \in Places
    BY DEF Places
  <2>2. /\ kernel' \in Kernels /\ kernel'.at = "store_x"
        /\ kernel'.x = vga.x /\ kernel'.y = kernel.y
        /\ kernel'.next = kernel.next /\ kernel'.row = kernel.row
    BY <1>3, <1>12, <1>5, <2>1 DEF LoadX, Kernels
  <2>3. Placing'
    BY <1>1, <1>2, <1>3, <1>12, <2>2 DEF Placing, Done, At, InCursor, LoadX, LoadY
  <2>4. Tracking' /\ ~Done /\ ~Done'
    BY <1>1, <1>3, <1>4, <1>12, <2>2 DEF Tracking, Done, At, InCursor, Between, LoadX, LoadY
  <2>5. ASSUME NEW s, NEW p, NEW t, Fits(s, p, t), Midway(s, p, t)
       PROVE  Midway(s, p, t)'
    BY <1>1, <1>12, <2>2, <2>5 DEF Fits, Midway, Screen, Char, At, Between, InCursor, LoadX
  <2>6. QED
    BY <1>3, <1>12, <2>2, <2>3, <2>4, <2>5 DEF Fine, GoesOn, LoadX, LoadY
<1>13. CASE At("store_x") /\ vga' = [vga EXCEPT !.x = kernel.x + 1] /\ GoTo("wrap?")
  <2>1. kernel.x + 1 \in 0 .. W /\ vga.y < H
    BY <1>1, <1>2, <1>3, <1>13, SMTT(30) DEF Placing, At
  <2>2. "wrap?" \in Places
    BY DEF Places
  <2>3. /\ vga' \in Screens /\ vga'.x = kernel.x + 1 /\ vga'.y = vga.y /\ vga'.mem = vga.mem
        /\ vga'.index = vga.index /\ vga'.high = vga.high
    BY <1>3, <1>13, <2>1, XAssigned
  <2>4. /\ kernel' \in Kernels /\ kernel'.at = "wrap?"
        /\ kernel'.x = kernel.x /\ kernel'.y = kernel.y
        /\ kernel'.next = kernel.next /\ kernel'.row = kernel.row
    BY <1>3, <1>13, <2>1, <2>2, Loaded DEF GoTo
  <2>5. Placing'
    BY <1>1, <1>2, <1>3, <1>13, <2>3, <2>4 DEF Placing, Done, At, InCursor
  <2>6. Tracking' /\ ~Done /\ ~Done'
    BY <1>1, <1>3, <1>4, <1>13, <2>3, <2>4 DEF Tracking, Done, At, InCursor, Between
  <2>7. ASSUME NEW s, NEW p, NEW t, Fits(s, p, t), Midway(s, p, t)
       PROVE  Midway(s, p, t)'
    BY <1>1, <1>13, <2>3, <2>4, <2>7 DEF Fits, Midway, Screen, Char, At, Between, InCursor
  <2>8. QED
    BY <1>3, <1>13, <2>3, <2>4, <2>5, <2>6, <2>7 DEF Fine, GoesOn
<1>14. CASE At("wrap?") /\ GoTo("wrap") /\ PastEnd(vga.x) /\ UNCHANGED vga
  <2>1. "wrap" \in Places
    BY DEF Places
  <2>2. /\ kernel' \in Kernels /\ kernel'.at = "wrap"
        /\ kernel'.x = kernel.x /\ kernel'.y = kernel.y
        /\ kernel'.next = kernel.next /\ kernel'.row = kernel.row
    BY <1>3, <1>14, <2>1, Loaded DEF GoTo
  <2>3. Placing'
    BY <1>1, <1>2, <1>3, <1>14, <2>2 DEF Placing, Done, At, InCursor, LoadX, LoadY
  <2>4. Tracking' /\ ~Done /\ ~Done'
    BY <1>1, <1>3, <1>4, <1>14, <2>2 DEF Tracking, Done, At, InCursor, Between, LoadX, LoadY
  <2>5. ASSUME NEW s, NEW p, NEW t, Fits(s, p, t), Midway(s, p, t)
       PROVE  Midway(s, p, t)'
    BY <1>1, <1>14, <2>2, <2>5 DEF Fits, Midway, Screen, Char, At, Between, InCursor, PastEnd
  <2>6. QED
    BY <1>3, <1>14, <2>2, <2>3, <2>4, <2>5 DEF Fine, GoesOn, LoadX, LoadY
<1>15. CASE At("wrap?") /\ GoTo("scroll?") /\ ~PastEnd(vga.x) /\ UNCHANGED vga
  <2>1. "scroll?" \in Places
    BY DEF Places
  <2>2. /\ kernel' \in Kernels /\ kernel'.at = "scroll?"
        /\ kernel'.x = kernel.x /\ kernel'.y = kernel.y
        /\ kernel'.next = kernel.next /\ kernel'.row = kernel.row
    BY <1>3, <1>15, <2>1, Loaded DEF GoTo
  <2>3. Placing'
    BY <1>1, <1>2, <1>3, <1>15, <2>2 DEF Placing, Done, At, InCursor, PastEnd, LoadX, LoadY
  <2>4. Tracking' /\ ~Done /\ ~Done'
    BY <1>1, <1>3, <1>4, <1>15, <2>2 DEF Tracking, Done, At, InCursor, Between, LoadX, LoadY
  <2>5. ASSUME NEW s, NEW p, NEW t, Fits(s, p, t), Midway(s, p, t)
       PROVE  Midway(s, p, t)'
    BY <1>1, <1>15, <2>2, <2>5 DEF Fits, Midway, Screen, Char, At, Between, InCursor, PastEnd
  <2>6. QED
    BY <1>3, <1>15, <2>2, <2>3, <2>4, <2>5 DEF Fine, GoesOn, LoadX, LoadY
<1>16. CASE At("wrap") /\ vga' = [vga EXCEPT !.x = 0] /\ GoTo("load_line")
  <2>1. "load_line" \in Places
    BY DEF Places
  <2>2. /\ vga' \in Screens /\ vga'.x = 0 /\ vga'.y = vga.y /\ vga'.mem = vga.mem
        /\ vga'.index = vga.index /\ vga'.high = vga.high
    BY <1>3, <1>16, <1>6, XAssigned
  <2>3. /\ kernel' \in Kernels /\ kernel'.at = "load_line"
        /\ kernel'.x = kernel.x /\ kernel'.y = kernel.y
        /\ kernel'.next = kernel.next /\ kernel'.row = kernel.row
    BY <1>3, <1>16, <2>1, Loaded DEF GoTo
  <2>4. Placing'
    BY <1>1, <1>2, <1>3, <1>16, <2>2, <2>3 DEF Placing, Done, At, InCursor
  <2>5. Tracking' /\ ~Done /\ ~Done'
    BY <1>1, <1>3, <1>4, <1>16, <2>2, <2>3 DEF Tracking, Done, At, InCursor, Between
  <2>6. ASSUME NEW s, NEW p, NEW t, Fits(s, p, t), Midway(s, p, t)
       PROVE  Midway(s, p, t)'
    BY <1>1, <1>16, <2>2, <2>3, <2>6 DEF Fits, Midway, Screen, Char, At, Between, InCursor
  <2>7. QED
    BY <1>3, <1>16, <2>2, <2>3, <2>4, <2>5, <2>6 DEF Fine, GoesOn
<1>17. CASE At("load_line") /\ LoadY("store_line")
  <2>1. "store_line" \in Places
    BY DEF Places
  <2>2. /\ kernel' \in Kernels /\ kernel'.at = "store_line"
        /\ kernel'.x = kernel.x /\ kernel'.y = vga.y
        /\ kernel'.next = kernel.next /\ kernel'.row = kernel.row
    BY <1>3, <1>17, <1>5, <2>1 DEF LoadY, Kernels
  <2>3. Placing'
    BY <1>1, <1>2, <1>3, <1>17, <2>2 DEF Placing, Done, At, InCursor, LoadX, LoadY
  <2>4. Tracking' /\ ~Done /\ ~Done'
    BY <1>1, <1>3, <1>4, <1>17, <2>2 DEF Tracking, Done, At, InCursor, Between, LoadX, LoadY
  <2>5. ASSUME NEW s, NEW p, NEW t, Fits(s, p, t), Midway(s, p, t)
       PROVE  Midway(s, p, t)'
    BY <1>1, <1>17, <2>2, <2>5 DEF Fits, Midway, Screen, Char, At, Between, InCursor, LoadY
  <2>6. QED
    BY <1>3, <1>17, <2>2, <2>3, <2>4, <2>5 DEF Fine, GoesOn, LoadX, LoadY
<1>18. CASE At("store_line") /\ vga' = [vga EXCEPT !.y = kernel.y + 1] /\ GoTo("scroll?")
  <2>1. kernel.y + 1 \in 0 .. H /\ vga.x < W
    BY <1>1, <1>2, <1>3, <1>18, SMTT(30) DEF Placing, At
  <2>2. "scroll?" \in Places
    BY DEF Places
  <2>3. /\ vga' \in Screens /\ vga'.x = vga.x /\ vga'.y = kernel.y + 1 /\ vga'.mem = vga.mem
        /\ vga'.index = vga.index /\ vga'.high = vga.high
    BY <1>3, <1>18, <2>1, YAssigned
  <2>4. /\ kernel' \in Kernels /\ kernel'.at = "scroll?"
        /\ kernel'.x = kernel.x /\ kernel'.y = kernel.y
        /\ kernel'.next = kernel.next /\ kernel'.row = kernel.row
    BY <1>3, <1>18, <2>1, <2>2, Loaded DEF GoTo
  <2>5. Placing'
    BY <1>1, <1>2, <1>3, <1>18, <2>3, <2>4 DEF Placing, Done, At, InCursor
  <2>6. Tracking' /\ ~Done /\ ~Done'
    BY <1>1, <1>3, <1>4, <1>18, <2>3, <2>4 DEF Tracking, Done, At, InCursor, Between
  <2>7. ASSUME NEW s, NEW p, NEW t, Fits(s, p, t), Midway(s, p, t)
       PROVE  Midway(s, p, t)'
    BY <1>1, <1>18, <2>3, <2>4, <2>7 DEF Fits, Midway, Screen, Char, At, Between, InCursor
  <2>8. QED
    BY <1>3, <1>18, <2>3, <2>4, <2>5, <2>6, <2>7 DEF Fine, GoesOn
<1>19. CASE At("scroll?") /\ GoTo("scroll") /\ vga.y >= H /\ UNCHANGED vga
  <2>1. "scroll" \in Places
    BY DEF Places
  <2>2. /\ kernel' \in Kernels /\ kernel'.at = "scroll"
        /\ kernel'.x = kernel.x /\ kernel'.y = kernel.y
        /\ kernel'.next = kernel.next /\ kernel'.row = kernel.row
    BY <1>3, <1>19, <2>1, Loaded DEF GoTo
  <2>3. Placing'
    BY <1>1, <1>2, <1>3, <1>19, <2>2 DEF Placing, Done, At, InCursor, LoadX, LoadY
  <2>4. Tracking' /\ ~Done /\ ~Done'
    BY <1>1, <1>3, <1>4, <1>19, <2>2 DEF Tracking, Done, At, InCursor, Between, LoadX, LoadY
  <2>5. ASSUME NEW s, NEW p, NEW t, Fits(s, p, t), Midway(s, p, t)
       PROVE  Midway(s, p, t)'
    <3>1. t.mem \in [Cells -> Chars] /\ 0 \in 0 .. (H - 1)
      BY <1>6, <2>5 DEF Fits
    <3>2. MovedUp(t.mem, 0) = t.mem
      BY <3>1, RowUpMoves
    <3>3. kernel.row = 0
      BY <1>3, <1>19 DEF Placing, At
    <3>4. QED
      BY <1>19, <2>2, <2>5, <3>2, <3>3 DEF Fits, Midway, Screen, Char, At, Between, InCursor
  <2>6. QED
    BY <1>3, <1>19, <2>2, <2>3, <2>4, <2>5 DEF Fine, GoesOn, LoadX, LoadY
<1>20. CASE At("scroll?") /\ GoTo("load_y") /\ ~(vga.y >= H) /\ UNCHANGED vga
  <2>1. "load_y" \in Places
    BY DEF Places
  <2>2. /\ kernel' \in Kernels /\ kernel'.at = "load_y"
        /\ kernel'.x = kernel.x /\ kernel'.y = kernel.y
        /\ kernel'.next = kernel.next /\ kernel'.row = kernel.row
    BY <1>3, <1>20, <2>1, Loaded DEF GoTo
  <2>3. Placing'
    BY <1>1, <1>2, <1>3, <1>20, <2>2 DEF Placing, Done, At, InCursor, LoadX, LoadY
  <2>4. Tracking' /\ ~Done /\ ~Done'
    BY <1>1, <1>3, <1>4, <1>20, <2>2 DEF Tracking, Done, At, InCursor, Between, LoadX, LoadY
  <2>5. ASSUME NEW s, NEW p, NEW t, Fits(s, p, t), Midway(s, p, t)
       PROVE  Midway(s, p, t)'
    BY <1>1, <1>20, <2>2, <2>5 DEF Fits, Midway, Screen, Char, At, Between, InCursor
  <2>6. QED
    BY <1>3, <1>20, <2>2, <2>3, <2>4, <2>5 DEF Fine, GoesOn, LoadX, LoadY
<1>21. CASE At("scroll") /\ vga' = [vga EXCEPT !.mem = RowUp(@, kernel.row)]
           /\ kernel.row = H - 1
           /\ kernel' = [kernel EXCEPT !.row = 0, !.at = "last_line"]
  <2>1. RowUp(vga.mem, kernel.row) \in [Cells -> Chars]
    BY <1>1, <1>2, RowUpIn
  <2>2. "last_line" \in Places
    BY DEF Places
  <2>3. /\ vga' \in Screens /\ vga'.x = vga.x /\ vga'.y = vga.y
        /\ vga'.mem = RowUp(vga.mem, kernel.row)
        /\ vga'.index = vga.index /\ vga'.high = vga.high
    BY <1>3, <1>21, <2>1, MemAssigned
  <2>4. /\ kernel' \in Kernels /\ kernel'.at = "last_line"
        /\ kernel'.x = kernel.x /\ kernel'.y = kernel.y
        /\ kernel'.next = kernel.next /\ kernel'.row = 0
    BY <1>3, <1>21, <2>1, <1>6, <2>2 DEF Kernels
  <2>5. Placing'
    BY <1>1, <1>2, <1>3, <1>21, <2>3, <2>4 DEF Placing, Done, At, InCursor
  <2>6. Tracking' /\ ~Done /\ ~Done'
    BY <1>1, <1>3, <1>4, <1>21, <2>3, <2>4 DEF Tracking, Done, At, InCursor, Between
  <2>7. ASSUME NEW s, NEW p, NEW t, Fits(s, p, t), Midway(s, p, t)
       PROVE  Midway(s, p, t)'
    <3>1. t.mem \in [Cells -> Chars] /\ vga.mem = MovedUp(t.mem, kernel.row)
      BY <1>21, <2>7 DEF Fits, Midway, Screen, At
    <3>2. vga'.mem = MovedUp(t.mem, kernel.row + 1)
      BY <1>2, <2>3, <2>4, <3>1, RowUpMoves
    <3>3. kernel.row = H - 1 => kernel.row + 1 = H
      BY <1>1
    <3>4. QED
      BY <1>21, <2>3, <2>4, <2>7, <3>2, <3>3 DEF Fits, Midway, Screen, Char, At, Between, InCursor
  <2>8. QED
    BY <1>3, <1>21, <2>3, <2>4, <2>5, <2>6, <2>7 DEF Fine, GoesOn
<1>22. CASE At("scroll") /\ vga' = [vga EXCEPT !.mem = RowUp(@, kernel.row)]
           /\ kernel.row # H - 1
           /\ kernel' = [kernel EXCEPT !.row = kernel.row + 1, !.at = "scroll"]
  <2>1. RowUp(vga.mem, kernel.row) \in [Cells -> Chars]
    BY <1>1, <1>2, RowUpIn
  <2>2. kernel.row + 1 \in 0 .. (H - 1)
    BY <1>1, <1>2, <1>22
  <2>3. "scroll" \in Places
    BY DEF Places
  <2>4. /\ vga' \in Screens /\ vga'.x = vga.x /\ vga'.y = vga.y
        /\ vga'.mem = RowUp(vga.mem, kernel.row)
        /\ vga'.index = vga.index /\ vga'.high = vga.high
    BY <1>3, <1>22, <2>1, MemAssigned
  <2>5. /\ kernel' \in Kernels /\ kernel'.at = "scroll"
        /\ kernel'.x = kernel.x /\ kernel'.y = kernel.y
        /\ kernel'.next = kernel.next /\ kernel'.row = kernel.row + 1
    BY <1>3, <1>22, <2>1, <2>2, <2>3 DEF Kernels
  <2>6. Placing'
    BY <1>1, <1>2, <1>3, <1>22, <2>4, <2>5 DEF Placing, Done, At, InCursor
  <2>7. Tracking' /\ ~Done /\ ~Done'
    BY <1>1, <1>3, <1>4, <1>22, <2>4, <2>5 DEF Tracking, Done, At, InCursor, Between
  <2>8. ASSUME NEW s, NEW p, NEW t, Fits(s, p, t), Midway(s, p, t)
       PROVE  Midway(s, p, t)'
    <3>1. t.mem \in [Cells -> Chars] /\ vga.mem = MovedUp(t.mem, kernel.row)
      BY <1>22, <2>8 DEF Fits, Midway, Screen, At
    <3>2. vga'.mem = MovedUp(t.mem, kernel.row + 1)
      BY <1>2, <2>4, <2>5, <3>1, RowUpMoves
    <3>3. kernel.row = H - 1 => kernel.row + 1 = H
      BY <1>1
    <3>4. QED
      BY <1>22, <2>4, <2>5, <2>8, <3>2, <3>3 DEF Fits, Midway, Screen, Char, At, Between, InCursor
  <2>9. QED
    BY <1>3, <1>22, <2>4, <2>5, <2>6, <2>7, <2>8 DEF Fine, GoesOn
<1>23. CASE At("last_line") /\ vga' = [vga EXCEPT !.y = H - 1] /\ GoTo("load_y")
  <2>1. H - 1 \in 0 .. H /\ vga.x < W
    BY <1>1, <1>2, <1>3, <1>23 DEF Placing, At
  <2>2. "load_y" \in Places
    BY DEF Places
  <2>3. /\ vga' \in Screens /\ vga'.x = vga.x /\ vga'.y = H - 1 /\ vga'.mem = vga.mem
        /\ vga'.index = vga.index /\ vga'.high = vga.high
    BY <1>3, <1>23, <2>1, YAssigned
  <2>4. /\ kernel' \in Kernels /\ kernel'.at = "load_y"
        /\ kernel'.x = kernel.x /\ kernel'.y = kernel.y
        /\ kernel'.next = kernel.next /\ kernel'.row = kernel.row
    BY <1>3, <1>23, <2>1, <2>2, Loaded DEF GoTo
  <2>5. Placing'
    BY <1>1, <1>2, <1>3, <1>23, <2>3, <2>4 DEF Placing, Done, At, InCursor
  <2>6. Tracking' /\ ~Done /\ ~Done'
    BY <1>1, <1>3, <1>4, <1>23, <2>3, <2>4 DEF Tracking, Done, At, InCursor, Between
  <2>7. ASSUME NEW s, NEW p, NEW t, Fits(s, p, t), Midway(s, p, t)
       PROVE  Midway(s, p, t)'
    BY <1>1, <1>23, <2>3, <2>4, <2>7 DEF Fits, Midway, Screen, Char, At, Between, InCursor
  <2>8. QED
    BY <1>3, <1>23, <2>3, <2>4, <2>5, <2>6, <2>7 DEF Fine, GoesOn
<1>24. CASE At("load_y") /\ LoadY("position")
  <2>1. "position" \in Places
    BY DEF Places
  <2>2. /\ kernel' \in Kernels /\ kernel'.at = "position"
        /\ kernel'.x = kernel.x /\ kernel'.y = vga.y
        /\ kernel'.next = kernel.next /\ kernel'.row = kernel.row
    BY <1>3, <1>24, <1>5, <2>1 DEF LoadY, Kernels
  <2>3. Placing'
    BY <1>1, <1>2, <1>3, <1>24, <2>2 DEF Placing, Done, At, InCursor, LoadX, LoadY
  <2>4. Tracking' /\ ~Done /\ ~Done'
    BY <1>1, <1>3, <1>4, <1>24, <2>2 DEF Tracking, Done, At, InCursor, Between, LoadX, LoadY
  <2>5. ASSUME NEW s, NEW p, NEW t, Fits(s, p, t), Midway(s, p, t)
       PROVE  Midway(s, p, t)'
    BY <1>1, <1>24, <2>2, <2>5 DEF Fits, Midway, Screen, Char, At, Between, InCursor, LoadY
  <2>6. QED
    BY <1>3, <1>24, <2>2, <2>3, <2>4, <2>5 DEF Fine, GoesOn, LoadX, LoadY
<1>25. CASE At("position") /\ LoadX("index_high")
  <2>1. "index_high" \in Places
    BY DEF Places
  <2>2. /\ kernel' \in Kernels /\ kernel'.at = "index_high"
        /\ kernel'.x = vga.x /\ kernel'.y = kernel.y
        /\ kernel'.next = kernel.next /\ kernel'.row = kernel.row
    BY <1>3, <1>25, <1>5, <2>1 DEF LoadX, Kernels
  <2>3. Placing'
    BY <1>1, <1>2, <1>3, <1>25, <2>2 DEF Placing, Done, At, InCursor, LoadX, LoadY
  <2>4. Tracking' /\ ~Done /\ ~Done'
    BY <1>1, <1>3, <1>4, <1>25, <2>2 DEF Tracking, Done, At, InCursor, Between, LoadX, LoadY
  <2>5. ASSUME NEW s, NEW p, NEW t, Fits(s, p, t), Midway(s, p, t)
       PROVE  Midway(s, p, t)'
    BY <1>1, <1>25, <2>2, <2>5 DEF Fits, Midway, Screen, Char, At, Between, InCursor, LoadX
  <2>6. QED
    BY <1>3, <1>25, <2>2, <2>3, <2>4, <2>5 DEF Fine, GoesOn, LoadX, LoadY
<1>26. CASE At("index_high") /\ vga' = [vga EXCEPT !.index = "high"] /\ GoTo("high")
  <2>1. "high" \in Places
    BY DEF Places
  <2>2. /\ vga' \in Screens /\ vga'.x = vga.x /\ vga'.y = vga.y /\ vga'.mem = vga.mem
        /\ vga'.index = "high" /\ vga'.high = vga.high
    BY <1>3, <1>26, IndexAssigned
  <2>3. /\ kernel' \in Kernels /\ kernel'.at = "high"
        /\ kernel'.x = kernel.x /\ kernel'.y = kernel.y
        /\ kernel'.next = kernel.next /\ kernel'.row = kernel.row
    BY <1>3, <1>26, <2>1, Loaded DEF GoTo
  <2>4. Placing'
    BY <1>1, <1>2, <1>3, <1>26, <2>2, <2>3 DEF Placing, Done, At, InCursor
  <2>5. Tracking' /\ ~Done /\ ~Done'
    BY <1>1, <1>3, <1>4, <1>26, <2>2, <2>3 DEF Tracking, Done, At, InCursor, Between
  <2>6. ASSUME NEW s, NEW p, NEW t, Fits(s, p, t), Midway(s, p, t)
       PROVE  Midway(s, p, t)'
    BY <1>1, <1>26, <2>2, <2>3, <2>6 DEF Fits, Midway, Screen, Char, At, Between, InCursor
  <2>7. QED
    BY <1>3, <1>26, <2>2, <2>3, <2>4, <2>5, <2>6 DEF Fine, GoesOn
<1>27. CASE /\ At("high") /\ GoTo("index_low")
           /\ vga' = [vga EXCEPT ![vga.index] = Cell(kernel.x, kernel.y) \div PosBase]
  <2>1. Cell(kernel.x, kernel.y) \in 0 .. (W * (H + 1)) /\ Cell(kernel.x, kernel.y) \in Cells
    BY <1>1, <1>2, <1>3, <1>27, CellIn DEF Placing, At, InCursor
  <2> DEFINE v == Cell(kernel.x, kernel.y) \div PosBase
  <2>2. v \in 0 .. Top /\ v \in 0 .. (PosBase - 1)
    <3>1. Cell(kernel.x, kernel.y) < W * (H + 1)
      BY <2>1, ConsoleAssumption DEF Cells
    <3>2. QED
      BY <2>1, <3>1, Registers, ConsoleAssumption
  <2> HIDE DEF v
  <2>3. /\ kernel' \in Kernels /\ kernel'.at = "index_low" /\ kernel'.x = kernel.x
        /\ kernel'.y = kernel.y /\ kernel'.next = kernel.next /\ kernel'.row = kernel.row
    <3>1. "index_low" \in Places
      BY DEF Places
    <3>2. QED
      BY <1>3, <1>27, <3>1, Loaded DEF GoTo
  <2>4. /\ vga' \in Screens /\ vga'.x = vga.x /\ vga'.y = vga.y /\ vga'.mem = vga.mem
        /\ vga.index = "high" => vga'.high = v
    <3>1. CASE vga.index = "high"
      <4>1. vga' = [vga EXCEPT !.high = v]
        BY <1>27, <3>1 DEF v
      <4>2. QED
        BY <1>3, <2>2, <4>1, HighAssigned
    <3>2. CASE vga.index = "low"
      <4>1. vga' = [vga EXCEPT !.low = v]
        BY <1>27, <3>2 DEF v
      <4>2. QED
        BY <1>3, <2>2, <3>2, <4>1, LowAssigned
    <3>3. QED
      BY <1>1, <3>1, <3>2
  <2>5. Placing'
    BY <1>1, <1>2, <1>3, <1>27, <2>3, <2>4 DEF Placing, Done, At, InCursor
  <2>6. Tracking' /\ ~Done /\ ~Done'
    BY <1>3, <1>4, <1>27, <2>3, <2>4 DEF Tracking, Done, At, InCursor, Between, v
  <2>7. ASSUME NEW s, NEW p, NEW t, Fits(s, p, t), Midway(s, p, t)
       PROVE  Midway(s, p, t)'
    BY <1>1, <1>27, <2>3, <2>4, <2>7 DEF Fits, Midway, Screen, Char, At, Between, InCursor
  <2>8. QED
    BY <2>3, <2>4, <2>5, <2>6, <2>7 DEF Fine, GoesOn
<1>28. CASE At("index_low") /\ vga' = [vga EXCEPT !.index = "low"] /\ GoTo("low")
  <2>1. "low" \in Places
    BY DEF Places
  <2>2. /\ vga' \in Screens /\ vga'.x = vga.x /\ vga'.y = vga.y /\ vga'.mem = vga.mem
        /\ vga'.index = "low" /\ vga'.high = vga.high
    BY <1>3, <1>28, IndexAssigned
  <2>3. /\ kernel' \in Kernels /\ kernel'.at = "low"
        /\ kernel'.x = kernel.x /\ kernel'.y = kernel.y
        /\ kernel'.next = kernel.next /\ kernel'.row = kernel.row
    BY <1>3, <1>28, <2>1, Loaded DEF GoTo
  <2>4. Placing'
    BY <1>1, <1>2, <1>3, <1>28, <2>2, <2>3 DEF Placing, Done, At, InCursor
  <2>5. Tracking' /\ ~Done /\ ~Done'
    BY <1>1, <1>3, <1>4, <1>28, <2>2, <2>3 DEF Tracking, Done, At, InCursor, Between
  <2>6. ASSUME NEW s, NEW p, NEW t, Fits(s, p, t), Midway(s, p, t)
       PROVE  Midway(s, p, t)'
    BY <1>1, <1>28, <2>2, <2>3, <2>6 DEF Fits, Midway, Screen, Char, At, Between, InCursor
  <2>7. QED
    BY <1>3, <1>28, <2>2, <2>3, <2>4, <2>5, <2>6 DEF Fine, GoesOn
<1>29. QED
  <2> HIDE DEF Fine
  <2>1. (kernel.row + 1) % H = IF kernel.row = H - 1 THEN 0 ELSE kernel.row + 1
    <3>1. CASE kernel.row = H - 1
      <4>1. kernel.row + 1 = H /\ H % H = 0
        BY <1>1, <3>1
      <4>2. QED
        BY <3>1, <4>1
    <3>2. CASE kernel.row # H - 1
      <4> DEFINE r == kernel.row + 1
      <4>1. r \in 0 .. (H - 1)
        BY <1>1, <1>2, <3>2, SMTT(30)
      <4> HIDE DEF r
      <4>2. r % H = r
        BY <1>1, <4>1
      <4>3. QED
        BY <3>2, <4>2 DEF r
    <3>3. QED
      BY <3>1, <3>2
  <2>2. CASE /\ At("wrap?") /\ UNCHANGED vga
             /\ GoTo(IF PastEnd(vga.x) THEN "wrap" ELSE "scroll?")
    BY <1>14, <1>15, <2>2
  <2>3. CASE At("scroll?") /\ GoTo(IF vga.y >= H THEN "scroll" ELSE "load_y") /\ UNCHANGED vga
    BY <1>19, <1>20, <2>3
  <2>4. CASE /\ At("scroll") /\ vga' = [vga EXCEPT !.mem = RowUp(@, kernel.row)]
             /\ kernel' = [kernel EXCEPT !.row = (@ + 1) % H,
                             !.at = IF kernel.row = H - 1 THEN "last_line" ELSE "scroll"]
    BY <1>21, <1>22, <2>1, <2>4
  <2>5. QED
    BY <1>8, <1>9, <1>10, <1>11, <1>12, <1>13, <1>14, <1>15, <1>16, <1>17, <1>18, <1>19, <1>20,
       <1>21, <1>22, <1>23, <1>24, <1>25, <1>26, <1>27, <1>28, <2>2, <2>3, <2>4 DEF Step

(***************************************************************************)
(* The last step of PutChar, to the next character.                        *)
(***************************************************************************)
LEMMA LastStepKeeps ==
  ASSUME IInv, KernelStep, LastStep
  PROVE  IInv'
<1>1. /\ vga \in Screens /\ kernel \in Kernels /\ Placing /\ Tracking /\ LineKept
      /\ log \in Seq(Marks) /\ mixed \in BOOLEAN
  BY DEF IInv, Typed
<1>2. At("low") /\ vga.index = "low" /\ ~Done /\ ~Between /\ kernel.at \in InCursor
  BY <1>1 DEF LastStep, Tracking, At, Done, Between, InCursor
<1>3. kernel.next <= Len(BootText) /\ kernel.next \in 1 .. (Len(BootText) + 1)
  BY <1>1, <1>2 DEF Placing, Kernels
<1>4. kernel.x \in 0 .. W /\ kernel.y \in 0 .. H /\ kernel.x < W /\ kernel.y < H
  BY <1>1, <1>2 DEF Placing, Kernels, InCursor, At
<1> DEFINE p == Cell(kernel.x, kernel.y)
           v == p % PosBase
<1>5. p \in 0 .. (W * (H + 1))
  BY <1>4, CellIn
<1>6. v \in 0 .. (PosBase - 1) /\ (p \div PosBase) * PosBase + v = p
  BY <1>5, Registers
<1>7. vga' = [vga EXCEPT !.low = v]
  BY <1>2 DEF LastStep
<1>8. /\ vga' \in Screens /\ vga'.x = vga.x /\ vga'.y = vga.y
      /\ vga'.index = vga.index /\ vga'.high = vga.high /\ vga'.low = v
  <2> HIDE DEF v
  <2>1. QED
    BY <1>1, <1>6, <1>7, LowAssigned
<1>9. /\ kernel' \in Kernels /\ kernel'.row = kernel.row
      /\ kernel'.at = IF kernel.next = Len(BootText) THEN "done" ELSE "char"
      /\ kernel'.next = kernel.next + 1
  <2> DEFINE to == IF kernel.next = Len(BootText) THEN "done" ELSE "char"
  <2>1. to \in Places
    BY DEF Places
  <2>2. kernel.next + 1 \in 1 .. (Len(BootText) + 1)
    BY <1>3, TextAssumption
  <2>3. 0 \in 0 .. W /\ 0 \in 0 .. H
    BY ConsoleAssumption
  <2>4. kernel' = [kernel EXCEPT !.next = kernel.next + 1, !.x = 0, !.y = 0, !.at = to]
    BY DEF LastStep
  <2> HIDE DEF to
  <2>5. kernel' \in Kernels /\ kernel'.row = kernel.row /\ kernel'.at = to
        /\ kernel'.next = kernel.next + 1
    BY <1>1, <2>1, <2>2, <2>3, <2>4 DEF Kernels
  <2>6. QED
    BY <2>5 DEF to
<1>10. Placing'
  BY <1>1, <1>2, <1>3, <1>8, <1>9, TextAssumption DEF Placing, Done, At, InCursor
<1>11. torn' = torn
  BY <1>1, <1>2 DEF KernelStep, At, IInv, Typed
<1>12. Tracking'
  <2>1. SUFFICES ASSUME ~torn PROVE Tracked(vga')
    BY <1>9, <1>11 DEF Tracking, At, InCursor
  <2>2. kernel.x = vga.x /\ kernel.y = vga.y /\ vga.high = Cell(vga.x, vga.y) \div PosBase
    BY <1>1, <1>2, <2>1 DEF Tracking, At, InCursor
  <2>3. QED
    BY <1>2, <1>6, <1>8, <2>2 DEF Tracked
<1>13. log' \in Seq(Marks)
  <2>1. Char \in Marks
    BY <1>3, TextAssumption DEF Char, Marks
  <2>2. QED
    BY <1>1, <2>1 DEF LastStep
<1>14. LineKept'
  BY <1>1, <1>2 DEF LineKept, KernelStep, Stands
<1>15. QED
  BY <1>8, <1>9, <1>10, <1>12, <1>13, <1>14 DEF IInv, Typed, KernelStep

(***************************************************************************)
(* One character is a text.                                                *)
(***************************************************************************)
LEMMA OnePut ==
  ASSUME NEW s \in Screens, NEW c \in Marks
  PROVE  PrintText(s, <<c>>) = PutChar(s, c)
<1>1. \A t \in Screens : \A d \in Marks : PutChar(t, d) \in Screens
  BY CharPut
<1> DEFINE text == <<c>>
<1>2. text \in Seq(Marks) /\ Len(text) = 1 /\ text[1] = c /\ 1 \in 1 .. Len(text)
  OBVIOUS
<1> HIDE DEF text
<1>3. \E h : PutSteps(Screens, s, text, h)
  BY <1>1, <1>2, PutTrace
<1>4. PICK h : PutSteps(Screens, s, text, h)
  BY <1>3
<1>5. PrintText(s, text) = h[1] /\ h[0] = s /\ h[1] = PutChar(h[1 - 1], text[1])
  BY <1>2, <1>4 DEF PutSteps, PrintText
<1>6. PrintText(s, text) = PutChar(s, c)
  BY <1>2, <1>5
<1>7. QED
  BY <1>6 DEF text

(***************************************************************************)
(* A handler puts a text, wherever kernelMain is.                          *)
(***************************************************************************)
LEMMA PutsKeeps ==
  ASSUME IInv, NEW text \in Seq(Marks) \ {<< >>}, NEW b \in Seq(Chars), Len(b) <= BufMax,
         NEW s \in Screens, vga' = PrintText(s, text), buffer' = b,
         log' \in Seq(Marks), mixed' \in BOOLEAN, torn' = InUpdateCursor, kernel' = kernel,
         pen' = pen, keys' \in 0 .. MaxKeys, irq' \in BOOLEAN, spoiled' \in BOOLEAN,
         LineKept'
  PROVE  IInv'
<1>1. vga' \in Screens /\ Steady(vga') /\ Tracked(vga')
  BY TextPut
<1>2. Placing'
  BY <1>1 DEF IInv, Placing, Steady, Done, At, InCursor
<1>3. Tracking'
  BY <1>1 DEF Tracking, Tracked, InUpdateCursor, InCursor, At, Between
<1>4. torn' \in BOOLEAN
  BY DEF InUpdateCursor
<1>5. QED
  BY <1>1, <1>2, <1>3, <1>4 DEF IInv, Typed

-----------------------------------------------------------------------------
(* The line that is typed. *)

\* Where the cells of s up to the position p are in r, when c was put at p.
Carried(s, c, p, r) ==
  \E d \in {0, W} :
    /\ Cell(r.x, r.y) = p + 1 - d
    /\ \A i \in 0 .. p : i >= d => r.mem[i - d] = IF i = p THEN c ELSE s.mem[i]

(***************************************************************************)
(* A letter is put where the cursor is, and what was before it is before   *)
(* the cursor still: in the same cell, or in the one above after a scroll. *)
(***************************************************************************)
LEMMA LetterPut ==
  ASSUME NEW s \in Screens, Steady(s), NEW c \in Chars, c # NewLine
  PROVE  Carried(s, c, Cell(s.x, s.y), PutChar(s, c))
<1> DEFINE p == Cell(s.x, s.y)
           m == [s.mem EXCEPT ![p] = c]
           t == Place(s, c)
           w == Wrap(t)
           u == IF w.y >= H THEN Scroll(w) ELSE w
           r == PutChar(s, c)
<1>1. /\ W \in Nat \ {0} /\ H \in Nat \ {0} /\ s.x \in 0 .. (W - 1) /\ s.y \in 0 .. (H - 1)
      /\ s.x \in 0 .. W /\ s.y \in 0 .. H /\ s.x \in Nat /\ s.y \in Nat
  BY ConsoleAssumption DEF Screens, Steady
<1>2. p \in Cells /\ p < W * H /\ W * H \in Nat /\ p \in Nat
  BY <1>1, CellIn DEF Cells
<1>3. s.mem \in [Cells -> Chars]
  BY DEF Screens
<1>4. m \in [Cells -> Chars] /\ \A i \in Cells : m[i] = IF i = p THEN c ELSE s.mem[i]
  BY <1>2, <1>3
<1>5. c \in Marks /\ c # "back"
  BY TextAssumption DEF Marks
<1>6. t = [s EXCEPT !.x = @ + 1, !.mem[p] = c]
  BY <1>5 DEF Place
<1>7. t.mem = m /\ t.x = s.x + 1 /\ t.y = s.y /\ t \in Raw
  <2>1. t \in Raw
    BY <1>5, Placed
  <2>2. t.mem = m /\ t.x = s.x + 1 /\ t.y = s.y
    BY <1>6 DEF Screens
  <2>3. QED
    BY <2>1, <2>2
<1>8. t.x >= W => t.y <= H
  BY <1>1, <1>7
<1> HIDE DEF t
<1>9. w \in Raw /\ w.x < W /\ w.mem = m
  BY <1>7, <1>8, Wrapped
<1>10. w.x = (IF s.x + 1 >= W THEN 0 ELSE s.x + 1) /\ w.y = (IF s.x + 1 >= W THEN s.y + 1 ELSE s.y)
  <2>1. CASE t.x >= W
    <3>1. w = [t EXCEPT !.x = 0, !.y = @ + 1]
      BY <2>1 DEF Wrap, PastEnd
    <3>2. w.x = 0 /\ w.y = t.y + 1
      BY <1>7, <3>1 DEF Raw
    <3>3. QED
      BY <1>7, <2>1, <3>2
  <2>2. CASE ~(t.x >= W)
    BY <1>7, <2>2 DEF Wrap, PastEnd
  <2>3. QED
    BY <2>1, <2>2
<1> HIDE DEF w
<1>11. u \in Screens /\ Steady(u) /\ u.x = w.x
  BY <1>9, ScrolledIn
<1>12. r.mem = u.mem /\ r.x = u.x /\ r.y = u.y
  <2>1. r = UpdateCursor(u)
    BY DEF PutChar, w, t
  <2> HIDE DEF r, u
  <2>2. QED
    BY <1>11, <2>1, CursorUpdated
<1> HIDE DEF r
<1>13. CASE ~(w.y >= H)
  <2>1. r.mem = m /\ r.x = w.x /\ r.y = w.y
    BY <1>9, <1>12, <1>13
  <2>2. Cell(r.x, r.y) = p + 1
    BY <1>1, <1>10, <2>1 DEF Cell
  <2>3. \A i \in 0 .. p : i \in Cells /\ i - 0 = i
    <3> HIDE DEF p
    <3>1. W * (H + 1) \in Nat
      BY <1>1
    <3>2. QED
      BY <1>2, <3>1 DEF Cells
  <2>4. QED
    <3> HIDE DEF p, m
    <3>1. \A i \in 0 .. p : r.mem[i - 0] = IF i = p THEN c ELSE s.mem[i]
      BY <1>4, <2>1, <2>3
    <3>2. Cell(r.x, r.y) = p + 1 - 0
      BY <1>2, <2>2
    <3>3. QED
      BY <3>1, <3>2 DEF Carried, p, r
<1>14. CASE w.y >= H
  <2>1. s.x = W - 1 /\ s.y = H - 1 /\ w.x = 0
    BY <1>1, <1>10, <1>14
  <2>2. u.mem = MovedUp(m, H) /\ u.y = H - 1
    <3>1. u = [w EXCEPT !.mem = MovedUp(w.mem, H), !.y = H - 1]
      BY <1>4, <1>9, <1>14, Scrolled
    <3>2. QED
      BY <1>9, <3>1 DEF Raw
  <2>3. Cell(r.x, r.y) = W * (H - 1) /\ p = W * (H - 1) + (W - 1) /\ W * (H - 1) \in Nat
    BY <1>1, <1>11, <1>12, <2>1, <2>2 DEF Cell
  <2>4. ASSUME NEW i \in 0 .. p, i >= W
        PROVE  r.mem[i - W] = IF i = p THEN c ELSE s.mem[i]
    <3>1. i - W \in Cells /\ (i - W) + W = i /\ i \in Cells /\ i - W < W * (H - 1)
      BY <1>1, <1>2, <2>3, <2>4 DEF Cells
    <3>2. (i - W) \div W < H - 1
      <4> DEFINE k == i - W
                 y == k \div W
      <4>1. y \in 0 .. H /\ k % W \in 0 .. (W - 1) /\ k = Cell(k % W, y)
        BY <3>1, CellAt
      <4>2. k < W * (H - 1)
        BY <3>1
      <4> HIDE DEF k, y
      <4>3. SUFFICES ASSUME y >= H - 1 PROVE FALSE
        BY <1>1, <4>1 DEF y, k
      <4>4. H - 1 \in Nat /\ y \in Nat /\ k % W \in Nat
        BY <1>1, <4>1
      <4>5. W * (H - 1) <= W * y
        BY <4>3, <4>4, Times
      <4>6. W * y \in Nat /\ W * y <= k
        <5>1. W * y \in Nat
          BY <1>1, <4>4
        <5>2. k = W * y + (k % W)
          BY <4>1 DEF Cell
        <5> HIDE DEF k
        <5>3. QED
          BY <4>4, <5>1, <5>2
      <4>7. k \in Int /\ W * (H - 1) \in Int
        BY <1>2, <2>3, <3>1 DEF Cells, k
      <4>8. QED
        BY <4>2, <4>5, <4>6, <4>7
    <3>3. (i - W) \div W < H
      BY <1>1, <3>1, <3>2, CellAt
    <3>4. MovedUp(m, H)[i - W] = m[i]
      BY <3>1, <3>2, <3>3 DEF MovedUp
    <3>5. QED
      BY <1>4, <1>12, <2>2, <3>1, <3>4
  <2>5. Cell(r.x, r.y) = p + 1 - W
    BY <1>1, <2>3
  <2>6. QED
    <3> HIDE DEF p
    <3>1. QED
      BY <2>4, <2>5 DEF Carried, p, r
<1>15. QED
  BY <1>13, <1>14

(***************************************************************************)
(* A letter that is put and joins the line: the line is shown still.       *)
(***************************************************************************)
LEMMA LetterStands ==
  ASSUME NEW s \in Screens, Steady(s), NEW c \in Chars, c # NewLine,
         NEW b \in Seq(Chars), Stands(s, b)
  PROVE  Stands(PutChar(s, c), Append(b, c))
<1> DEFINE p == Cell(s.x, s.y)
           r == PutChar(s, c)
           q == Cell(r.x, r.y)
           n == Len(b)
           bc == Append(b, c)
<1>1. p \in Nat /\ W \in Nat
  BY CellIn, ConsoleAssumption, SMTT(30) DEF Screens, Steady
<1>2. Carried(s, c, p, r)
  BY LetterPut
<1> HIDE DEF p, r
<1>3. PICK d \in {0, W} :
        /\ q = p + 1 - d
        /\ \A i \in 0 .. p : i >= d => r.mem[i - d] = IF i = p THEN c ELSE s.mem[i]
  BY <1>2 DEF Carried
<1>4. d \in Nat /\ n \in Nat
  BY <1>1
<1>5. Len(bc) = n + 1 /\ bc[n + 1] = c /\ \A k \in 1 .. n : bc[k] = b[k]
  OBVIOUS
<1> HIDE DEF q, bc
<1>6. SUFFICES ASSUME NEW j \in 1 .. (n + 1), q >= j
               PROVE  r.mem[q - j] = bc[n + 2 - j]
  <2>1. ASSUME NEW j \in 1 .. Len(bc), q >= j
        PROVE  r.mem[q - j] = bc[Len(bc) + 1 - j]
    BY <1>4, <1>5, <1>6, <2>1
  <2>2. QED
    BY <2>1 DEF Stands, q, r, bc
<1> DEFINE i == p + 1 - j
<1>7. i \in 0 .. p /\ i >= d /\ i - d = q - j /\ (i = p <=> j = 1)
  BY <1>1, <1>3, <1>4, <1>6
<1>8. r.mem[q - j] = IF i = p THEN c ELSE s.mem[i]
  BY <1>3, <1>7
<1>9. CASE j = 1
  BY <1>4, <1>5, <1>7, <1>8, <1>9
<1>10. CASE j # 1
  <2>1. j - 1 \in 1 .. n /\ p >= j - 1 /\ i = p - (j - 1)
    BY <1>1, <1>4, <1>7, <1>10
  <2>2. s.mem[i] = b[n + 1 - (j - 1)]
    BY <2>1 DEF Stands, p
  <2>3. n + 1 - (j - 1) = n + 2 - j /\ n + 2 - j \in 1 .. n
    BY <1>4, <2>1
  <2>4. QED
    BY <1>5, <1>7, <1>8, <1>10, <2>2, <2>3
<1>11. QED
  BY <1>9, <1>10

(***************************************************************************)
(* The spaces of a tab, one after the other.                               *)
(***************************************************************************)
LEMMA SpacesStand ==
  ASSUME NEW s \in Screens, Steady(s), NEW n \in Nat, NEW b \in Seq(Chars), Stands(s, b)
  PROVE  Stands(PrintText(s, Spaces(n)), b \o Spaces(n))
<1> DEFINE T == {t \in Screens : Steady(t)}
           text == Spaces(n)
<1>1. text \in Seq({Space}) /\ Len(text) = n /\ \A k \in 1 .. n : text[k] = Space
  BY DEF Spaces
<1>2. Space \in Chars /\ Space \in Marks
  BY DEF Chars, Marks
<1>3. Space # NewLine
  BY Zenon DEF Space, NewLine
<1>4. s \in T /\ \A t \in T : \A c \in {Space} : PutChar(t, c) \in T
  BY <1>2, CharPut
<1> HIDE DEF text
<1>5. \E h : PutSteps(T, s, text, h)
  <2> HIDE DEF T
  <2>1. QED
    BY <1>1, <1>4, PutTrace
<1>6. PICK h : PutSteps(T, s, text, h)
  BY <1>5
<1>7. /\ h \in [0 .. n -> T] /\ h[0] = s /\ PrintText(s, text) = h[n]
      /\ \A k \in 1 .. n : h[k] = PutChar(h[k - 1], Space)
  <2> HIDE DEF T
  <2>1. QED
    BY <1>1, <1>6 DEF PutSteps, PrintText
<1> DEFINE A == {k \in 0 .. n : Stands(h[k], b \o Spaces(k))}
<1>8. 0 \in A
  <2>1. Spaces(0) = << >> /\ b \o << >> = b
    BY DEF Spaces
  <2>2. QED
    BY <1>7, <2>1
<1>9. ASSUME NEW k \in 0 .. (n - 1), k \in A
      PROVE  k + 1 \in A
  <2>1. Spaces(k) \in Seq(Chars) /\ Spaces(k + 1) = Append(Spaces(k), Space)
    BY <1>2 DEF Spaces
  <2> DEFINE z == Spaces(k)
  <2>2. b \o Append(z, Space) = Append(b \o z, Space) /\ b \o z \in Seq(Chars)
    <3> HIDE DEF z
    <3>1. z \in Seq(Chars)
      BY <2>1 DEF z
    <3>2. QED
      BY <1>2, <3>1
  <2>3. h[k + 1] = PutChar(h[k], Space) /\ h[k] \in T
    <3> HIDE DEF T
    <3>1. k + 1 \in 1 .. n /\ (k + 1) - 1 = k /\ k \in 0 .. n
      OBVIOUS
    <3>2. QED
      BY <1>7, <3>1
  <2>4. Stands(PutChar(h[k], Space), Append(b \o z, Space))
    BY <1>2, <1>3, <1>9, <2>2, <2>3, LetterStands
  <2>5. QED
    <3> HIDE DEF z, T
    <3>1. k + 1 \in 0 .. n
      OBVIOUS
    <3>2. b \o Spaces(k + 1) = Append(b \o z, Space)
      BY <2>1, <2>2 DEF z
    <3>3. Stands(h[k + 1], b \o Spaces(k + 1))
      BY <2>3, <2>4, <3>2
    <3>4. QED
      BY <3>1, <3>3
<1>10. 0 .. n \subseteq A
  <2> HIDE DEF A
  <2>1. QED
    BY <1>8, <1>9, UpTo
<1>11. QED
  BY <1>7, <1>10 DEF text

(***************************************************************************)
(* The last character is erased, in the middle of a line.                  *)
(***************************************************************************)
LEMMA ErasedStands ==
  ASSUME NEW s \in Screens, Steady(s), s.x # 0, NEW b \in Seq(Chars) \ {<< >>}, Stands(s, b)
  PROVE  Stands(PutChar(s, "back"), Front(b))
<1> DEFINE p == Cell(s.x, s.y)
           m == [s.mem EXCEPT ![Cell(s.x - 1, s.y)] = Space]
           t == Place(s, "back")
           r == PutChar(s, "back")
           n == Len(b)
<1>1. /\ W \in Nat \ {0} /\ H \in Nat \ {0} /\ s.x \in 1 .. (W - 1) /\ s.y \in 0 .. (H - 1)
      /\ s.x \in 0 .. W /\ s.y \in 0 .. H /\ s.x < W /\ s.y < H
  BY ConsoleAssumption DEF Screens, Steady
<1>2. p \in Cells /\ p \in Nat /\ Cell(s.x - 1, s.y) = p - 1
  <2>1. p \in Cells /\ p \in Nat
    <3> HIDE DEF p
    <3>1. p \in Cells
      BY <1>1, CellIn DEF p
    <3>2. QED
      BY <3>1 DEF Cells
  <2>2. Cell(s.x - 1, s.y) = p - 1
    BY <1>1 DEF Cell
  <2>3. QED
    BY <2>1, <2>2
<1>3. t = [s EXCEPT !.x = @ - 1, !.mem[Cell(s.x - 1, s.y)] = Space]
  BY <1>1, Distinct DEF Place
<1>4. t.mem = m /\ t.x = s.x - 1 /\ t.y = s.y
  BY <1>3 DEF Screens
<1>5. "back" \in Marks /\ t \in Raw
  BY Placed DEF Marks
<1> HIDE DEF t
<1>6. Wrap(t) = t /\ ~(t.y >= H) /\ ~(t.x >= W)
  BY <1>1, <1>4 DEF Wrap, PastEnd
<1>7. t \in Screens
  BY <1>1, <1>4, <1>5, <1>6, ScrolledIn
<1>8. r.mem = m /\ r.x = s.x - 1 /\ r.y = s.y
  <2>1. r = UpdateCursor(t)
    BY <1>6 DEF PutChar, t
  <2> HIDE DEF r
  <2>2. QED
    BY <1>4, <1>7, <2>1, CursorUpdated
<1> HIDE DEF p, r, m
<1>9. Cell(r.x, r.y) = p - 1
  BY <1>2, <1>8
<1>10. Front(b) \in Seq(Chars) /\ Len(Front(b)) = n - 1 /\ n \in Nat \ {0}
       /\ \A k \in 1 .. (n - 1) : Front(b)[k] = b[k]
  <2>1. n \in Nat \ {0} /\ Front(b) = SubSeq(b, 1, n - 1)
    BY DEF Front
  <2>2. \A k \in 1 .. (n - 1) : b[k] \in Chars
    BY <2>1
  <2> HIDE DEF n
  <2>3. n - 1 \in Int /\ 1 \in Int
    BY <2>1
  <2>4. /\ SubSeq(b, 1, n - 1) \in Seq(Chars)
        /\ Len(SubSeq(b, 1, n - 1)) = IF 1 <= n - 1 THEN (n - 1) - 1 + 1 ELSE 0
        /\ \A k \in 1 .. ((n - 1) - 1 + 1) : SubSeq(b, 1, n - 1)[k] = b[1 + k - 1]
    BY <2>2, <2>3, SubSeqProperties
  <2>5. QED
    BY <2>1, <2>4
<1>11. ASSUME NEW j \in 1 .. (n - 1), p - 1 >= j
       PROVE  r.mem[p - 1 - j] = Front(b)[n - j]
  <2>1. j + 1 \in 1 .. n /\ p >= j + 1 /\ p - (j + 1) = p - 1 - j /\ n + 1 - (j + 1) = n - j
        /\ n - j \in 1 .. (n - 1)
    BY <1>2, <1>10, <1>11, SMTT(30)
  <2>2. s.mem[p - 1 - j] = b[n - j]
    <3>1. s.mem[p - (j + 1)] = b[n + 1 - (j + 1)]
      BY <2>1 DEF Stands, p
    <3>2. QED
      BY <2>1, <3>1
  <2>3. p - 1 - j \in Cells /\ p - 1 - j # p - 1
    <3>1. W * (H + 1) \in Nat
      BY <1>1
    <3>2. QED
      BY <1>2, <1>11, <3>1 DEF Cells
  <2>4. r.mem[p - 1 - j] = s.mem[p - 1 - j]
    BY <1>2, <1>8, <2>3 DEF m, Screens
  <2>5. QED
    BY <1>10, <2>1, <2>2, <2>4
<1>12. QED
  <2> DEFINE f == Front(b)
  <2> HIDE DEF f
  <2>1. ASSUME NEW j \in 1 .. Len(f), Cell(r.x, r.y) >= j
        PROVE  r.mem[Cell(r.x, r.y) - j] = f[Len(f) + 1 - j]
    <3>1. Len(f) = n - 1 /\ (n - 1) + 1 - j = n - j
      BY <1>10, <2>1 DEF f
    <3>2. QED
      BY <1>9, <1>11, <2>1, <3>1 DEF f
  <2>2. QED
    BY <2>1 DEF Stands, r, f

-----------------------------------------------------------------------------
(* The keys. *)

(***************************************************************************)
(* What every key that puts a text finds, and what it leaves.              *)
(***************************************************************************)
LEMMA KeyPuts ==
  ASSUME IInv, NEW text \in Seq(Marks) \ {<< >>}, NEW b \in Seq(Chars), Len(b) <= BufMax,
         Pressed, Puts(text, b), irq' \in BOOLEAN, spoiled' \in BOOLEAN, LineKept'
  PROVE  IInv'
<1>1. vga \in Screens /\ log \in Seq(Marks) /\ mixed \in BOOLEAN /\ keys \in 0 .. MaxKeys
  BY DEF IInv, Typed
<1>2. keys' \in 0 .. MaxKeys
  BY <1>1, ConsoleAssumption DEF Pressed
<1>3. mixed' \in BOOLEAN /\ log' \in Seq(Marks)
  BY <1>1 DEF Puts, Between
<1>4. QED
  BY <1>1, <1>2, <1>3, PutsKeeps DEF Puts

(***************************************************************************)
(* Once kernelMain is done, an unspoiled line stands before the cursor.    *)
(***************************************************************************)
LEMMA LineThere ==
  ASSUME IInv, Done, ~spoiled
  PROVE  vga \in Screens /\ Steady(vga) /\ buffer \in Seq(Chars) /\ Stands(vga, buffer)
BY DEF IInv, Typed, Placing, LineKept, Steady, Done, At

(***************************************************************************)
(* A letter.                                                               *)
(***************************************************************************)
LEMMA KeyLetterKeeps ==
  ASSUME IInv, NEW c \in Letters, KeyLetter(c)
  PROVE  IInv'
<1>1. c \in Chars /\ c \in Marks /\ c # NewLine
  BY TextAssumption DEF Chars, Marks
<1> DEFINE text == <<c>>
           b == Append(buffer, c)
<1>2. buffer \in Seq(Chars) /\ Len(buffer) < BufMax /\ spoiled \in BOOLEAN /\ irq \in BOOLEAN
      /\ vga \in Screens
  BY DEF IInv, Typed, KeyLetter
<1>3. b \in Seq(Chars) /\ Len(b) <= BufMax
  BY <1>1, <1>2, ConsoleAssumption
<1>4. text \in Seq(Marks) \ {<< >>}
  BY <1>1
<1>5. Pressed /\ Puts(text, b) /\ spoiled' = (spoiled \/ ~Done) /\ irq' = irq
  BY DEF KeyLetter
<1>6. vga' = PutChar(vga, c) /\ buffer' = b /\ kernel' = kernel
  BY <1>1, <1>2, <1>5, OnePut DEF Puts
<1>7. LineKept'
  <2>1. SUFFICES ASSUME ~spoiled' PROVE Done' /\ Stands(vga', buffer')
    BY DEF LineKept
  <2>2. ~spoiled /\ Done /\ Done'
    BY <1>2, <1>5, <1>6, <2>1 DEF Done, At
  <2>3. QED
    BY <1>1, <1>6, <2>2, LineThere, LetterStands
<1> HIDE DEF text, b
<1>8. QED
  BY <1>2, <1>3, <1>4, <1>5, <1>7, KeyPuts DEF Done, At

(***************************************************************************)
(* A tab.                                                                  *)
(***************************************************************************)
LEMMA KeyTabKeeps ==
  ASSUME IInv, KeyTab
  PROVE  IInv'
<1> DEFINE n == TabWidth
           text == Spaces(n)
           b == buffer \o text
<1>1. buffer \in Seq(Chars) /\ Len(buffer) < BufMax /\ spoiled \in BOOLEAN /\ irq \in BOOLEAN
      /\ vga \in Screens
  BY DEF IInv, Typed, KeyTab
<1>2. n \in Nat \ {0} /\ Len(buffer) + n <= BufMax
  BY <1>1, ConsoleAssumption DEF TabWidth
<1> HIDE DEF n
<1>3. Space \in Chars /\ Space \in Marks
  BY DEF Chars, Marks
<1>4. text \in Seq(Chars) /\ text \in Seq(Marks) /\ Len(text) = n /\ text # << >>
  BY <1>2, <1>3 DEF Spaces
<1>5. Pressed /\ Puts(text, b) /\ spoiled' = (spoiled \/ ~Done) /\ irq' = irq
  BY DEF KeyTab, n
<1>6. vga' = PrintText(vga, text) /\ buffer' = b /\ kernel' = kernel
  BY <1>5 DEF Puts
<1>7. LineKept'
  <2>1. SUFFICES ASSUME ~spoiled' PROVE Done' /\ Stands(vga', buffer')
    BY DEF LineKept
  <2>2. ~spoiled /\ Done /\ Done'
    BY <1>1, <1>5, <1>6, <2>1 DEF Done, At
  <2>3. QED
    BY <1>2, <1>6, <2>2, LineThere, SpacesStand
<1> HIDE DEF text
<1>8. b \in Seq(Chars) /\ Len(b) <= BufMax
  BY <1>1, <1>2, <1>4
<1> HIDE DEF b
<1>9. QED
  BY <1>1, <1>4, <1>5, <1>7, <1>8, KeyPuts DEF Done, At

(***************************************************************************)
(* A backspace.                                                            *)
(***************************************************************************)
LEMMA KeyBackspaceKeeps ==
  ASSUME IInv, KeyBackspace
  PROVE  IInv'
<1> DEFINE text == <<"back">>
           b == Front(buffer)
<1>1. buffer \in Seq(Chars) /\ Len(buffer) <= BufMax /\ spoiled \in BOOLEAN /\ irq \in BOOLEAN
      /\ vga \in Screens /\ buffer # << >>
  BY DEF IInv, Typed, KeyBackspace
<1>2. b \in Seq(Chars) /\ Len(b) <= BufMax
  <2> DEFINE n == Len(buffer)
  <2>1. n \in Nat \ {0} /\ b = SubSeq(buffer, 1, n - 1) /\ \A k \in 1 .. (n - 1) : buffer[k] \in Chars
    BY <1>1 DEF Front
  <2>2. n - 1 \in Int /\ 1 \in Int
    BY <2>1
  <2> HIDE DEF n, b
  <2>3. b \in Seq(Chars) /\ Len(b) = IF 1 <= n - 1 THEN (n - 1) - 1 + 1 ELSE 0
    BY <2>1, <2>2, SubSeqProperties
  <2>4. QED
    BY <1>1, <2>1, <2>3, ConsoleAssumption DEF n
<1>3. "back" \in Marks
  BY DEF Marks
<1>4. text \in Seq(Marks) \ {<< >>}
  BY <1>3
<1>5. Pressed /\ Puts(text, b) /\ spoiled' = (spoiled \/ ~Done \/ vga.x = 0) /\ irq' = irq
  BY DEF KeyBackspace, Erased
<1>6. vga' = PutChar(vga, "back") /\ buffer' = b /\ kernel' = kernel
  BY <1>1, <1>3, <1>5, OnePut DEF Puts
<1>7. LineKept'
  <2>1. SUFFICES ASSUME ~spoiled' PROVE Done' /\ Stands(vga', buffer')
    BY DEF LineKept
  <2>2. ~spoiled /\ Done /\ Done' /\ vga.x # 0
    BY <1>1, <1>5, <1>6, <2>1 DEF Done, At
  <2>3. QED
    BY <1>1, <1>6, <2>2, LineThere, ErasedStands
<1> HIDE DEF text, b
<1>8. QED
  BY <1>1, <1>2, <1>4, <1>5, <1>7, KeyPuts DEF Done, At

(***************************************************************************)
(* The empty line.                                                         *)
(***************************************************************************)
LEMMA EmptyLine ==
  /\ << >> \in Seq(Chars) /\ Len(<< >>) = 0 /\ Len(<< >>) <= BufMax
  /\ \A s : Stands(s, << >>)
BY ConsoleAssumption DEF Stands

(***************************************************************************)
(* Enter, and what the command prints.                                     *)
(***************************************************************************)
LEMMA KeyEnterKeeps ==
  ASSUME IInv, NEW answer \in Answers \cup {<< >>}, NEW disk \in BOOLEAN, KeyEnter(answer, disk)
  PROVE  IInv'
<1> DEFINE text == <<NewLine>> \o answer \o Prompt
<1>1. /\ Pressed /\ Puts(text, << >>) /\ spoiled' = ~Done /\ irq' = (irq \/ disk)
      /\ irq \in BOOLEAN
  BY DEF KeyEnter, IInv, Typed
<1>2. answer \in Seq(Marks) /\ Prompt \in Seq(Marks) /\ <<NewLine>> \in Seq(Marks)
  <2>1. Chars \subseteq Marks /\ NewLine \in Marks
    BY DEF Marks
  <2>2. answer \in Seq(Chars) /\ Prompt \in Seq(Chars)
    <3>1. Answers \subseteq Seq(Chars) /\ Prompt \in Seq(Chars)
      BY TextAssumption
    <3>2. << >> \in Seq(Chars)
      OBVIOUS
    <3>3. QED
      BY <3>1, <3>2
  <2>3. \A t \in Seq(Chars) : t \in Seq(Marks)
    BY <2>1
  <2>4. QED
    BY <2>1, <2>2, <2>3
<1>3. text \in Seq(Marks) \ {<< >>}
  <2>1. <<NewLine>> \o answer \in Seq(Marks) /\ Len(<<NewLine>> \o answer) = 1 + Len(answer)
    BY <1>2
  <2>2. text \in Seq(Marks) /\ Len(text) = Len(<<NewLine>> \o answer) + Len(Prompt)
    BY <1>2, <2>1
  <2>3. Len(text) # 0
    BY <1>2, <2>1, <2>2
  <2>4. QED
    BY <2>2, <2>3
<1> HIDE DEF text
<1>4. LineKept'
  BY <1>1, EmptyLine DEF LineKept, Puts, Done, At
<1>5. QED
  BY <1>1, <1>3, <1>4, EmptyLine, KeyPuts DEF Done, At

(***************************************************************************)
(* A blank screen.                                                         *)
(***************************************************************************)
LEMMA ClearedIn ==
  ASSUME NEW s \in Screens
  PROVE  Clear(s) \in Screens /\ Tracked(Clear(s)) /\ Clear(s).mem = Cleared(s.mem)
         /\ Clear(s).x = 0 /\ Clear(s).y = 0
<1> DEFINE m == Cleared(s.mem)
           t1 == [s EXCEPT !.mem = m]
           t2 == [t1 EXCEPT !.x = 0]
           t3 == [t2 EXCEPT !.y = 0]
<1>1. Space \in Chars
  BY DEF Chars
<1>2. m \in [Cells -> Chars]
  BY <1>1 DEF Cleared, Screens
<1> HIDE DEF m
<1>3. 0 \in 0 .. W /\ 0 \in 0 .. H /\ 0 < W
  BY ConsoleAssumption
<1>4. t1 \in Screens /\ t1.mem = m
  BY <1>2, MemAssigned
<1>5. Clear(s) = UpdateCursor(t3)
  BY DEF Clear, m
<1> HIDE DEF t1
<1>6. t2 \in Screens /\ t2.mem = m /\ t2.x = 0
  BY <1>3, <1>4, XAssigned
<1> HIDE DEF t2
<1>7. t3 \in Screens /\ t3.mem = m /\ t3.x = 0 /\ t3.y = 0
  BY <1>3, <1>6, YAssigned
<1> HIDE DEF t3
<1>8. QED
  BY <1>5, <1>7, CursorUpdated DEF m

(***************************************************************************)
(* The clear command.                                                      *)
(***************************************************************************)
LEMMA KeyEnterClearKeeps ==
  ASSUME IInv, KeyEnterClear
  PROVE  IInv'
<1> DEFINE s == Clear(PutChar(vga, NewLine))
<1>1. NewLine \in Marks /\ vga \in Screens /\ irq \in BOOLEAN /\ keys \in 0 .. MaxKeys
  BY DEF Marks, IInv, Typed
<1>2. s \in Screens /\ Steady(s) /\ Tracked(s)
  <2>1. s \in Screens /\ Tracked(s) /\ s.x = 0 /\ s.y = 0
    BY <1>1, CharPut, ClearedIn
  <2>2. QED
    BY <2>1, ConsoleAssumption DEF Steady
<1>3. /\ Pressed /\ vga' = PrintText(s, Prompt) /\ buffer' = << >>
      /\ mixed' = ~Between /\ log' = (IF mixed' THEN << >> ELSE Prompt) /\ spoiled' = ~Done
      /\ torn' = InUpdateCursor /\ kernel' = kernel /\ pen' = pen /\ irq' = irq
  BY DEF KeyEnterClear
<1> HIDE DEF s
<1>4. Prompt \in Seq(Marks)
  BY TextAssumption DEF Marks
<1>5. vga' \in Screens /\ Steady(vga') /\ Tracked(vga')
  BY <1>2, <1>3, <1>4, TextPut
<1>6. LineKept'
  BY <1>3, EmptyLine DEF LineKept, Done, At
<1>7. Placing'
  BY <1>3, <1>5 DEF IInv, Placing, Steady, Done, At, InCursor
<1>8. Tracking'
  BY <1>3, <1>5 DEF Tracking, Tracked, InUpdateCursor, InCursor, At, Between
<1>9. log' \in Seq(Marks) /\ keys' \in 0 .. MaxKeys
  BY <1>1, <1>3, <1>4, ConsoleAssumption DEF Pressed
<1>10. torn' \in BOOLEAN /\ mixed' \in BOOLEAN /\ spoiled' \in BOOLEAN
  BY <1>3 DEF InUpdateCursor, Between, Done, At
<1>11. QED
  BY <1>1, <1>3, <1>5, <1>6, <1>7, <1>8, <1>9, <1>10, EmptyLine DEF IInv, Typed

-----------------------------------------------------------------------------
(* The notice, and the theorems. *)

\* The screen and the pen of printf.
Pens == [mem : [Cells -> Chars], x : 0 .. (W - 1), y : 0 .. (H - 1)]

(***************************************************************************)
(* A character of printf stays on the screen.                              *)
(***************************************************************************)
LEMMA PenPutIn ==
  ASSUME NEW p \in Pens, NEW c \in Chars
  PROVE  PenPut(p, c) \in Pens
<1> DEFINE m == [p.mem EXCEPT ![Cell(p.x, p.y)] = c]
           x1 == p.x + 1
           r == [mem |-> m, x |-> x1, y |-> p.y]
           q == PenPast(r)
<1>1. /\ W \in Nat \ {0} /\ H \in Nat \ {0} /\ p.x \in 0 .. (W - 1) /\ p.y \in 0 .. (H - 1)
      /\ p.mem \in [Cells -> Chars]
  BY ConsoleAssumption DEF Pens
<1>2. m \in [Cells -> Chars]
  BY <1>1
<1> HIDE DEF m
<1>3. x1 \in Nat /\ x1 <= W /\ p.y \in Nat /\ p.y < H
  BY <1>1
<1>4. PenPut(p, c) = IF q.y >= H THEN [mem |-> Cleared(q.mem), x |-> 0, y |-> 0] ELSE q
  BY DEF PenPut, m
<1>5. r \in [mem : [Cells -> Chars], x : Nat, y : Nat] /\ r.mem = m /\ r.x = x1 /\ r.y = p.y
  BY <1>2, <1>3
<1> HIDE DEF r, x1
<1>6. q \in [mem : [Cells -> Chars], x : Nat, y : Nat] /\ q.mem = m /\ q.x < W
  <2>1. CASE r.x >= W
    <3>1. q = [r EXCEPT !.x = 0, !.y = @ + 1]
      BY <2>1 DEF PenPast
    <3>2. q.mem = r.mem /\ q.x = 0 /\ q.y = r.y + 1
      BY <1>5, <3>1
    <3>3. q \in [mem : [Cells -> Chars], x : Nat, y : Nat]
      <4> DEFINE y1 == r.y + 1
      <4>1. q = [r EXCEPT !.x = 0, !.y = y1] /\ y1 \in Nat /\ 0 \in Nat
        BY <1>5, <3>1
      <4> HIDE DEF y1
      <4>2. QED
        BY <1>5, <4>1
    <3>4. QED
      BY <1>1, <1>5, <3>2, <3>3
  <2>2. CASE ~(r.x >= W)
    <3>1. q = r
      BY <2>2 DEF PenPast
    <3>2. QED
      BY <1>1, <1>3, <1>5, <2>2, <3>1
  <2>3. QED
    BY <2>1, <2>2
<1>7. Cleared(m) \in [Cells -> Chars]
  <2>1. Space \in Chars
    BY DEF Chars
  <2>2. QED
    BY <1>2, <2>1 DEF Cleared
<1> HIDE DEF q
<1>8. CASE q.y >= H
  BY <1>1, <1>4, <1>6, <1>7, <1>8 DEF Pens
<1>9. CASE ~(q.y >= H)
  BY <1>1, <1>4, <1>6, <1>9 DEF Pens
<1>10. QED
  BY <1>8, <1>9

(***************************************************************************)
(* The notice that nobody handles an interrupt.                            *)
(***************************************************************************)
LEMMA UnhandledKeeps ==
  ASSUME IInv, Unhandled
  PROVE  IInv'
<1> DEFINE base == [mem |-> vga.mem, x |-> pen.x, y |-> pen.y]
           p == FoldLeft(PenPut, base, Notice)
<1>1. /\ vga \in Screens /\ pen \in [x : 0 .. (W - 1), y : 0 .. (H - 1)]
      /\ buffer \in Seq(Chars) /\ spoiled \in BOOLEAN
      /\ Placing /\ Tracking /\ LineKept
  BY DEF IInv, Typed
<1>2. base \in Pens
  BY <1>1 DEF Pens, Screens
<1>3. Notice \in Seq(Chars)
  <2>1. \A t \in Seq(Chars \ {NewLine}) : t \in Seq(Chars)
    OBVIOUS
  <2>2. QED
    BY <2>1, TextAssumption
<1>4. \A q \in Pens : \A c \in Chars : PenPut(q, c) \in Pens
  BY PenPutIn
<1>5. p \in Pens
  <2> HIDE DEF base
  <2>1. \E h : PenSteps(Pens, base, Notice, h)
    BY <1>2, <1>3, <1>4, PenTrace
  <2>2. QED
    BY <1>3, <2>1 DEF PenSteps
<1>6. /\ vga' = [vga EXCEPT !.mem = p.mem] /\ pen' = [x |-> p.x, y |-> p.y]
      /\ spoiled' = (spoiled \/ \E i \in Line : p.mem[i] # vga.mem[i])
      /\ irq' = FALSE /\ mixed' = TRUE /\ log' = << >> /\ kernel' = kernel /\ buffer' = buffer
      /\ keys' = keys /\ torn' = torn
  BY DEF Unhandled
<1> HIDE DEF p
<1>7. p.mem \in [Cells -> Chars] /\ pen' \in [x : 0 .. (W - 1), y : 0 .. (H - 1)]
  BY <1>5, <1>6 DEF Pens
<1>8. /\ vga' \in Screens /\ vga'.x = vga.x /\ vga'.y = vga.y /\ vga'.mem = p.mem
      /\ vga'.index = vga.index /\ vga'.high = vga.high /\ vga'.low = vga.low
  <2>1. vga' = [vga EXCEPT !.mem = p.mem]
    BY <1>6
  <2>2. p.mem \in [Cells -> Chars] /\ vga \in Screens
    BY <1>1, <1>7
  <2> DEFINE m == p.mem
  <2> HIDE DEF m
  <2>3. vga' = [vga EXCEPT !.mem = m] /\ m \in [Cells -> Chars]
    BY <2>1, <2>2 DEF m
  <2>4. /\ vga' \in Screens /\ vga'.x = vga.x /\ vga'.y = vga.y /\ vga'.mem = m
        /\ vga'.index = vga.index /\ vga'.high = vga.high /\ vga'.low = vga.low
    BY <2>2, <2>3, MemAssigned
  <2>5. QED
    BY <2>4 DEF m
<1>9. Placing'
  BY <1>1, <1>6, <1>8 DEF Placing, Done, At
<1>10. Tracking'
  BY <1>1, <1>6, <1>8 DEF Tracking, Tracked, Between, At
<1>11. LineKept'
  <2>1. SUFFICES ASSUME ~spoiled' PROVE IF Done THEN Stands(vga', buffer) ELSE buffer = << >>
    BY <1>6 DEF LineKept, Done, At
  <2>2. ~spoiled /\ \A i \in Line : p.mem[i] = vga.mem[i]
    BY <1>1, <1>6, <2>1
  <2>3. ASSUME Done
        PROVE  Stands(vga', buffer)
    <3> DEFINE q == Cell(vga.x, vga.y)
               n == Len(buffer)
    <3>1. Stands(vga, buffer) /\ vga.x < W /\ vga.y < H /\ vga.x \in 0 .. W /\ vga.y \in 0 .. H
      BY <1>1, <2>2, <2>3 DEF LineKept, Placing, Done, At, Screens
    <3>2. q \in Cells
      BY <3>1, CellIn
    <3>3. W * (H + 1) \in Nat /\ n \in Nat
      BY <1>1, ConsoleAssumption
    <3> HIDE DEF q, n
    <3>4. ASSUME NEW j \in 1 .. n, q >= j
          PROVE  p.mem[q - j] = vga.mem[q - j]
      <4>1. q - j \in Cells /\ q - n <= q - j /\ q - j < q
        BY <3>2, <3>3, <3>4 DEF Cells
      <4>2. q - j \in Line
        BY <4>1 DEF Line, q, n
      <4>3. QED
        BY <2>2, <4>2
    <3>5. QED
      BY <1>8, <3>1, <3>4 DEF Stands, q, n
  <2>4. QED
    BY <1>1, <2>2, <2>3 DEF LineKept
<1>12. Typed'
  <2>1. /\ kernel \in Kernels /\ Len(buffer) <= BufMax /\ keys \in 0 .. MaxKeys
        /\ torn \in BOOLEAN
    BY DEF IInv, Typed
  <2>2. log' \in Seq(Marks) /\ irq' \in BOOLEAN /\ mixed' \in BOOLEAN
    <3>1. log' = << >> /\ irq' = FALSE /\ mixed' = TRUE
      BY <1>6
    <3>2. << >> \in Seq(Marks)
      OBVIOUS
    <3>3. log' \in Seq(Marks)
      BY <3>1, <3>2
    <3>4. irq' \in BOOLEAN /\ mixed' \in BOOLEAN
      BY <3>1, Zenon
    <3>5. QED
      BY <3>3, <3>4
  <2>3. spoiled' \in BOOLEAN
    BY <1>1, <1>6, Zenon
  <2>4. kernel' = kernel /\ buffer' = buffer /\ keys' = keys /\ torn' = torn
    BY <1>6
  <2>5. QED
    BY <1>1, <1>7, <1>8, <2>1, <2>2, <2>3, <2>4 DEF Typed
<1>13. QED
  BY <1>9, <1>10, <1>11, <1>12 DEF IInv

(***************************************************************************)
(* The screen kernelMain starts with.                                      *)
(***************************************************************************)
LEMMA InitIInv == Init => IInv
<1>1. SUFFICES ASSUME Init PROVE IInv
  OBVIOUS
<1>2. PICK row \in 0 .. (H - 1) :
        /\ vga = UpdateCursor([mem |-> Blank, x |-> 0, y |-> row,
                               index |-> "low", high |-> 0, low |-> 0])
        /\ log = [i \in 1 .. row |-> NewLine]
  BY <1>1 DEF Init
<1> DEFINE s == [mem |-> Blank, x |-> 0, y |-> row, index |-> "low", high |-> 0, low |-> 0]
<1>3. W \in Nat \ {0} /\ H \in Nat \ {0} /\ PosBase \in Nat \ {0}
  BY ConsoleAssumption
<1>4. s \in Screens /\ Steady(s)
  <2>1. Space \in Chars
    BY DEF Chars
  <2>2. Blank \in [Cells -> Chars]
    BY <2>1 DEF Blank
  <2>3. Top \in Nat
    BY <1>3, CellIn, Registers DEF Top
  <2>4. QED
    BY <1>3, <2>2, <2>3 DEF Screens, Steady
<1> HIDE DEF s
<1>5. vga = UpdateCursor(s)
  BY <1>2 DEF s
<1>6. vga \in Screens /\ Tracked(vga) /\ Steady(vga)
  BY <1>4, <1>5, CursorUpdated DEF Steady
<1>7. /\ kernel = [at |-> "char", next |-> 1, x |-> 0, y |-> 0, row |-> 0]
      /\ pen = [x |-> 0, y |-> 0] /\ buffer = << >> /\ irq = FALSE /\ keys = 0
      /\ mixed = FALSE /\ spoiled = FALSE /\ torn = FALSE
  BY <1>1 DEF Init
<1>8. Len(BootText) \in Nat \ {0}
  BY TextAssumption
<1>9. kernel \in Kernels
  BY <1>3, <1>7, <1>8 DEF Kernels, Places
<1>10. pen \in [x : 0 .. (W - 1), y : 0 .. (H - 1)] /\ keys \in 0 .. MaxKeys
  BY <1>3, <1>7, ConsoleAssumption
<1>11. log \in Seq(Marks)
  <2>1. NewLine \in Marks
    BY DEF Marks
  <2>2. row \in Nat
    BY <1>3
  <2>3. QED
    BY <1>2, <2>1, <2>2
<1>12. Placing /\ Tracking
  BY <1>6, <1>7, <1>8 DEF Placing, Tracking, Steady, At, Done, Between, InCursor
<1>13. LineKept
  BY <1>7, EmptyLine DEF LineKept
<1>14. QED
  BY <1>6, <1>7, <1>9, <1>10, <1>11, <1>12, <1>13, EmptyLine DEF IInv, Typed

(***************************************************************************)
(* Every step keeps the invariant.                                         *)
(***************************************************************************)
LEMMA NextIInv == IInv /\ [Next]_vars => IInv'
<1>1. SUFFICES ASSUME IInv, [Next]_vars PROVE IInv'
  OBVIOUS
<1>2. CASE KernelStep
  <2>1. CASE Step /\ UNCHANGED log
    BY <1>1, <1>2, <2>1, StepKeeps
  <2>2. CASE LastStep
    BY <1>1, <1>2, <2>2, LastStepKeeps
  <2>3. QED
    BY <1>2, <2>1, <2>2 DEF KernelStep
<1>3. CASE \E c \in Letters : KeyLetter(c)
  BY <1>1, <1>3, KeyLetterKeeps
<1>4. CASE KeyTab
  BY <1>1, <1>4, KeyTabKeeps
<1>5. CASE KeyBackspace
  BY <1>1, <1>5, KeyBackspaceKeeps
<1>6. CASE \E text \in Answers \cup {<< >>}, disk \in BOOLEAN : KeyEnter(text, disk)
  BY <1>1, <1>6, KeyEnterKeeps
<1>7. CASE KeyEnterClear
  BY <1>1, <1>7, KeyEnterClearKeeps
<1>8. CASE KeyIgnored
  <2>1. keys' \in 0 .. MaxKeys
    BY <1>1, <1>8, ConsoleAssumption DEF KeyIgnored, Pressed, IInv, Typed
  <2>2. UNCHANGED <<vga, kernel, pen, buffer, irq, log, mixed, spoiled, torn>>
    BY <1>8 DEF KeyIgnored
  <2>3. QED
    BY <1>1, <2>1, <2>2 DEF IInv, Typed, Placing, Tracking, LineKept, Done, At, Between
<1>9. CASE Unhandled
  BY <1>1, <1>9, UnhandledKeeps
<1>10. CASE UNCHANGED vars
  BY <1>1, <1>10 DEF vars, IInv, Typed, Placing, Tracking, LineKept, Done, At, Between
<1>11. QED
  BY <1>1, <1>2, <1>3, <1>4, <1>5, <1>6, <1>7, <1>8, <1>9, <1>10 DEF Next

(***************************************************************************)
(* The invariant holds always.                                             *)
(***************************************************************************)
THEOREM SpecIInv == Spec => []IInv
BY InitIInv, NextIInv, PTL DEF Spec

(***************************************************************************)
(* TypeOK: the cursor never leaves the screen and the row behind it, and   *)
(* commandBuffer is never overrun.                                         *)
(***************************************************************************)
THEOREM SpecTypeOK == Spec => []TypeOK
<1>1. IInv => TypeOK
  BY DEF IInv, Typed, TypeOK, Screens, Kernels, Top
<1>2. QED
  BY <1>1, SpecIInv, PTL

(***************************************************************************)
(* OnScreen: wherever a key interrupts kernelMain, its characters go on    *)
(* the screen, and after each one the cursor is there again.               *)
(***************************************************************************)
THEOREM SpecOnScreen == Spec => []OnScreen
<1>1. ASSUME IInv
      PROVE  OnScreen
  <2>1. vga.x \in 0 .. W /\ vga.y \in 0 .. H /\ (vga.x < W \/ vga.y < H)
    BY <1>1 DEF IInv, Typed, Screens
  <2>2. Cell(vga.x, vga.y) \in Cells
    BY <2>1, CellIn
  <2>3. kernel.x \in 0 .. W /\ kernel.y \in 0 .. H
    BY <1>1 DEF IInv, Typed, Kernels
  <2>4. ASSUME At("store")
        PROVE  Cell(kernel.x, kernel.y) < W * H
    <3>1. kernel.x < W /\ kernel.y < H
      BY <1>1, <2>4 DEF IInv, Placing, At
    <3>2. QED
      BY <2>3, <3>1, CellIn
  <2>5. Between => vga.x < W /\ vga.y < H
    BY <1>1 DEF IInv, Placing, Between, At
  <2>6. QED
    BY <2>2, <2>4, <2>5 DEF OnScreen
<1>2. QED
  BY <1>1, SpecIInv, PTL

(***************************************************************************)
(* CursorTracked: between characters the cursor is where the next one      *)
(* goes, unless a key came between the accesses of UpdateCursor.           *)
(***************************************************************************)
THEOREM SpecCursorTracked == Spec => []CursorTracked
<1>1. IInv => CursorTracked
  BY DEF IInv, Tracking, Tracked, CursorTracked
<1>2. QED
  BY <1>1, SpecIInv, PTL

(***************************************************************************)
(* LineShown: what stands before the cursor is what Enter will execute,    *)
(* through wraps, scrolls, tabs and backspaces.                            *)
(***************************************************************************)
THEOREM SpecLineShown == Spec => []LineShown
<1>1. IInv => LineShown
  BY DEF IInv, LineKept, Stands, LineShown
<1>2. QED
  BY <1>1, SpecIInv, PTL

-----------------------------------------------------------------------------
(* What the screen shows. *)

\* Unless a key came in the middle of a character, the screen shows the paper,
\* or kernelMain is on the way from there to the next character.
Shown ==
  ~mixed => \E s \in Screens :
              /\ Steady(s) /\ Shows(s, Paper)
              /\ Midway(s, Place(s, Char), Wrap(Place(s, Char)))

Paper0 == [lines |-> <<Line0>>, x |-> 0]

(***************************************************************************)
(* The paper is one.                                                       *)
(***************************************************************************)
LEMMA PaperIn ==
  /\ Paper0 \in Papers
  /\ Paper = FoldLeft(Type, Paper0, log)
  /\ log \in Seq(Marks) => Paper \in Papers
<1>1. Line0 \in Rows /\ 0 \in 0 .. (W - 1)
  BY ConsoleAssumption DEF Line0, Rows, Chars
<1>2. <<Line0>> \in Seq(Rows) \ {<< >>}
  BY <1>1
<1>3. Paper0 \in Papers
  BY <1>1, <1>2 DEF Paper0, Papers
<1>4. Paper = FoldLeft(Type, Paper0, log)
  BY DEF Paper, Paper0
<1>5. log \in Seq(Marks) => Paper \in Papers
  <2>1. << >> \in Seq(Marks)
    OBVIOUS
  <2>2. QED
    BY <1>3, <1>4, <2>1, TypeOn
<1>6. QED
  BY <1>3, <1>4, <1>5

(***************************************************************************)
(* Between two characters, the screen itself shows the paper.              *)
(***************************************************************************)
LEMMA ShownBetween ==
  ASSUME IInv, Shown, Between, ~mixed
  PROVE  vga \in Screens /\ Steady(vga) /\ Paper \in Papers /\ Shows(vga, Paper)
<1>1. vga \in Screens /\ Steady(vga) /\ Paper \in Papers
  BY PaperIn DEF IInv, Typed, Placing, Between, Steady, At
<1>2. PICK s \in Screens : Shows(s, Paper) /\ Midway(s, Place(s, Char), Wrap(Place(s, Char)))
  BY DEF Shown
<1>3. vga.mem = s.mem /\ vga.x = s.x /\ vga.y = s.y
  BY <1>2 DEF Midway, Screen
<1>4. QED
  BY <1>1, <1>2, <1>3 DEF Shows

(***************************************************************************)
(* And the other way round.                                                *)
(***************************************************************************)
LEMMA BetweenShown ==
  ASSUME IInv', Between', Shows(vga', Paper')
  PROVE  Shown'
<1>1. vga' \in Screens /\ Steady(vga')
  BY DEF IInv, Typed, Placing, Between, Steady, At
<1>2. \A p, t : Midway(vga, p, t)'
  BY DEF Midway, Screen, Between, At, InCursor
<1>3. QED
  BY <1>1, <1>2 DEF Shown

(***************************************************************************)
(* A character of kernelMain, and PutChar's steps with it.                 *)
(***************************************************************************)
LEMMA CharFits ==
  ASSUME IInv, ~Done, NEW s \in Screens, Steady(s)
  PROVE  Char \in Marks /\ Fits(s, Place(s, Char), Wrap(Place(s, Char)))
<1>1. Char \in Chars /\ Char \in Marks /\ Char # "back"
  <2>1. kernel.next \in 1 .. Len(BootText)
    BY DEF IInv, Typed, Placing, Kernels
  <2>2. QED
    BY <2>1, TextAssumption DEF Char, Marks
<1> DEFINE c == Char
<1>2. c \in Marks /\ c # "back"
  BY <1>1
<1> HIDE DEF c
<1>3. Wrap(Place(s, c)).mem \in [Cells -> Chars]
  <2>1. Wrap(Place(s, c)) \in Raw
    BY <1>2, Placed, Wrapped
  <2>2. QED
    BY <2>1 DEF Raw
<1>4. QED
  BY <1>2, <1>3, PlacedAt DEF Fits, c

(***************************************************************************)
(* A step of PutChar.                                                      *)
(***************************************************************************)
LEMMA StepShown ==
  ASSUME IInv, Shown, KernelStep, Step, UNCHANGED log
  PROVE  Shown'
<1>1. SUFFICES ASSUME ~mixed' PROVE Shown'
  BY DEF Shown
<1>2. ~mixed /\ Paper' = Paper
  BY <1>1 DEF KernelStep, Paper
<1>3. GoesOn /\ kernel'.next = kernel.next
  BY StepKeeps
<1>4. Char' = Char
  BY <1>3 DEF Char
<1>5. ~Done
  BY DEF Step, Done, At
<1>6. PICK s \in Screens : /\ Steady(s) /\ Shows(s, Paper)
                           /\ Midway(s, Place(s, Char), Wrap(Place(s, Char)))
  BY <1>2 DEF Shown
<1>7. PICK p : p = Place(s, Char)
  OBVIOUS
<1>8. PICK t : t = Wrap(p)
  OBVIOUS
<1>9. Fits(s, p, t) /\ Midway(s, p, t)
  BY <1>5, <1>6, <1>7, <1>8, CharFits
<1>10. Midway(s, p, t)'
  BY <1>3, <1>9 DEF GoesOn
<1>11. p = Place(s, Char') /\ t = Wrap(Place(s, Char')) /\ Shows(s, Paper')
  BY <1>2, <1>4, <1>6, <1>7, <1>8
<1>12. QED
  BY <1>6, <1>10, <1>11 DEF Shown

(***************************************************************************)
(* The last step of PutChar.                                               *)
(***************************************************************************)
LEMMA LastStepShown ==
  ASSUME IInv, Shown, KernelStep, LastStep
  PROVE  Shown'
<1>1. SUFFICES ASSUME ~mixed' PROVE Shown'
  BY DEF Shown
<1>2. ~mixed /\ At("low") /\ ~Done /\ log' = Append(log, Char) /\ log \in Seq(Marks)
  BY <1>1 DEF KernelStep, LastStep, Done, At, IInv, Typed
<1>3. PICK s \in Screens : /\ Steady(s) /\ Shows(s, Paper)
                           /\ Midway(s, Place(s, Char), Wrap(Place(s, Char)))
  BY <1>2 DEF Shown
<1> DEFINE c == Char
           t == Wrap(Place(s, c))
           r == PutChar(s, c)
<1>4. c \in Marks
  BY <1>2, <1>3, CharFits
<1>5. IF t.y >= H THEN Screen(MovedUp(t.mem, H), t.x, H - 1) ELSE Screen(t.mem, t.x, t.y)
  BY <1>2, <1>3 DEF Midway, At, InCursor
<1>6. Paper \in Papers /\ Paper' = Type(Paper, c)
  <2> DEFINE a == log
  <2>1. Paper = FoldLeft(Type, Paper0, a) /\ Paper' = FoldLeft(Type, Paper0, Append(a, c))
    BY <1>2 DEF Paper, Paper0
  <2>2. a \in Seq(Marks)
    BY <1>2
  <2> HIDE DEF a, c
  <2>3. QED
    BY <1>2, <1>4, <2>1, <2>2, PaperIn, TypeOneOn
<1> HIDE DEF c
<1>7. /\ r.x = t.x
      /\ t.y >= H => r.mem = MovedUp(t.mem, H) /\ r.y = H - 1
      /\ ~(t.y >= H) => r.mem = t.mem /\ r.y = t.y
  BY <1>4, Ended
<1>8. Shows(r, Type(Paper, c))
  BY <1>3, <1>4, <1>6, PutType
<1> HIDE DEF t, r
<1>9. vga.mem = r.mem /\ vga.x = r.x /\ vga.y = r.y
  BY <1>5, <1>7 DEF Screen
<1>10. vga'.mem = vga.mem /\ vga'.x = vga.x /\ vga'.y = vga.y
  <2>1. vga.index = "low" /\ vga \in Screens
    BY <1>2 DEF IInv, Typed, Tracking, At
  <2> DEFINE v == Cell(kernel.x, kernel.y) % PosBase
  <2>2. vga' = [vga EXCEPT !.low = v]
    BY <2>1 DEF LastStep
  <2> HIDE DEF v
  <2>3. QED
    BY <2>1, <2>2 DEF Screens
<1>11. Shows(vga', Paper')
  BY <1>6, <1>8, <1>9, <1>10 DEF Shows
<1>12. Between'
  <2>1. kernel \in Kernels
    BY DEF IInv, Typed
  <2>2. kernel'.at = IF kernel.next = Len(BootText) THEN "done" ELSE "char"
    BY <2>1 DEF LastStep, Kernels
  <2>3. QED
    BY <2>2 DEF Between
<1>13. IInv'
  BY LastStepKeeps
<1>14. QED
  BY <1>11, <1>12, <1>13, BetweenShown

(***************************************************************************)
(* A text put by a handler.                                                *)
(***************************************************************************)
LEMMA PutsShown ==
  ASSUME IInv, IInv', Shown, NEW text \in Seq(Marks), NEW b, Puts(text, b)
  PROVE  Shown'
<1>1. SUFFICES ASSUME ~mixed' PROVE Shown'
  BY DEF Shown
<1>2. /\ ~mixed /\ Between /\ vga' = PrintText(vga, text) /\ log' = log \o text
      /\ kernel' = kernel /\ log \in Seq(Marks)
  BY <1>1 DEF Puts, IInv, Typed
<1>3. vga \in Screens /\ Steady(vga) /\ Paper \in Papers /\ Shows(vga, Paper)
  BY <1>2, ShownBetween
<1>4. Shows(vga', FoldLeft(Type, Paper, text))
  BY <1>2, <1>3, TextShown
<1>5. Paper' = FoldLeft(Type, Paper, text)
  <2> DEFINE a == log
  <2>1. Paper = FoldLeft(Type, Paper0, a) /\ Paper' = FoldLeft(Type, Paper0, a \o text)
    BY <1>2 DEF Paper, Paper0
  <2>2. a \in Seq(Marks)
    BY <1>2
  <2> HIDE DEF a
  <2>3. QED
    BY <2>1, <2>2, PaperIn, TypeOn, Zenon
<1>6. Between'
  BY <1>2 DEF Between
<1>7. QED
  BY <1>4, <1>5, <1>6, BetweenShown

(***************************************************************************)
(* The clear command starts over with a blank sheet.                       *)
(***************************************************************************)
LEMMA ClearShown ==
  ASSUME IInv, IInv', KeyEnterClear
  PROVE  Shown'
<1> DEFINE s == Clear(PutChar(vga, NewLine))
<1>1. SUFFICES ASSUME ~mixed' PROVE Shown'
  BY DEF Shown
<1>2. Between /\ vga' = PrintText(s, Prompt) /\ log' = Prompt /\ kernel' = kernel
  BY <1>1 DEF KeyEnterClear
<1>3. NewLine \in Marks /\ vga \in Screens
  BY DEF Marks, IInv, Typed
<1>4. s \in Screens /\ s.mem = Cleared(PutChar(vga, NewLine).mem) /\ s.x = 0 /\ s.y = 0
  BY <1>3, CharPut, ClearedIn
<1> HIDE DEF s
<1>5. W \in Nat \ {0} /\ H \in Nat \ {0}
  BY ConsoleAssumption
<1>6. Steady(s)
  BY <1>4, <1>5 DEF Steady
<1>7. Shows(s, Paper0)
  <2>1. ASSUME NEW a \in 0 .. (W - 1), NEW r \in 0 .. (H - 1)
        PROVE  s.mem[Cell(a, r)] = Space
    <3>1. a \in 0 .. W /\ r \in 0 .. H /\ a < W /\ r < H
      BY <1>5
    <3>2. Cell(a, r) \in Cells /\ Cell(a, r) < W * H
      BY <3>1, CellIn
    <3>3. QED
      BY <1>4, <3>2 DEF Cleared
  <2>2. Pictured(s.mem, 0, <<Line0>>)
    <3> DEFINE lines == <<Line0>>
    <3>1. Len(lines) = 1 /\ lines[1] = Line0 /\ First(1) = 1
      BY <1>5 DEF First
    <3>2. \A a \in 0 .. (W - 1) : Line0[a] = Space
      BY DEF Line0
    <3> HIDE DEF lines
    <3>3. ASSUME NEW a \in 0 .. (W - 1), NEW r \in 0 .. (H - 1)
          PROVE  s.mem[Cell(a, r)] = IF 1 + r > 1 THEN Space ELSE lines[1 + r][a]
      <4>1. CASE r = 0
        BY <2>1, <3>1, <3>2, <4>1
      <4>2. CASE r # 0
        BY <1>5, <2>1, <4>2
      <4>3. QED
        BY <4>1, <4>2
    <3>4. Pictured(s.mem, 0, lines)
      BY <3>1, <3>3 DEF Pictured
    <3>5. QED
      BY <3>4 DEF lines
  <2>3. QED
    BY <1>4, <2>2 DEF Shows, Paper0
<1>8. Prompt \in Seq(Marks)
  BY TextAssumption DEF Marks
<1>9. Shows(vga', FoldLeft(Type, Paper0, Prompt))
  BY <1>2, <1>4, <1>6, <1>7, <1>8, PaperIn, TextShown
<1>10. Paper' = FoldLeft(Type, Paper0, Prompt)
  BY <1>2 DEF Paper, Paper0
<1>11. Between'
  BY <1>2 DEF Between
<1>12. QED
  BY <1>9, <1>10, <1>11, BetweenShown

(***************************************************************************)
(* The rows above the one kernelMain starts in are blank lines.            *)
(***************************************************************************)
LEMMA InitShown == Init => Shown
<1>1. SUFFICES ASSUME Init PROVE Shown
  OBVIOUS
<1>2. PICK row \in 0 .. (H - 1) :
        /\ vga = UpdateCursor([mem |-> Blank, x |-> 0, y |-> row,
                               index |-> "low", high |-> 0, low |-> 0])
        /\ log = [i \in 1 .. row |-> NewLine]
  BY <1>1 DEF Init
<1> DEFINE text == [i \in 1 .. row |-> NewLine]
<1>3. W \in Nat \ {0} /\ H \in Nat \ {0} /\ row \in Nat /\ row < H
  BY ConsoleAssumption
<1>4. text \in Seq(Marks) /\ Len(text) = row /\ \A i \in 1 .. row : text[i] = NewLine
  BY <1>3 DEF Marks
<1>5. log = text
  BY <1>2
<1> HIDE DEF text
<1>6. Blank \in [Cells -> Chars] /\ \A c \in Cells : Blank[c] = Space
  BY DEF Blank, Chars
<1>7. PICK h : TypeSteps(Papers, Paper0, text, h)
  <2>1. \A p \in Papers : \A c \in Marks : Type(p, c) \in Papers
    BY TypeIn
  <2>2. QED
    BY <1>4, <2>1, PaperIn, TypeTrace
<1>8. /\ h \in [0 .. row -> Papers] /\ h[0] = Paper0 /\ Paper = h[row]
      /\ \A k \in 1 .. row : h[k] = Type(h[k - 1], NewLine)
  BY <1>4, <1>5, <1>7, PaperIn DEF TypeSteps
<1> DEFINE A == {k \in 0 .. row : Pictured(Blank, k, h[k].lines) /\ h[k].x = 0}
<1>9. 0 \in A
  <2> DEFINE lines == <<Line0>>
  <2>1. Len(lines) = 1 /\ lines[1] = Line0 /\ First(1) = 1
    BY <1>3 DEF First
  <2>2. \A a \in 0 .. (W - 1) : Line0[a] = Space
    BY DEF Line0
  <2> HIDE DEF lines
  <2>3. ASSUME NEW a \in 0 .. (W - 1), NEW r \in 0 .. (H - 1)
        PROVE  Blank[Cell(a, r)] = IF 1 + r > 1 THEN Space ELSE lines[1 + r][a]
    <3>1. a \in 0 .. W /\ r \in 0 .. H /\ a < W
      BY <1>3
    <3>2. Blank[Cell(a, r)] = Space
      BY <1>6, <3>1, CellIn
    <3>3. CASE r = 0
      BY <2>1, <2>2, <3>2, <3>3
    <3>4. CASE r # 0
      BY <1>3, <3>2, <3>4
    <3>5. QED
      BY <3>3, <3>4
  <2>4. Pictured(Blank, 0, lines)
    BY <2>1, <2>3 DEF Pictured
  <2>5. h[0].lines = lines /\ h[0].x = 0
    BY <1>8 DEF Paper0, lines
  <2>6. QED
    BY <1>3, <2>4, <2>5
<1>10. ASSUME NEW k \in 0 .. (row - 1), k \in A
       PROVE  k + 1 \in A
  <2>1. k + 1 \in 1 .. row /\ (k + 1) - 1 = k /\ k \in 0 .. (H - 1) /\ k + 1 < H
        /\ k + 1 \in 0 .. row /\ k \in 0 .. row
    BY <1>3
  <2>2. h[k + 1] = Type(h[k], NewLine) /\ h[k] \in Papers
    BY <1>8, <2>1
  <2>3. h[k].lines \in Seq(Rows) \ {<< >>} /\ Pictured(Blank, k, h[k].lines)
    BY <1>10, <2>2 DEF Papers
  <2>4. h[k + 1].lines = Append(h[k].lines, Line0) /\ h[k + 1].x = 0
    BY <2>2 DEF Type, Feed
  <2>5. Pictured(Blank, k + 1, Append(h[k].lines, Line0))
    BY <1>6, <2>1, <2>3, Fed
  <2>6. QED
    BY <2>1, <2>4, <2>5
<1>11. row \in A
  <2> HIDE DEF A
  <2>1. 0 .. row \subseteq A
    BY <1>3, <1>9, <1>10, UpTo
  <2>2. QED
    BY <1>3, <2>1
<1>12. vga \in Screens /\ Steady(vga) /\ Between
  BY <1>1, InitIInv DEF IInv, Typed, Placing, Between, Steady, At, Init
<1>13. vga.mem = Blank /\ vga.x = 0 /\ vga.y = row
  BY <1>2 DEF UpdateCursor
<1>14. Shows(vga, Paper)
  BY <1>8, <1>11, <1>13 DEF Shows
<1>15. \A p, t : Midway(vga, p, t)
  BY <1>12 DEF Midway, Screen, Between, At, InCursor
<1>16. QED
  BY <1>12, <1>14, <1>15 DEF Shown

(***************************************************************************)
(* Every step keeps what the screen shows.                                 *)
(***************************************************************************)
LEMMA NextShown == IInv /\ Shown /\ [Next]_vars => Shown'
<1>1. SUFFICES ASSUME IInv, Shown, [Next]_vars PROVE Shown'
  OBVIOUS
<1>2. IInv'
  BY <1>1, NextIInv
<1>3. Chars \subseteq Marks /\ NewLine \in Marks /\ "back" \in Marks /\ Space \in Marks
      /\ Letters \subseteq Marks
  BY DEF Marks, Chars
<1>4. CASE KernelStep
  <2>1. CASE Step /\ UNCHANGED log
    BY <1>1, <1>4, <2>1, StepShown
  <2>2. CASE LastStep
    BY <1>1, <1>4, <2>2, LastStepShown
  <2>3. QED
    BY <1>4, <2>1, <2>2 DEF KernelStep
<1>5. ASSUME NEW c \in Letters, KeyLetter(c)
      PROVE  Shown'
  <2>1. <<c>> \in Seq(Marks)
    BY <1>3
  <2>2. QED
    BY <1>1, <1>2, <1>5, <2>1, PutsShown DEF KeyLetter
<1>6. CASE KeyTab
  <2>1. TabWidth \in Nat
    BY <1>1, <1>6, ConsoleAssumption DEF TabWidth, KeyTab, IInv, Typed
  <2> DEFINE n == TabWidth
  <2> HIDE DEF n
  <2>2. Spaces(n) \in Seq(Marks)
    BY <1>3, <2>1 DEF Spaces, n
  <2>3. Puts(Spaces(n), buffer \o Spaces(n))
    BY <1>6 DEF KeyTab, n
  <2>4. QED
    BY <1>1, <1>2, <2>2, <2>3, PutsShown
<1>7. CASE KeyBackspace
  <2>1. Erased \in Seq(Marks)
    BY <1>3 DEF Erased
  <2>2. QED
    BY <1>1, <1>2, <1>7, <2>1, PutsShown DEF KeyBackspace
<1>8. ASSUME NEW answer \in Answers \cup {<< >>}, NEW disk \in BOOLEAN, KeyEnter(answer, disk)
      PROVE  Shown'
  <2> DEFINE text == <<NewLine>> \o answer \o Prompt
  <2>1. \A u \in Seq(Chars) : u \in Seq(Marks)
    BY <1>3
  <2>2. answer \in Seq(Chars) /\ Prompt \in Seq(Chars)
    <3>1. Answers \subseteq Seq(Chars) /\ Prompt \in Seq(Chars)
      BY TextAssumption
    <3>2. << >> \in Seq(Chars)
      OBVIOUS
    <3>3. QED
      BY <3>1, <3>2
  <2>3. answer \in Seq(Marks) /\ Prompt \in Seq(Marks) /\ <<NewLine>> \in Seq(Marks)
    BY <1>3, <2>1, <2>2
  <2>4. text \in Seq(Marks)
    BY <2>3
  <2>5. Puts(text, << >>)
    BY <1>8 DEF KeyEnter
  <2> HIDE DEF text
  <2>6. QED
    BY <1>1, <1>2, <2>4, <2>5, PutsShown
<1>9. CASE KeyEnterClear
  BY <1>1, <1>2, <1>9, ClearShown
<1>10. ASSUME UNCHANGED <<vga, kernel, mixed, log>>
       PROVE  Shown'
  <2>1. vga' = vga /\ kernel' = kernel /\ mixed' = mixed /\ log' = log
    BY <1>10
  <2>2. Char' = Char /\ Paper' = Paper
    BY <2>1 DEF Char, Paper
  <2>3. \A s, p, t : Midway(s, p, t) => Midway(s, p, t)'
    BY <2>1, <2>2 DEF Midway, Screen, Between, At
  <2>4. QED
    BY <1>1, <2>1, <2>2, <2>3 DEF Shown
<1>11. CASE KeyIgnored
  BY <1>10, <1>11 DEF KeyIgnored
<1>12. CASE Unhandled
  <2>1. mixed'
    BY <1>12 DEF Unhandled
  <2>2. QED
    BY <2>1 DEF Shown
<1>13. CASE UNCHANGED vars
  BY <1>10, <1>13 DEF vars
<1>14. QED
  BY <1>1, <1>4, <1>5, <1>6, <1>7, <1>8, <1>9, <1>11, <1>12, <1>13 DEF Next

(***************************************************************************)
(* ShowsPaper: as long as no key comes in the middle of a character and no *)
(* notice was printed, the screen shows the end of what PutChar was given, *)
(* wrapped, erased and scrolled as on paper.                               *)
(***************************************************************************)
THEOREM SpecShowsPaper == Spec => []ShowsPaper
<1>1. Spec => [](IInv /\ Shown)
  BY InitIInv, InitShown, NextIInv, NextShown, PTL DEF Spec
<1>2. IInv /\ Shown => ShowsPaper
  <2>1. SUFFICES ASSUME IInv, Shown, Between, ~mixed
                 PROVE  Shows(vga, Paper)
    BY DEF ShowsPaper, Shows, Pictured, First
  <2>2. QED
    BY <2>1, ShownBetween
<1>3. QED
  BY <1>1, <1>2, PTL
=============================================================================
