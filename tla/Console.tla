------------------------------ MODULE Console -------------------------------
(***************************************************************************)
(* The text screen (vga.cpp), the shell's line editor (shell.cpp) and the  *)
(* two others that write on the same screen: kernelMain, which goes on     *)
(* printing after it has switched interrupts on, and the printf of         *)
(* kernel.cpp, which tells of an interrupt without handler.                *)
(*                                                                         *)
(* Interrupt handlers run with interrupts off: each key and each such      *)
(* notice is one step.  kernelMain can be interrupted between any two of   *)
(* its accesses to the screen, the cursor and the cursor's registers, so   *)
(* PutChar is there a second time, access by access (the code is compiled  *)
(* without optimisation; Scroll moves a row in one step).  Colours are     *)
(* left out: they are of the cell, not of the text.                        *)
(***************************************************************************)
EXTENDS Integers, Sequences, SequencesExt

CONSTANTS W, H,      \* SCREEN_WIDTH, SCREEN_HEIGHT
          TabStop,   \* spaces the shell puts for a tab
          BufMax,    \* characters commandBuffer takes
          PosBase,   \* positions a cursor register tells apart: 256, scaled down
          BootText,  \* what kernelMain prints from Activate on, prompt included
          Prompt,    \* what PrintPrompt prints
          Answers,   \* what commands print
          Notice,    \* what printf tells of an unhandled interrupt
          Letters,   \* characters typed, other than those below
          MaxKeys    \* bound: keys typed

ASSUME ConsoleAssumption ==
  /\ W \in Nat \ {0} /\ H \in Nat \ {0} /\ TabStop \in Nat \ {0} /\ BufMax \in Nat
  /\ PosBase \in Nat \ {0} /\ MaxKeys \in Nat
  /\ W * (H + 1) <= PosBase * PosBase

Space   == " "
NewLine == "\n"

\* What may stand on the screen or be printed.
Chars == {Space} \cup Letters \cup
         UNION {{t[i] : i \in 1 .. Len(t)} : t \in Answers \cup {BootText, Prompt, Notice}}

\* Texts erase nothing, and a letter is not the end of a line.
ASSUME TextAssumption ==
  /\ BootText \in Seq(Chars) \ {<< >>} /\ Prompt \in Seq(Chars)
  /\ Notice \in Seq(Chars \ {NewLine})
  /\ Answers \subseteq Seq(Chars)
  /\ "back" \notin Chars /\ NewLine \notin Letters

VARIABLES vga,     \* the VGATextMode, its screen and the cursor's registers
          kernel,  \* kernelMain: its place, its next character, its registers
          pen,     \* printf's own x and y
          buffer,  \* commandBuffer, up to bufferIndex
          irq,     \* the disk has raised its line, which has no handler
          keys,    \* ghost: keys typed
          mixed,   \* ghost: characters were put in the middle of one
          log,     \* ghost: the characters put since the screen was blank, while
                   \* that is what the screen shows: empty when mixed
          spoiled, \* ghost: the line typed is not the one on the screen
          torn     \* ghost: a key came between the accesses of UpdateCursor

vars == <<vga, kernel, pen, buffer, irq, keys, mixed, log, spoiled, torn>>

-----------------------------------------------------------------------------
(* VGATextMode.  The last W cells are a row behind the screen: see OnScreen. *)

Cells == 0 .. (W * (H + 1) - 1)

Cell(x, y) == W * y + x

Blank == [c \in Cells |-> Space]

\* UpdateCursor: the position in two registers behind one index register.
UpdateCursor(s) == [s EXCEPT !.index = "low", !.high = Cell(s.x, s.y) \div PosBase,
                                              !.low  = Cell(s.x, s.y) % PosBase]

Cleared(m) == [c \in Cells |-> IF c < W * H THEN Space ELSE m[c]]

Clear(s) == UpdateCursor([s EXCEPT !.mem = Cleared(@), !.x = 0, !.y = 0])

\* Slip in Scroll: the last line is not cleared.
RowUpKeepLast(m, r) ==
  [c \in Cells |-> IF c \div W = r /\ r < H - 1 THEN m[c + W] ELSE m[c]]

\* Scroll, one row: the row below is copied, the last one cleared.
RowUp(m, r) ==
  [c \in Cells |-> IF c \div W # r THEN m[c]
                   ELSE IF r < H - 1 THEN m[c + W] ELSE Space]

Scroll(s) == [s EXCEPT !.mem = FoldLeft(RowUp, @, [r \in 1 .. H |-> r - 1]),
                       !.y = H - 1]

\* The switch of PutChar.  The shell and the kernel put no '\r' and no '\t'.
Place(s, c) ==
  CASE c = NewLine -> [s EXCEPT !.x = 0, !.y = @ + 1]
    [] c = "back" -> IF s.x = 0 THEN s
                   ELSE [s EXCEPT !.x = @ - 1, !.mem[Cell(s.x - 1, s.y)] = Space]
    [] OTHER    -> [s EXCEPT !.x = @ + 1, !.mem[Cell(s.x, s.y)] = c]

\* Slip in PutChar: one column too many.
PastEndLate(x) == x > W

PastEnd(x) == x >= W

Wrap(s) == IF PastEnd(s.x) THEN [s EXCEPT !.x = 0, !.y = @ + 1] ELSE s

\* Slip in PutChar: a scroll leaves the cursor on the screen behind.
PutCharScrollOnly(s, c) ==
  LET t == Wrap(Place(s, c))
  IN IF t.y >= H THEN Scroll(t) ELSE UpdateCursor(t)

PutChar(s, c) ==
  LET t == Wrap(Place(s, c))
  IN UpdateCursor(IF t.y >= H THEN Scroll(t) ELSE t)

PrintText(s, text) == FoldLeft(PutChar, s, text)

-----------------------------------------------------------------------------
(* kernelMain after Activate: PutChar again, one access at a time. *)

Init ==
  /\ \E row \in 0 .. (H - 1) :
       /\ vga = UpdateCursor([mem |-> Blank, x |-> 0, y |-> row,
                              index |-> "low", high |-> 0, low |-> 0])
       /\ log = [i \in 1 .. row |-> NewLine]
  /\ kernel = [at |-> "char", next |-> 1, x |-> 0, y |-> 0, row |-> 0]
  /\ pen = [x |-> 0, y |-> 0]
  /\ buffer = << >>
  /\ irq = FALSE
  /\ keys = 0
  /\ mixed = FALSE /\ spoiled = FALSE /\ torn = FALSE

Done == kernel.at = "done"

\* kernelMain is not inside PutChar.
Between == kernel.at \in {"char", "done"}

At(place) == kernel.at = place

GoTo(place) == kernel' = [kernel EXCEPT !.at = place]

LoadX(place) == kernel' = [kernel EXCEPT !.x = vga.x, !.at = place] /\ UNCHANGED vga
LoadY(place) == kernel' = [kernel EXCEPT !.y = vga.y, !.at = place] /\ UNCHANGED vga

Char == BootText[kernel.next]

\* What each step does to the screen or the registers, and the step after it.
\* After '\n' the check for the end of the line finds nothing, since X was just
\* cleared and no handler leaves it at W.
Step ==
  \/ At("char")       /\ Char = NewLine /\ vga' = [vga EXCEPT !.x = 0] /\ GoTo("load_line")
  \/ At("char")       /\ Char # NewLine /\ LoadY("load_column")
  \/ At("load_column") /\ LoadX("store")
  \/ At("store")      /\ vga' = [vga EXCEPT !.mem[Cell(kernel.x, kernel.y)] = Char]
                      /\ GoTo("load_x")
  \/ At("load_x")     /\ LoadX("store_x")
  \/ At("store_x")    /\ vga' = [vga EXCEPT !.x = kernel.x + 1] /\ GoTo("wrap?")
  \/ At("wrap?")      /\ GoTo(IF PastEnd(vga.x) THEN "wrap" ELSE "scroll?") /\ UNCHANGED vga
  \/ At("wrap")       /\ vga' = [vga EXCEPT !.x = 0] /\ GoTo("load_line")
  \/ At("load_line")  /\ LoadY("store_line")
  \/ At("store_line") /\ vga' = [vga EXCEPT !.y = kernel.y + 1] /\ GoTo("scroll?")
  \/ At("scroll?")    /\ GoTo(IF vga.y >= H THEN "scroll" ELSE "load_y") /\ UNCHANGED vga
  \/ At("scroll")     /\ vga' = [vga EXCEPT !.mem = RowUp(@, kernel.row)]
                      /\ kernel' = [kernel EXCEPT !.row = (@ + 1) % H,
                                      !.at = IF kernel.row = H - 1 THEN "last_line" ELSE "scroll"]
  \/ At("last_line")  /\ vga' = [vga EXCEPT !.y = H - 1] /\ GoTo("load_y")
  \/ At("load_y")     /\ LoadY("position")
  \/ At("position")   /\ LoadX("index_high")
  \/ At("index_high") /\ vga' = [vga EXCEPT !.index = "high"] /\ GoTo("high")
  \/ At("high")       /\ vga' = [vga EXCEPT ![vga.index] = Cell(kernel.x, kernel.y) \div PosBase]
                      /\ GoTo("index_low")
  \/ At("index_low")  /\ vga' = [vga EXCEPT !.index = "low"] /\ GoTo("low")

\* The last access of UpdateCursor, and the next character.
LastStep ==
  /\ At("low")
  /\ vga' = [vga EXCEPT ![vga.index] = Cell(kernel.x, kernel.y) % PosBase]
  /\ kernel' = [kernel EXCEPT !.next = @ + 1, !.x = 0, !.y = 0,
                  !.at = IF kernel.next = Len(BootText) THEN "done" ELSE "char"]
  /\ log' = IF mixed THEN << >> ELSE Append(log, Char)

KernelStep ==
  /\ \/ Step /\ UNCHANGED log
     \/ LastStep
  /\ torn' = (torn /\ ~At("char"))
  /\ UNCHANGED <<pen, buffer, irq, keys, mixed, spoiled>>

-----------------------------------------------------------------------------
(* HandleKeyPress, called by the keyboard handler. *)

\* kernelMain is inside UpdateCursor, with a position it has begun to load.
InUpdateCursor ==
  kernel.at \in {"position", "index_high", "high", "index_low", "low"}

\* The handler runs to its end, puts the characters text on the screen and
\* leaves the line b.
Puts(text, b) ==
  /\ vga' = PrintText(vga, text)
  /\ buffer' = b
  /\ mixed' = (mixed \/ ~Between)
  /\ log' = IF mixed' THEN << >> ELSE log \o text
  /\ torn' = InUpdateCursor
  /\ UNCHANGED <<kernel, pen>>

Pressed == keys < MaxKeys /\ keys' = keys + 1

Spaces(n) == [i \in 1 .. n |-> Space]

KeyLetter(c) ==
  /\ Pressed
  /\ Len(buffer) < BufMax
  /\ Puts(<<c>>, Append(buffer, c))
  /\ spoiled' = (spoiled \/ ~Done)
  /\ UNCHANGED irq

\* Slip in the loop for a tab: the room left is not looked at.
TabWidthAlways == TabStop

TabWidth == IF BufMax - Len(buffer) < TabStop THEN BufMax - Len(buffer) ELSE TabStop

KeyTab ==
  /\ Pressed
  /\ Len(buffer) < BufMax
  /\ Puts(Spaces(TabWidth), buffer \o Spaces(TabWidth))
  /\ spoiled' = (spoiled \/ ~Done)
  /\ UNCHANGED irq

\* Slip in the case of a backspace: the screen is not told.
ErasedNot == << >>

Erased == <<"back">>

\* In column 0 the character leaves the buffer and stays on the screen.
KeyBackspace ==
  /\ Pressed
  /\ buffer # << >>
  /\ Puts(Erased, Front(buffer))
  /\ spoiled' = (spoiled \/ ~Done \/ vga.x = 0)
  /\ UNCHANGED irq

\* ExecuteCommand skips a blank line.
BlankLine == \A i \in 1 .. Len(buffer) : buffer[i] = Space

\* A line that prints text, and raises the disk's line when disk is TRUE.
KeyEnter(text, disk) ==
  /\ Pressed
  /\ IF BlankLine THEN text = << >> /\ ~disk ELSE text \in Answers
  /\ Puts(<<NewLine>> \o text \o Prompt, << >>)
  /\ spoiled' = ~Done
  /\ irq' = (irq \/ disk)

\* The clear command.
KeyEnterClear ==
  /\ Pressed
  /\ ~BlankLine
  /\ vga' = PrintText(Clear(PutChar(vga, NewLine)), Prompt)
  /\ buffer' = << >>
  /\ mixed' = ~Between
  /\ log' = IF mixed' THEN << >> ELSE Prompt
  /\ spoiled' = ~Done
  /\ torn' = InUpdateCursor
  /\ UNCHANGED <<kernel, pen, irq>>

\* Nothing but Enter gets into a full buffer, and nothing out of an empty one.
KeyIgnored ==
  /\ Pressed
  /\ Len(buffer) = BufMax \/ buffer = << >>
  /\ UNCHANGED <<vga, kernel, pen, buffer, irq, log, mixed, spoiled, torn>>

-----------------------------------------------------------------------------
(* printf of kernel.cpp, with a cursor of its own. *)

PenPast(p) == IF p.x >= W THEN [p EXCEPT !.x = 0, !.y = @ + 1] ELSE p

\* A character of printf: at the end of the screen it starts over on a blank
\* one.
PenPut(p, c) ==
  LET q == PenPast([mem |-> [p.mem EXCEPT ![Cell(p.x, p.y)] = c], x |-> p.x + 1, y |-> p.y])
  IN IF q.y >= H THEN [mem |-> Cleared(q.mem), x |-> 0, y |-> 0] ELSE q

\* The cells of the line that is being typed.
Line == {i \in Cells : Cell(vga.x, vga.y) - Len(buffer) <= i /\ i < Cell(vga.x, vga.y)}

\* DoHandleInterrupt for the disk's line: no handler is registered for it.
Unhandled ==
  /\ irq
  /\ irq' = FALSE
  /\ LET p == FoldLeft(PenPut, [mem |-> vga.mem, x |-> pen.x, y |-> pen.y], Notice)
     IN /\ vga' = [vga EXCEPT !.mem = p.mem]
        /\ pen' = [x |-> p.x, y |-> p.y]
        /\ spoiled' = (spoiled \/ \E i \in Line : p.mem[i] # vga.mem[i])
  /\ mixed' = TRUE
  /\ log' = << >>
  /\ UNCHANGED <<kernel, buffer, keys, torn>>

Next ==
  \/ KernelStep
  \/ \E c \in Letters : KeyLetter(c)
  \/ KeyTab \/ KeyBackspace
  \/ \E text \in Answers \cup {<< >>}, disk \in BOOLEAN : KeyEnter(text, disk)
  \/ KeyEnterClear \/ KeyIgnored
  \/ Unhandled

Spec == Init /\ [][Next]_vars

-----------------------------------------------------------------------------
(* The reference: a roll of paper, of which the screen shows the end. *)

Line0 == [x \in 0 .. (W - 1) |-> Space]

Feed(paper) == [lines |-> Append(paper.lines, Line0), x |-> 0]

\* A character typed on the paper.
Type(paper, c) ==
  LET last == Len(paper.lines)
      at(x, d) == [paper EXCEPT !.lines[last][x] = d]
  IN IF c = NewLine THEN Feed(paper)
     ELSE IF c = "back" /\ paper.x = 0 THEN paper
     ELSE IF c = "back" THEN [at(paper.x - 1, Space) EXCEPT !.x = @ - 1]
     ELSE IF paper.x = W - 1 THEN Feed(at(paper.x, c))
     ELSE [at(paper.x, c) EXCEPT !.x = @ + 1]

Paper == FoldLeft(Type, [lines |-> <<Line0>>, x |-> 0], log)

-----------------------------------------------------------------------------
(* Properties. *)

Places == {"char", "load_column", "store", "load_x", "store_x", "wrap?", "wrap", "load_line",
           "store_line", "scroll?", "scroll", "last_line", "load_y", "position",
           "index_high", "high", "index_low", "low", "done"}

\* The variables have their types; the index of commandBuffer stays in it.
TypeOK ==
  /\ vga \in [mem : [Cells -> Chars], x : 0 .. W, y : 0 .. H, index : {"high", "low"},
              high : 0 .. ((W * (H + 1)) \div PosBase), low : 0 .. (PosBase - 1)]
  /\ kernel \in [at : Places, next : 1 .. (Len(BootText) + 1), x : 0 .. W, y : 0 .. H,
                 row : 0 .. (H - 1)]
  /\ pen \in [x : 0 .. (W - 1), y : 0 .. (H - 1)]
  /\ Len(buffer) <= BufMax
  /\ keys \in 0 .. MaxKeys
  /\ irq \in BOOLEAN /\ mixed \in BOOLEAN /\ spoiled \in BOOLEAN /\ torn \in BOOLEAN

\* Wherever a key interrupts PutChar, kernelMain stores its characters on the
\* screen, a handler at worst in the row behind it, and after each character
\* the cursor is on the screen again.
OnScreen ==
  /\ Cell(vga.x, vga.y) \in Cells
  /\ At("store") => Cell(kernel.x, kernel.y) < W * H
  /\ Between => vga.x < W /\ vga.y < H

\* As long as no key comes in the middle of a character of kernelMain and no
\* notice was printed, the screen shows the end of all that was put, wrapped,
\* erased and scrolled as on paper, with the cursor behind it.
ShowsPaper ==
  Between /\ ~mixed =>
    LET paper == Paper
        last  == Len(paper.lines)
        top   == IF last > H THEN last - H + 1 ELSE 1
    IN /\ \A x \in 0 .. (W - 1), y \in 0 .. (H - 1) :
            vga.mem[Cell(x, y)] = IF top + y > last THEN Space ELSE paper.lines[top + y][x]
       /\ vga.x = paper.x
       /\ top + vga.y = last

\* What the user sees before the cursor is what Enter will execute, whatever
\* wrapped, scrolled or was erased, also after keys that came too early once
\* Enter was pressed; but for a line begun before the prompt was complete, a
\* backspace in column 0 and a notice printed over the line.
LineShown ==
  Done /\ ~spoiled =>
    \A j \in 1 .. Len(buffer) :
      Cell(vga.x, vga.y) >= j =>
        vga.mem[Cell(vga.x, vga.y) - j] = buffer[Len(buffer) + 1 - j]

\* Between characters the cursor on the screen is where the next one goes,
\* also after keys in the middle of one, unless the last one came between the
\* accesses of UpdateCursor.
CursorTracked ==
  Between /\ ~torn => vga.high * PosBase + vga.low = Cell(vga.x, vga.y)
=============================================================================
