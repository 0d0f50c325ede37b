----------------------------- MODULE TermScreen -----------------------------
(***************************************************************************)
(* What the serial console shows (InputHandler, the scrolling and resizing *)
(* of Terminal, and RenderCoordinator in xterm.js; the calls of            *)
(* vmango.WSConsole.js).                                                   *)
(*                                                                         *)
(* The guest's output arrives in chunks.  A chunk is parsed in one go, so  *)
(* nothing comes between its first and its last control function; a chunk  *)
(* notes the rows it changed (from, to) and asks at its end for them to be *)
(* drawn; the browser's next animation frame draws what was asked.         *)
(* An exception leaves the writer for good: _writeInProgress stays set and *)
(* no later chunk is ever parsed.  `stuck' then names the function.        *)
(***************************************************************************)
EXTENDS TermSelection
LOCAL INSTANCE SequencesExt

CONSTANTS DefaultSize,    \* <<cols, rows>> of a new terminal
          WideCols,       \* columns of the wide mode (132 in the code)
          Counts,         \* numeric parameters of control functions, 0 = none
          Guests          \* [fits |-> sizes the page may have room for,
                          \*  greeted |-> its first message has come,
                          \*  uses |-> control functions, left |-> how many of them,
                          \*  letters |-> what it prints,
                          \*  modes |-> <<mode, private>> it sets and resets,
                          \*  moves |-> what the user does]: one is played

VARIABLES term,           \* the terminal
          stale,          \* rows that are not on the page as the buffer has them
          lax,            \* something of `UndrawnSteps' was done since all rows were drawn
          strayed,        \* the cursor has been above the screen
          guest,          \* what is still to come, and from whom
          greeting        \* no message of the guest has come yet
screenVars == <<term, stale, lax, strayed, guest, greeting>>

NewTerm(size) ==
    [set |-> NewBuffers(size[1], size[2]), wrap |-> TRUE, insert |-> FALSE,
     scrolled |-> FALSE, savedCols |-> 0, open |-> FALSE, from |-> 0, to |-> 0,
     ask |-> <<>>, paused |-> FALSE, full |-> FALSE, stuck |-> "", last |-> "",
     sel |-> NoSelection]

Cols(t) == t.set.normal.cols
Rows(t) == t.set.normal.rows
Buf(t) == Active(t.set)
With(t, b) == [t EXCEPT !.set[t.set.active] = b]
Throw(t) == [t EXCEPT !.stuck = t.last]
AtLeast1(n) == IF n < 1 THEN 1 ELSE n

\* refreshRows and RenderDebouncer.refresh: the rows from the first to the last
\* asked for are drawn in the next frame; nothing is while the page is hidden.
Refresh(t, lo, hi) ==
    IF t.paused THEN [t EXCEPT !.full = TRUE]
    ELSE [t EXCEPT !.ask = IF @ = <<>> THEN <<lo, hi>>
                           ELSE <<Least(@[1], lo), Most(@[2], hi)>>]
RefreshAll(t) == Refresh(t, 0, Rows(t) - 1)

UpdateRange(t, y) == [t EXCEPT !.from = Least(@, y), !.to = Most(@, y)]

\* Changes the line of row y, or throws when there is none.
EditLine(t, y, New(_)) ==
    LET b == Buf(t)
        line == At(b.lines, b.ybase + y)
    IN  IF line = None THEN Throw(t)
        ELSE With(t, [b EXCEPT !.lines = Put(@, b.ybase + y, New(line))])

\* n times, unless one of them throws.
Times(t, n, Step(_)) ==
    LET Once(s, i) == IF s.stuck # "" THEN s ELSE Step(s)
    IN  Loop(Once, t, Up(1, n))

-----------------------------------------------------------------------------
(***************************************************************************)
(* scroll: the region moves up.  A region that begins in the first row     *)
(* gives its line to the scrollback, and the screen moves down with it;    *)
(* another region loses it.                                                *)
(***************************************************************************)
Scroll(t, wrapped) ==
    LET b == Buf(t)
        line == Blank(Cols(t), wrapped)
        top == b.ybase + b.top
        bottom == b.ybase + b.bottom
        full == IsFull(b.lines)
        Lines(l) == IF bottom # l.length - 1 THEN Splice(l, bottom + 1, 0, <<line>>)
                    ELSE IF full THEN Recycle(l, line) ELSE Push(l, line)
        moved == [b EXCEPT !.lines = Lines(@),
                           !.ybase = IF full THEN @ ELSE @ + 1,
                           !.ydisp = IF ~full THEN (IF t.scrolled THEN @ ELSE @ + 1)
                                     ELSE IF t.scrolled THEN Most(@ - 1, 0) ELSE @]
        shifted == [b EXCEPT !.lines =
                       Put(ShiftElements(@, top + 1, bottom - top, -1), bottom, line)]
        Seen(new) == IF t.scrolled THEN new ELSE [new EXCEPT !.ydisp = new.ybase]
    IN  IF b.top # 0 /\ ShiftThrows(b.lines, top + 1, bottom - top, -1) THEN Throw(t)
        ELSE UpdateRange(UpdateRange(With(t, Seen(IF b.top = 0 THEN moved ELSE shifted)),
                                     b.top), b.bottom)

\* A cursor after the last column goes back to it.
Unwrapped(t) ==
    IF t.stuck # "" \/ Buf(t).x < Cols(t) THEN t ELSE With(t, [Buf(t) EXCEPT !.x = @ - 1])

\* One row down, scrolling at the bottom of the region (lineFeed, index).
RowDown(t) ==
    Unwrapped(IF Buf(t).y + 1 > Buf(t).bottom THEN Scroll(t, FALSE)
              ELSE With(t, [Buf(t) EXCEPT !.y = @ + 1]))

LineFeed(t) == RowDown(t)
Index(t) == RowDown(t)

ReverseIndex(t) ==
    LET b == Buf(t)
        row == b.ybase + b.y
    IN  IF b.y # b.top THEN With(t, [b EXCEPT !.y = @ - 1])
        ELSE IF ShiftThrows(b.lines, row, b.bottom - b.top, 1) THEN Throw(t)
        ELSE UpdateRange(UpdateRange(
               With(t, [b EXCEPT !.lines = Put(ShiftElements(@, row, b.bottom - b.top, 1),
                                               row, Blank(Cols(t), FALSE))]),
               b.top), b.bottom)

\* print, where the letter does not fit: the next row, marked as wrapped.
\* The mark goes to line y of the list, which is the row only where nothing
\* was scrolled.
WrapRow(t) ==
    LET b == Buf(t)
        line == At(b.lines, b.y + 1)
    IN  IF b.y + 1 > b.bottom THEN Scroll(With(t, [b EXCEPT !.x = 0]), TRUE)
        ELSE IF line = None THEN Throw(t)
        ELSE With(t, [b EXCEPT !.x = 0, !.y = @ + 1,
                               !.lines = Put(@, b.y + 1, [line EXCEPT !.wrapped = TRUE])])

LOCAL Write(t, c, w) ==
    LET b == Buf(t)
        Whole1(line) ==
          IF Cell(line, Cols(t) - 1) = Wide THEN SetCell(line, Cols(t) - 1, Null) ELSE line
        Half2(line) == IF w = 2 THEN SetCell(line, b.x + 1, Half) ELSE line
        New(line) ==
          Half2(SetCell(IF t.insert THEN Whole1(InsertCells(line, b.x, w)) ELSE line, b.x, c))
        Past(e) == IF e.stuck # "" THEN e ELSE With(e, [Buf(e) EXCEPT !.x = @ + Most(w, 1)])
    IN  IF t.stuck # "" THEN t ELSE Past(EditLine(t, b.y, New))

Join(t) ==
    LET b == Buf(t)
        New(line) == IF Width(Cell(line, b.x - 1)) = 0 THEN AddMark(line, b.x - 2)
                     ELSE AddMark(line, b.x - 1)
    IN  EditLine(t, b.y, New)

PrintChar(t, c) ==
    LET w == Width(c)
        fits == Buf(t).x + w - 1 < Cols(t)
        Printed(p) == IF p.stuck # "" THEN p
                      ELSE UpdateRange(UpdateRange(p, Buf(t).y), Buf(p).y)
    IN  Printed(CASE w = 0 /\ Buf(t).x # 0 -> Join(t)
                  [] (w # 0 \/ Buf(t).x = 0) /\ ~fits /\ ~t.wrap /\ w = 2 -> t
                  [] OTHER -> Write(IF fits \/ ~t.wrap THEN t ELSE WrapRow(t), c, w))

-----------------------------------------------------------------------------
\* The cursor.
Move(t, x, y) == With(t, [Buf(t) EXCEPT !.x = x, !.y = y])

CarriageReturn(t) == Move(t, 0, Buf(t).y)
Backspace(t) == Move(t, Most(Buf(t).x - 1, 0), Buf(t).y)
Tab(t) == Move(t, NextStop(Buf(t), Buf(t).x), Buf(t).y)
CursorUp(t, n) == Move(t, Buf(t).x, Most(Buf(t).y - AtLeast1(n), 0))
CursorDown(t, n) ==
    Move(t, IF Buf(t).x >= Cols(t) THEN Buf(t).x - 1 ELSE Buf(t).x,
            Least(Buf(t).y + AtLeast1(n), Rows(t) - 1))
CursorForward(t, n) == Move(t, Least(Buf(t).x + AtLeast1(n), Cols(t) - 1), Buf(t).y)
CursorBackward(t, n) ==
    LET x == IF Buf(t).x >= Cols(t) THEN Buf(t).x - 1 ELSE Buf(t).x
    IN  Move(t, Most(x - AtLeast1(n), 0), Buf(t).y)
CursorNextLine(t, n) == Move(t, 0, Least(Buf(t).y + AtLeast1(n), Rows(t) - 1))
CursorPrecedingLine(t, n) == Move(t, 0, Most(Buf(t).y - AtLeast1(n), 0))
CursorCharAbsolute(t, n) == Move(t, AtLeast1(n) - 1, Buf(t).y)
CursorPosition(t, r, c) ==
    Move(t, Least(Most(c - 1, 0), Cols(t) - 1), Least(Most(r - 1, 0), Rows(t) - 1))
CharPosAbsolute(t, n) == Move(t, Least(AtLeast1(n) - 1, Cols(t) - 1), Buf(t).y)
HPositionRelative(t, n) == Move(t, Least(Buf(t).x + AtLeast1(n), Cols(t) - 1), Buf(t).y)
LinePosAbsolute(t, n) == Move(t, Buf(t).x, Least(AtLeast1(n) - 1, Rows(t) - 1))
VPositionRelative(t, n) == CursorDown(t, n)
HVPosition(t, r, c) ==
    Move(t, Least(AtLeast1(c) - 1, Cols(t) - 1), Least(AtLeast1(r) - 1, Rows(t) - 1))
CursorForwardTab(t, n) == Times(t, AtLeast1(n), Tab)
CursorBackwardTab(t, n) ==
    LET Back(s) == Move(s, PrevStop(Buf(s), Buf(s).x), Buf(s).y)
    IN  Times(t, AtLeast1(n), Back)
TabSet(t) == With(t, [Buf(t) EXCEPT !.tabs = @ \cup {Buf(t).x}])
TabClear(t, n) ==
    CASE n = 0 -> With(t, [Buf(t) EXCEPT !.tabs = @ \ {Buf(t).x}])
      [] n = 3 -> With(t, [Buf(t) EXCEPT !.tabs = {}])
      [] OTHER -> t
SaveCursor(t) == With(t, [Buf(t) EXCEPT !.savedX = Buf(t).x, !.savedY = Buf(t).y])
RestoreCursor(t) == Move(t, Buf(t).savedX, Buf(t).savedY)
NextLine(t) == Index(CarriageReturn(t))
SetScrollRegion(t, top, bottom) ==
    With(t, [Buf(t) EXCEPT !.top = AtLeast1(top) - 1,
                           !.bottom = (IF bottom \in 1..Rows(t) THEN bottom ELSE Rows(t)) - 1,
                           !.x = 0, !.y = 0])

-----------------------------------------------------------------------------
\* Erasing, and moving lines and cells.
EraseLine(t, y, start, end, clearWrap) ==
    LET New(line) == LET e == ReplaceCells(line, start, end, Null)
                     IN  IF clearWrap THEN [e EXCEPT !.wrapped = FALSE] ELSE e
    IN  IF t.stuck # "" THEN t ELSE EditLine(t, y, New)

ResetLines(t, rows) ==
    LET One(s, y) == EraseLine(s, y, 0, Cols(t), TRUE) IN Loop(One, t, rows)

EraseBelow(t) ==
    LET y == Buf(t).y
        e == EraseLine(t, y, Buf(t).x, Cols(t), Buf(t).x = 0)
    IN  UpdateRange(UpdateRange(ResetLines(e, Up(y + 1, Rows(t) - 1)), y), Rows(t))

\* Mutant: the next line is unmarked wherever the cursor is.
EraseAboveAlways(t) ==
    LET b == Buf(t)
        Next(e) == At(Buf(e).lines, b.y + 1)
        Below(e) ==
          CASE e.stuck # "" -> e
            [] e.stuck = "" /\ Next(e) = None -> Throw(e)
            [] OTHER -> With(e, [Buf(e) EXCEPT !.lines =
                                   Put(@, b.y + 1, [Next(e) EXCEPT !.wrapped = FALSE])])
    IN  IF b.y < 0 THEN Throw(t)
        ELSE UpdateRange(UpdateRange(
               ResetLines(Below(EraseLine(t, b.y, 0, b.x + 1, TRUE)), Down(b.y - 1, 0)),
               b.y), 0)

\* The row after a line erased to its end continues nothing: line y + 1 of the
\* list is unmarked, and where it does not exist the code throws.
EraseAbove(t) ==
    LET b == Buf(t)
        Next(e) == At(Buf(e).lines, b.y + 1)
        Below(e) ==
          CASE b.x + 1 < Cols(t) \/ e.stuck # "" -> e
            [] b.x + 1 >= Cols(t) /\ e.stuck = "" /\ Next(e) = None -> Throw(e)
            [] OTHER -> With(e, [Buf(e) EXCEPT !.lines =
                                   Put(@, b.y + 1, [Next(e) EXCEPT !.wrapped = FALSE])])
    IN  IF b.y < 0 THEN Throw(t)
        ELSE UpdateRange(UpdateRange(
               ResetLines(Below(EraseLine(t, b.y, 0, b.x + 1, TRUE)), Down(b.y - 1, 0)),
               b.y), 0)

EraseAll(t) ==
    UpdateRange(UpdateRange(ResetLines(t, Down(Rows(t) - 1, 0)), Rows(t) - 1), 0)

\* Mutant: the screen is still taken to begin where it did.
EraseScrollbackKeepsBase(t) ==
    LET b == Buf(t)
        over == b.lines.length - Rows(t)
    IN  IF over <= 0 THEN t ELSE With(t, [b EXCEPT !.lines = TrimStart(@, over)])

EraseScrollback(t) ==
    LET b == Buf(t)
        over == b.lines.length - Rows(t)
    IN  IF over <= 0 THEN t
        ELSE With(t, [b EXCEPT !.lines = TrimStart(@, over),
                               !.ybase = Most(@ - over, 0), !.ydisp = Most(@ - over, 0)])

EraseInDisplay(t, k) ==
    CASE k = 0 -> EraseBelow(t) [] k = 1 -> EraseAbove(t)
      [] k = 2 -> EraseAll(t)   [] k = 3 -> EraseScrollback(t)

EraseInLine(t, k) ==
    LET x == Buf(t).x
        e == EraseLine(t, Buf(t).y, IF k = 0 THEN x ELSE 0,
                       IF k = 1 THEN x + 1 ELSE Cols(t), FALSE)
    IN  UpdateRange(e, Buf(t).y)

\* n times: a line goes at `out' and a blank one comes at `in'.
ShiftLines(t, n, out, in) ==
    Times(t, AtLeast1(n),
          LAMBDA s : With(s, [Buf(s) EXCEPT !.lines =
              Splice(Splice(@, out, 1, <<>>), in, 0, <<Blank(Cols(t), FALSE)>>)]))

\* Mutant: the rows that moved are not drawn again.
InsertLinesQuietly(t, n) ==
    ShiftLines(t, n, Buf(t).ybase + Buf(t).bottom, Buf(t).ybase + Buf(t).y)

InsertLines(t, n) ==
    LET b == Buf(t)
    IN  UpdateRange(UpdateRange(ShiftLines(t, n, b.ybase + b.bottom, b.ybase + b.y),
                                b.y), b.bottom)
DeleteLines(t, n) ==
    LET b == Buf(t)
    IN  UpdateRange(UpdateRange(ShiftLines(t, n, b.ybase + b.y, b.ybase + b.bottom),
                                b.y), b.bottom)
ScrollUp(t, n) ==
    LET b == Buf(t)
    IN  UpdateRange(UpdateRange(ShiftLines(t, n, b.ybase + b.top, b.ybase + b.bottom),
                                b.top), b.bottom)
ScrollDown(t, n) ==
    LET b == Buf(t)
    IN  UpdateRange(UpdateRange(ShiftLines(t, n, b.ybase + b.bottom, b.ybase + b.top),
                                b.top), b.bottom)

InsertChars(t, n) ==
    LET New(line) == InsertCells(line, Buf(t).x, AtLeast1(n))
    IN  UpdateRange(EditLine(t, Buf(t).y, New), Buf(t).y)
DeleteChars(t, n) ==
    LET New(line) == DeleteCells(line, Buf(t).x, AtLeast1(n))
    IN  UpdateRange(EditLine(t, Buf(t).y, New), Buf(t).y)
EraseChars(t, n) ==
    LET New(line) == ReplaceCells(line, Buf(t).x, Buf(t).x + AtLeast1(n), Null)
    IN  EditLine(t, Buf(t).y, New)
RepeatPrecedingCharacter(t, n) ==
    LET x == Buf(t).x
        New(line) == ReplaceCells(line, x, x + AtLeast1(n),
                        IF x - 1 \in 0..(Length(line) - 1) THEN Cell(line, x - 1) ELSE Null)
    IN  EditLine(t, Buf(t).y, New)

-----------------------------------------------------------------------------
\* The terminal as a whole.
LOCAL Resized(t, before) ==
    IF t.set.normal.thrown THEN Throw(before) ELSE RefreshAll(t)

ResizeTerm(t, cols, rows) ==
    IF cols = Cols(t) /\ rows = Rows(t) THEN t
    ELSE Resized([t EXCEPT !.set = ResizeBuffers(@, Most(cols, 2), Most(rows, 1))], t)

\* Another buffer is shown: what was selected in this one is forgotten.
Show(t, kind) ==
    RefreshAll([t EXCEPT !.set = IF kind = "alt" THEN ActivateAlt(@) ELSE ActivateNormal(@),
                         !.sel = IF t.set.active = kind THEN @ ELSE ClearSelection(@)])
UseAlt(t) == Show(t, "alt")
UseNormal(t) == Show(t, "normal")

MouseModes == {9, 1000, 1002, 1003}

\* setMode and resetMode of one mode; private modes come with a `?'.
SetMode(t, mode, private) ==
    CASE mode = 4 /\ ~private -> [t EXCEPT !.insert = TRUE]
      [] mode = 7 /\ private -> [t EXCEPT !.wrap = TRUE]
      [] mode = 3 /\ private ->
            ResizeTerm([t EXCEPT !.savedCols = Cols(t)], WideCols, Rows(t))
      [] mode = 1048 /\ private -> SaveCursor(t)
      [] mode = 1049 /\ private -> UseAlt(SaveCursor(t))
      [] mode \in {47, 1047} /\ private -> UseAlt(t)
      [] mode \in MouseModes /\ private -> [t EXCEPT !.sel = Disable(@)]
      [] OTHER -> t

ResetMode(t, mode, private) ==
    CASE mode = 4 /\ ~private -> [t EXCEPT !.insert = FALSE]
      [] mode = 7 /\ private -> [t EXCEPT !.wrap = FALSE]
      [] mode = 3 /\ private ->
            [(IF Cols(t) = WideCols /\ t.savedCols # 0
              THEN ResizeTerm(t, t.savedCols, Rows(t)) ELSE t) EXCEPT !.savedCols = 0]
      [] mode = 1048 /\ private -> RestoreCursor(t)
      [] mode = 1049 /\ private -> RestoreCursor(UseNormal(t))
      [] mode \in {47, 1047} /\ private -> UseNormal(t)
      [] mode \in MouseModes /\ private -> [t EXCEPT !.sel = Enable(@)]
      [] OTHER -> t

SoftReset(t) ==
    With([t EXCEPT !.insert = FALSE, !.wrap = TRUE],
         [Buf(t) EXCEPT !.top = 0, !.bottom = Rows(t) - 1, !.x = 0, !.y = 0])

\* reset makes new buffers; whether the user had scrolled up is kept.
Reset(t) ==
    RefreshAll([t EXCEPT !.set = NewBuffers(Cols(t), Rows(t)),
                         !.wrap = TRUE, !.insert = FALSE, !.sel = ClearSelection(@)])

\* clear: the cursor's line becomes the first, the others go.
Clear(t) ==
    LET b == Buf(t)
        line == At(b.lines, b.ybase + b.y)
        More(l, i) == Push(l, Blank(Cols(t), FALSE))
        lines == Loop(More, SetLength(Put(b.lines, 0, line), 1), Up(1, Rows(t) - 1))
    IN  IF b.ybase = 0 /\ b.y = 0 THEN t
        ELSE RefreshAll(With(t, [b EXCEPT !.lines = lines, !.ydisp = 0, !.ybase = 0, !.y = 0]))

ScrollLines(t, n) ==
    LET b == Buf(t)
        s == IF n < 0 THEN [t EXCEPT !.scrolled = TRUE]
             ELSE IF n + b.ydisp >= b.ybase THEN [t EXCEPT !.scrolled = FALSE] ELSE t
        ydisp == Most(Least(b.ydisp + n, b.ybase), 0)
    IN  IF n < 0 /\ b.ydisp = 0 THEN t
        ELSE IF ydisp = b.ydisp THEN s
        ELSE RefreshAll(With(s, [b EXCEPT !.ydisp = ydisp]))

\* handler: what is sent to the guest ends the selection and brings the view
\* down to the screen.
SendData(t) ==
    LET c == IF HasSelection(Buf(t), t.sel) THEN [t EXCEPT !.sel = ClearSelection(@)] ELSE t
    IN  IF Buf(t).ybase = Buf(t).ydisp THEN c
        ELSE ScrollLines(c, Buf(t).ybase - Buf(t).ydisp)

-----------------------------------------------------------------------------
(***************************************************************************)
(* Actions.                                                                *)
(***************************************************************************)
Shown(t, r) == At(Buf(t).lines, Buf(t).ydisp + r).cells

\* Lines that left the list (onTrim), none when another list is shown.
Gone(t, u) == IF t.set.active = u.set.active
              THEN Most(Buf(u).lines.trimmed - Buf(t).lines.trimmed, 0) ELSE 0

\* The terminal is now t; `blind' says that a step need not have drawn it.
Becomes(t, blind) ==
    /\ term' = [t EXCEPT !.sel = OnTrim(@, Gone(term, t))]
    /\ stale' = {r \in 0..(Rows(t) - 1) : \/ r \in stale
                                          \/ Rows(t) # Rows(term)
                                          \/ Shown(t, r) # Shown(term, r)}
    /\ lax' = (lax \/ blind)
    /\ strayed' = (strayed \/ Buf(t).y < 0)

\* The end of a chunk (_innerWrite).
EndChunk(t) ==
    LET u == UpdateRange(t, Buf(t).y)
    IN  [Refresh(u, u.from, u.to) EXCEPT !.open = FALSE, !.from = 0, !.to = 0]

\* One control function: the first of a chunk or a later one, perhaps the last.
\* Until the guest's first message the page itself writes its greetings.
Greetings == {"print", "lineFeed", "carriageReturn"}
Undrawn == {"eraseChars", "repeatPrecedingCharacter", "eraseScrollback"}

Does(name, F(_)) ==
    /\ name \in guest.uses
    /\ greeting => name \in Greetings
    /\ guest.left > 0
    /\ term.stuck = ""
    /\ guest' = [guest EXCEPT !.left = @ - 1]
    /\ UNCHANGED greeting
    /\ \E begun \in {IF term.open THEN term
                     ELSE [term EXCEPT !.open = TRUE, !.from = Buf(term).y,
                                       !.to = Buf(term).y]} :
       \E t \in {F([begun EXCEPT !.last = name])} :
       \E more \in IF guest.left > 1 /\ t.stuck = "" THEN BOOLEAN ELSE {FALSE} :
          Becomes([(IF more \/ t.stuck # "" THEN t ELSE EndChunk(t)) EXCEPT !.last = ""],
                  name \in Undrawn \/ Buf(term).ydisp # Buf(term).ybase)

Prints == \E c \in guest.letters : Does("print", LAMBDA t : PrintChar(t, c))

Plain == \/ Does("lineFeed", LineFeed)
         \/ Does("carriageReturn", CarriageReturn)
         \/ Does("index", Index)
         \/ Does("nextLine", NextLine)
         \/ Does("reverseIndex", ReverseIndex)
         \/ Does("backspace", Backspace)
         \/ Does("tab", Tab)
         \/ Does("tabSet", TabSet)
         \/ Does("saveCursor", SaveCursor)
         \/ Does("restoreCursor", RestoreCursor)
         \/ Does("softReset", SoftReset)
         \/ Does("sendDeviceAttributes", SendData)
         \/ Does("reset", Reset)

Moves == \E n \in Counts :
    \/ Does("cursorUp", LAMBDA t : CursorUp(t, n))
    \/ Does("cursorDown", LAMBDA t : CursorDown(t, n))
    \/ Does("cursorForward", LAMBDA t : CursorForward(t, n))
    \/ Does("cursorBackward", LAMBDA t : CursorBackward(t, n))
    \/ Does("cursorNextLine", LAMBDA t : CursorNextLine(t, n))
    \/ Does("cursorPrecedingLine", LAMBDA t : CursorPrecedingLine(t, n))
    \/ Does("cursorCharAbsolute", LAMBDA t : CursorCharAbsolute(t, n))
    \/ Does("charPosAbsolute", LAMBDA t : CharPosAbsolute(t, n))
    \/ Does("hPositionRelative", LAMBDA t : HPositionRelative(t, n))
    \/ Does("linePosAbsolute", LAMBDA t : LinePosAbsolute(t, n))
    \/ Does("vPositionRelative", LAMBDA t : VPositionRelative(t, n))
    \/ Does("cursorForwardTab", LAMBDA t : CursorForwardTab(t, n))
    \/ Does("cursorBackwardTab", LAMBDA t : CursorBackwardTab(t, n))
    \/ Does("tabClear", LAMBDA t : TabClear(t, n))

Positions == \E r, c \in Counts :
    \/ Does("cursorPosition", LAMBDA t : CursorPosition(t, r, c))
    \/ Does("hVPosition", LAMBDA t : HVPosition(t, r, c))
    \/ Does("setScrollRegion", LAMBDA t : SetScrollRegion(t, r, c))

Edits == \E n \in Counts :
    \/ Does("insertLines", LAMBDA t : InsertLines(t, n))
    \/ Does("deleteLines", LAMBDA t : DeleteLines(t, n))
    \/ Does("scrollUp", LAMBDA t : ScrollUp(t, n))
    \/ Does("scrollDown", LAMBDA t : ScrollDown(t, n))
    \/ Does("insertChars", LAMBDA t : InsertChars(t, n))
    \/ Does("deleteChars", LAMBDA t : DeleteChars(t, n))
    \/ Does("eraseChars", LAMBDA t : EraseChars(t, n))
    \/ Does("repeatPrecedingCharacter", LAMBDA t : RepeatPrecedingCharacter(t, n))

Erases == \/ \E k \in 0..2 : \/ Does("eraseInDisplay", LAMBDA t : EraseInDisplay(t, k))
                             \/ Does("eraseInLine", LAMBDA t : EraseInLine(t, k))
          \/ Does("eraseScrollback", EraseScrollback)

SetsMode == \E m \in guest.modes :
    \/ Does("setMode", LAMBDA t : SetMode(t, m[1], m[2]))
    \/ Does("resetMode", LAMBDA t : ResetMode(t, m[1], m[2]))

\* The first message of the guest clears the greetings; its text follows.
FirstMessage ==
    /\ greeting /\ ~term.open
    /\ greeting' = FALSE
    /\ Becomes(Clear(term), FALSE)
    /\ UNCHANGED guest

User(move, t) ==
    /\ move \in DOMAIN guest.moves
    /\ guest.moves[move] > 0
    /\ ~term.open
    /\ guest' = [guest EXCEPT !.moves[move] = @ - 1]
    /\ Becomes(t, FALSE)
    /\ UNCHANGED greeting

UserScrolls == \E n \in {-1, 1} : User("scroll", ScrollLines(term, n))
UserTypes == User("type", SendData(term))

\* The page is hidden or shown again (IntersectionObserver).
Hides == ~term.paused /\ User("hide", [term EXCEPT !.paused = TRUE])
Reappears ==
    /\ term.paused
    /\ Becomes(LET shown == [term EXCEPT !.paused = FALSE]
               IN  IF shown.full THEN [RefreshAll(shown) EXCEPT !.full = FALSE]
                   ELSE shown, FALSE)
    /\ ~term.open
    /\ UNCHANGED <<guest, greeting>>

(***************************************************************************)
(* The mouse.  Of a double click only the last press is a step: nothing of *)
(* the guest comes between its clicks.                                     *)
(***************************************************************************)
Places(t) == {<<x, Buf(t).ydisp + y>> : x \in 0..Cols(t), y \in 0..(Rows(t) - 1)}

UserPresses == \E clicks \in 1..3, shift, alt \in BOOLEAN, p \in Places(term) :
    LET b == Buf(term)
        Press(sel, k) == OnMouseDown(b, sel, k, shift, alt, p)
        Twice(s) == IF clicks = 1 THEN s ELSE Press(s, 2)
        Thrice(s) == IF clicks = 3 THEN Press(s, 3) ELSE s
    IN  /\ clicks > 1 => ~alt /\ (shift => ~term.sel.enabled)
        /\ User("mouse", [term EXCEPT !.sel = Thrice(Twice(Press(@, 1)))])

UserDrags == \E p \in Places(term), drag \in {-1, 0, 1} :
    /\ term.sel.held
    /\ drag < 0 => p[2] = Buf(term).ydisp
    /\ drag > 0 => p[2] = Buf(term).ydisp + Rows(term) - 1
    /\ User("mouse", [term EXCEPT !.sel = OnMouseMove(Buf(term), @, p, drag)])

\* The timer of 50 ms scrolls while the pointer is outside (_dragScroll).
DragScrolls ==
    /\ ~term.open
    /\ term.sel.held /\ term.sel.drag # 0
    /\ LET s == ScrollLines(term, term.sel.drag)
       IN  Becomes([s EXCEPT !.sel = OnDragScroll(Buf(s), @)], FALSE)
    /\ UNCHANGED <<guest, greeting>>

\* A short click with Alt sends arrow keys that move the guest's cursor.
UserReleases == \E alt \in BOOLEAN :
    LET t == [term EXCEPT !.sel.held = FALSE]
        brief == Len(SelectionText(Buf(t), t.sel)) <= 1
    IN  /\ term.sel.held
        /\ alt => brief
        /\ User("mouse", IF alt THEN SendData(t) ELSE t)

Frame ==
    /\ ~term.open /\ term.ask # <<>>
    /\ LET rows == term.ask[1]..term.ask[2]
       IN  /\ stale' = stale \ rows
           /\ lax' = (lax /\ ~(0..(Rows(term) - 1) \subseteq rows))
    /\ term' = [term EXCEPT !.ask = <<>>]
    /\ UNCHANGED <<strayed, guest, greeting>>

ScreenInit ==
    /\ guest \in Guests
    /\ \E size \in guest.fits :
          term = RefreshAll(ResizeTerm(NewTerm(DefaultSize), size[1], size[2]))
    /\ stale = 0..(Rows(term) - 1)
    /\ lax = FALSE /\ strayed = FALSE
    /\ greeting = ~guest.greeted

ScreenNext == \/ Prints \/ Plain \/ Moves \/ Positions \/ Edits \/ Erases \/ SetsMode
              \/ FirstMessage \/ UserScrolls \/ UserTypes \/ Hides \/ Reappears \/ Frame
              \/ UserPresses \/ UserDrags \/ DragScrolls \/ UserReleases

-----------------------------------------------------------------------------
(***************************************************************************)
(* Properties.                                                             *)
(***************************************************************************)
\* While the writer runs and the cursor never left the screen, the list holds
\* the scrollback and the rows and nothing else, every line of it exists, and
\* the user sees the screen unless the user scrolled up (scroll, resize,
\* reflow, clear and erase all move ybase, ydisp, y and the list by hand).
ScreenSound ==
    LET b == Buf(term)
    IN  term.stuck = "" /\ ~strayed =>
          /\ b.lines.length = b.ybase + Rows(term)
          /\ b.lines.length <= b.lines.max
          /\ \A i \in 0..(b.lines.length - 1) : At(b.lines, i) # None
          /\ b.ydisp \in 0..b.ybase
          /\ ~term.scrolled => b.ydisp = b.ybase
          /\ b.y < Rows(term)

\* The writer stops for ever in three cases only: the cursor once went above
\* the screen (reverseIndex over a region); the screen is erased up to a cursor
\* in the last column of the last row of the list (eraseInDisplay takes the row
\* for a line of the list); the columns change while the list begins with a
\* line that continues one already dropped, all blank.
Headless(b) == At(b.lines, 0).wrapped /\ TrimmedLength(At(b.lines, 0)) = 0
StopsExplained ==
    [][term.stuck = "" /\ term'.stuck # "" =>
          \/ strayed
          \/ /\ term'.stuck = "eraseInDisplay"
             /\ Buf(term).x + 1 >= Cols(term)
             /\ Buf(term).y + 1 >= Buf(term).lines.length
          \/ /\ term'.stuck \in {"setMode", "resetMode"}
             /\ Headless(term.set.normal)]_screenVars

Sane == term.stuck = "" /\ term'.stuck = "" /\ ~strayed

\* What has left the screen stays as it was: the scrollback only loses its
\* oldest lines, as many as the list tells its listeners (the selection counts
\* on it), until it is erased, the terminal is reset or the first message comes.
HistoryKept ==
    [][LET b == term.set.normal
           c == term.set.normal'
           gone == c.lines.trimmed - b.lines.trimmed
           Above(d) == [k \in 1..d.ybase |-> At(d.lines, k - 1)]
           Texts(w) == [k \in DOMAIN w |-> w[k].cells]
       IN  Sane /\ b # c /\ b.cols = c.cols =>
             \/ /\ gone >= 0
                /\ IsPrefix(SubSeq(Texts(Above(b)), gone + 1, b.ybase), Texts(Above(c)))
             \/ FirstMessage
             \/ Does("reset", Reset)
             \/ Does("eraseScrollback", EraseScrollback)]_screenVars

\* The letters of lines i to j, in order.
LettersOf(b, i, j) ==
    LET Of(n) == SelectSeq(At(b.lines, n).cells, HasContent)
        Next1(w, n) == w \o Of(n)
    IN  Loop(Next1, <<>>, Up(i, j))
CursorGroup(b) ==
    LET items == Items(b.lines)
        k == CHOOSE k \in Starts(items) : HasCursor(b, k, LastOf(items, k))
    IN  <<k - 1, LastOf(items, k) - 1>>
LettersAbove(b) == LettersOf(b, 0, CursorGroup(b)[1] - 1)
LettersBelow(b) == LettersOf(b, CursorGroup(b)[2] + 1, b.lines.length - 1)
CursorLine(b) == At(b.lines, b.ybase + b.y)

\* Another width re-wraps what is above the cursor without losing or doubling
\* a letter, but for the oldest lines when the list is full, and the cursor
\* stays on the text it was on - when nothing is written below the cursor, as
\* at a shell's prompt: lines below it that are re-wrapped move it off.
ReflowKeepsText ==
    [][LET b == term.set.normal
           c == term.set.normal'
       IN  Sane /\ b.cols # c.cols /\ LettersBelow(b) = <<>> =>
             /\ CursorLine(c) = ResizeLine(CursorLine(b), c.cols)
             /\ IsSuffix(LettersAbove(c), LettersAbove(b))
             /\ c.lines.trimmed = b.lines.trimmed => LettersAbove(c) = LettersAbove(b)]_screenVars

\* When nothing is left to draw, the page shows what the buffer holds - unless,
\* since all rows were drawn, cells were erased or repeated without a word to
\* the renderer (eraseChars, repeatPrecedingCharacter, eraseInDisplay 3) or the
\* guest wrote while the user looked at the scrollback.
RedrawExplained ==
    ~term.open /\ term.ask = <<>> /\ ~term.full /\ ~lax /\ term.stuck = "" => stale = {}

\* When the whole screen scrolls, the selection stays on the text the user
\* selected: all of it while its lines are in the list, what is left of it once
\* the oldest are gone.  Two cases are the exception, both because a start above
\* the list moves to the first line and keeps its column.  A double-clicked word
\* is kept as a start and a length, and stays that long, on another text.  Where
\* only the last selected line is left and the selection ends in it before the
\* column it had started in, start and end change places.
\* (A word that fills its lines to the last of the list ends one line after it,
\* where there is nothing to read.)
ScrollsUp == \/ Does("lineFeed", LineFeed) \/ Does("index", Index)
             \/ Does("nextLine", NextLine)
SelectionFollows ==
    [][LET b == Buf(term)
           old == SelectionText(b, term.sel)
           new == SelectionText(Buf(term'), term'.sel)
           gone == Gone(term, term')
           s == FinalStart(term.sel)
           e == FinalEnd(b, term.sel)
       IN  /\ Sane /\ HasSelection(b, term.sel) /\ ~term.sel.all
           /\ b.top = 0 /\ b.bottom = Rows(term) - 1
           /\ e[2] < b.lines.length
           /\ ScrollsUp
           => CASE s[2] >= gone -> new = old
                [] s[2] < gone /\ term.sel.len = 0 /\ ~(e[2] = gone /\ e[1] < s[1]) ->
                      IsSuffix(new, old)
                [] OTHER -> TRUE]_screenVars
=============================================================================
