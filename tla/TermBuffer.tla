----------------------------- MODULE TermBuffer -----------------------------
(***************************************************************************)
(* The two buffers of the terminal (Buffer and BufferSet in xterm.js): the *)
(* lines, where the screen begins in them (ybase), what the user sees of   *)
(* them (ydisp), the cursor (x, y), the scroll region, the saved cursor    *)
(* and the tab stops; and what a change of size does to all of it.         *)
(* A line that is missing where the code needs one raises an exception:    *)
(* the operators return the buffer with `thrown' set.                      *)
(***************************************************************************)
EXTENDS TermLines, TermList
LOCAL INSTANCE SequencesExt

CONSTANTS Scrollback,     \* lines kept above the screen of the normal buffer
          TabWidth        \* columns from one tab stop to the next

Least(a, b) == IF a < b THEN a ELSE b
Most(a, b) == IF a > b THEN a ELSE b

CorrectLength(kind, rows) == IF kind = "normal" THEN rows + Scrollback ELSE rows

\* setupTabStops, first form: a stop in every TabWidth-th column.
FreshTabs(cols) == {c \in 0..(cols - 1) : c % TabWidth = 0}

Clamp(b, x) == IF x >= b.cols THEN b.cols - 1 ELSE IF x < 0 THEN 0 ELSE x

PrevStop(b, x) ==
    LET before == {c \in b.tabs : c < x}
    IN  Clamp(b, IF before = {} THEN Least(x - 1, 0)
                 ELSE CHOOSE c \in before : \A d \in before : d <= c)

NextStop(b, x) ==
    LET after == {c \in b.tabs : c > x}
    IN  Clamp(b, IF after = {} THEN Most(x + 1, b.cols)
                 ELSE CHOOSE c \in after : \A d \in after : d >= c)

\* setupTabStops(i): the stops go on from column i, or from the stop before it.
ExtendTabs(b, i) ==
    LET from == IF i \in b.tabs THEN i ELSE PrevStop(b, i)
    IN  [b EXCEPT !.tabs = @ \cup {c \in from..(b.cols - 1) :
                                     (c - from) % TabWidth = 0}]

NewBuffer(kind, cols, rows) ==
    [kind |-> kind, lines |-> NewList(CorrectLength(kind, rows)),
     ybase |-> 0, ydisp |-> 0, x |-> 0, y |-> 0,
     top |-> 0, bottom |-> rows - 1, savedX |-> 0, savedY |-> 0,
     tabs |-> FreshTabs(cols), cols |-> cols, rows |-> rows, thrown |-> FALSE]

\* clear() keeps the saved cursor.
ClearBuffer(b) ==
    [NewBuffer(b.kind, b.cols, b.rows) EXCEPT !.savedX = b.savedX, !.savedY = b.savedY]

FillRows(b, cols) ==
    IF b.lines.length # 0 THEN b
    ELSE LET More(l, i) == Push(l, Blank(cols, FALSE))
         IN  [b EXCEPT !.lines = Loop(More, @, Up(1, b.rows))]

\* Every line of the buffer, changed.
LOCAL EachLine(l, New(_)) ==
    LET Change(m, i) == IF At(m, i) = None THEN m ELSE Put(m, i, New(At(m, i)))
    IN  Loop(Change, l, Up(0, l.length - 1))

ResizeLines(b, cols) ==
    LET New(line) == ResizeLine(line, cols)
    IN  [b EXCEPT !.lines = EachLine(@, New)]

(***************************************************************************)
(* resize, first part: the rows.  More rows show lines of the scrollback   *)
(* again while the cursor is on the last line, and else are added below;   *)
(* fewer rows drop lines below the cursor, or move the screen down.        *)
(***************************************************************************)
GrowRows(b, newCols, newRows) ==
    LET Row(c, y) ==
          IF c.b.lines.length >= newRows + c.b.ybase THEN c
          ELSE IF /\ c.b.ybase > 0
                  /\ c.b.lines.length <= c.b.ybase + c.b.y + c.add + 1
               THEN [b |-> [c.b EXCEPT !.ybase = @ - 1, !.ydisp = Most(@ - 1, 0)],
                     add |-> c.add + 1]
               ELSE [c EXCEPT !.b.lines = Push(@, Blank(newCols, FALSE))]
    IN  Loop(Row, [b |-> b, add |-> 0], Up(b.rows, newRows - 1))

ShrinkRows(b, newRows) ==
    LET Row(c, y) ==
          IF c.lines.length <= newRows + c.ybase THEN c
          ELSE IF c.lines.length > c.ybase + c.y + 1
               THEN [c EXCEPT !.lines = Pop(@)]
               ELSE [c EXCEPT !.ybase = @ + 1, !.ydisp = @ + 1]
    IN  [b |-> Loop(Row, b, Down(b.rows, newRows + 1)), add |-> 0]

\* A shorter list loses its oldest lines.
TrimTo(b, max) ==
    LET over == b.lines.length - max
    IN  IF max >= b.lines.max THEN b
        ELSE IF over <= 0 THEN [b EXCEPT !.lines = SetMax(@, max)]
        ELSE [b EXCEPT !.lines = SetMax(TrimStart(@, over), max),
                       !.ybase = Most(@ - over, 0), !.ydisp = Most(@ - over, 0)]

\* The cursors stay on the screen; g.add rows came from the scrollback.
LOCAL Bounded(g, newCols, newRows, max) ==
    [TrimTo(g.b, max) EXCEPT !.x = Least(@, newCols - 1),
                             !.y = Least(@, newRows - 1) + g.add,
                             !.savedX = Least(@, newCols - 1),
                             !.savedY = Least(@, newRows - 1),
                             !.top = 0]

ResizeRows(b, newCols, newRows, max) ==
    LET w == IF b.cols < newCols THEN ResizeLines(b, newCols) ELSE b
    IN  Bounded(IF b.rows < newRows THEN GrowRows(w, newCols, newRows)
                ELSE ShrinkRows(w, newRows),
                newCols, newRows, max)

-----------------------------------------------------------------------------
(***************************************************************************)
(* Reflow.  A group is a line and the wrapped lines that follow it; the    *)
(* group the cursor is in is left alone.  Positions count from 0.          *)
(***************************************************************************)
Starts(items) == {k \in DOMAIN items : k = 1 \/ ~items[k].wrapped}
LastOf(items, k) ==
    CHOOSE e \in k..Len(items) :
        /\ \A j \in (k + 1)..e : items[j].wrapped
        /\ e = Len(items) \/ ~items[e + 1].wrapped
HasCursor(b, k, e) == b.ybase + b.y \in (k - 1)..(e - 1)

\* The list with the lines `new' only.
LOCAL Relined(b, new) ==
    LET Set(l, i) == Put(l, i, new[i + 1])
    IN  [b EXCEPT !.lines = SetLength(Loop(Set, @, Up(0, Len(new) - 1)), Len(new))]

\* _reflowLargerAdjustViewport, once for every line that went.
LOCAL WidenAdjust(b, newCols, newRows) ==
    IF b.ybase = 0
    THEN [b EXCEPT !.y = Most(@ - 1, Least(@, 0)),
                   !.lines = IF @.length < newRows THEN Push(@, Blank(newCols, FALSE)) ELSE @]
    ELSE [b EXCEPT !.ydisp = IF @ = b.ybase THEN @ - 1 ELSE @, !.ybase = @ - 1]
LOCAL Widened(b, new, newCols, newRows) ==
    Loop(LAMBDA c, i : WidenAdjust(c, newCols, newRows), Relined(b, new),
         Up(1, b.lines.length - Len(new)))

ReflowLarger(b, newCols, newRows) ==
    LET items == Items(b.lines)
        Group(k) == SubSeq(items, k, LastOf(items, k))
    IN  Widened(b, FlattenSeq([k \in DOMAIN items |->
                      CASE k \notin Starts(items) -> <<>>
                        [] k \in Starts(items) /\ (LastOf(items, k) = k
                                                    \/ HasCursor(b, k, LastOf(items, k))) -> Group(k)
                        [] OTHER -> WidenGroup(Group(k), b.cols, newCols)]),
                newCols, newRows)

(***************************************************************************)
(* Narrower lines need more lines.  The groups are taken from the last to  *)
(* the first; each is re-wrapped in place, and the lines it needs more are *)
(* put aside (`insert') and enter the list at the end, all at once.        *)
(***************************************************************************)
\* Room for one more line: the cursor's screen moves down, or drops its last line.
LOCAL NarrowAdjust(b, count, newRows) ==
    IF b.ybase = 0
    THEN IF b.y < newRows - 1
         THEN [b EXCEPT !.y = @ + 1, !.lines = Pop(@)]
         ELSE [b EXCEPT !.ybase = 1, !.ydisp = @ + 1]
    ELSE IF b.ybase < Least(b.lines.max, b.lines.length + count) - newRows
         THEN [b EXCEPT !.ydisp = IF @ = b.ybase THEN @ + 1 ELSE @, !.ybase = @ + 1]
         ELSE b

\* Group k to e is now the lines n.lines, of which `extra' do not fit in place.
LOCAL Narrowed(r, k, e, n, newRows) ==
    LET b == r.b
        extra == Len(n.lines) - (e - k + 1)
        trimmed == Most(0, extra - b.lines.max +
                           (IF b.ybase = 0 /\ b.y # b.lines.length - 1
                            THEN b.y ELSE b.lines.length))
        count == r.count + extra
        Set(l, i) == Put(l, k - 1 + i, n.lines[i + 1])
        Adjust(c, i) == NarrowAdjust(c, count, newRows)
    IN  IF n.throws THEN [r EXCEPT !.b.thrown = TRUE]
        ELSE [r EXCEPT
                !.b = Loop(Adjust, [b EXCEPT !.lines = Loop(Set, @, Up(0, e - k))],
                           Up(1, extra - trimmed)),
                !.insert = IF extra = 0 THEN @
                           ELSE Append(@, [start |-> e + r.count,
                                           lines |-> SubSeq(n.lines, e - k + 2, Len(n.lines))]),
                !.count = count]

LOCAL Rewrapped(group, lengths, cols, newCols) ==
    NarrowGroup(group, [i \in 1..(Len(lengths) - Len(group)) |-> Blank(cols, TRUE)],
                lengths, cols, newCols)

LOCAL NarrowOne(r, k, e, group, newCols, newRows) ==
    IF \/ r.b.thrown
       \/ e = k /\ ~group[1].wrapped /\ TrimmedLength(group[1]) <= newCols
       \/ HasCursor(r.b, k, e)
    THEN r
    ELSE Narrowed(r, k, e,
                  Rewrapped(group, NarrowLengths(group, r.b.cols, newCols), r.b.cols, newCols),
                  newRows)

\* The lines put aside enter from the end: i is the place written next and o
\* the old line read next.
RECURSIVE Place(_, _, _, _, _, _)
LOCAL Place(l, i, o, insert, sofar, items) ==
    IF i < 0 THEN l
    ELSE IF insert # <<>> /\ Head(insert).start > o + sofar
    THEN LET new == Head(insert).lines
             Set(m, j) == Put(m, i - Len(new) + j, new[j])
         IN  Place(Loop(Set, l, Down(Len(new), 1)), i - Len(new), o, Tail(insert),
                   sofar + Len(new), items)
    ELSE Place(Put(l, i, IF o >= 0 THEN items[o + 1] ELSE None), i - 1, o - 1,
               insert, sofar, items)

\* All lines put aside enter the list; the oldest lines go where it is full.
LOCAL Entered(r, size) ==
    LET l == r.b.lines
        room == Least(l.max, size)
    IN  IF r.insert = <<>> \/ r.b.thrown THEN r.b
        ELSE [r.b EXCEPT !.lines =
                Trimmed(Place(SetLength(l, room), room - 1, l.length - 1, r.insert, 0, Items(l)),
                        Most(0, size - l.max))]

ReflowSmaller(b, newCols, newRows) ==
    LET items == Items(b.lines)
        Ended(r) == Entered(r, r.b.lines.length + r.count)
    IN  Ended(Loop(LAMBDA r, k :
                     IF k \notin Starts(items) THEN r
                     ELSE NarrowOne(r, k, LastOf(items, k), SubSeq(items, k, LastOf(items, k)),
                                    newCols, newRows),
                   [b |-> b, insert |-> <<>>, count |-> 0], Down(Len(items), 1)))

\* Mutant: lines are cut to the new width before they are re-wrapped.
ReflowCutsFirst(b, newCols, newRows) ==
    CASE b.cols = newCols -> b
      [] b.cols < newCols -> ReflowLarger(b, newCols, newRows)
      [] b.cols > newCols -> ReflowSmaller(ResizeLines(b, newCols), newCols, newRows)

LOCAL Recut(b, newCols) == IF b.thrown THEN b ELSE ResizeLines(b, newCols)

Reflow(b, newCols, newRows) ==
    CASE b.cols = newCols -> b
      [] b.cols < newCols -> ReflowLarger(b, newCols, newRows)
      [] b.cols > newCols -> Recut(ReflowSmaller(b, newCols, newRows), newCols)

\* resize: room for the lines first, then the rows, then the columns.
LOCAL Room(b, max) == IF max > b.lines.max THEN [b EXCEPT !.lines = SetMax(@, max)] ELSE b
LOCAL Rowed(b, newCols, newRows, max) ==
    [(IF b.lines.length = 0 THEN b ELSE ResizeRows(b, newCols, newRows, max))
        EXCEPT !.bottom = newRows - 1]
LOCAL Flowed(b, newCols, newRows) ==
    IF b.kind = "normal" THEN Reflow(b, newCols, newRows) ELSE b

Resize(b, newCols, newRows) ==
    LET max == CorrectLength(b.kind, newRows)
    IN  [Flowed(Rowed(Room(b, max), newCols, newRows, max), newCols, newRows) EXCEPT
            !.cols = newCols, !.rows = newRows]

-----------------------------------------------------------------------------
\* BufferSet: the normal and the alternate buffer, of which one is active.
NewBuffers(cols, rows) ==
    [normal |-> FillRows(NewBuffer("normal", cols, rows), cols),
     alt |-> NewBuffer("alt", cols, rows), active |-> "normal"]

Active(s) == s[s.active]

ActivateNormal(s) ==
    IF s.active = "normal" THEN s
    ELSE [s EXCEPT !.normal.x = s.alt.x, !.normal.y = s.alt.y,
                   !.alt = ClearBuffer(@), !.active = "normal"]

ActivateAlt(s) ==
    IF s.active = "alt" THEN s
    ELSE LET filled == FillRows(s.alt, s.alt.cols)
         IN  [s EXCEPT !.alt = [filled EXCEPT !.x = s.normal.x, !.y = s.normal.y],
                       !.active = "alt"]

ResizeBuffers(s, cols, rows) ==
    [s EXCEPT !.normal = ExtendTabs(Resize(@, cols, rows), cols),
              !.alt = ExtendTabs(Resize(@, cols, rows), cols)]
=============================================================================
