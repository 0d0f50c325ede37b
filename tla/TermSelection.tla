--------------------------- MODULE TermSelection ---------------------------
(***************************************************************************)
(* The user's selection (SelectionModel and SelectionManager in xterm.js): *)
(* two places in the buffer, and what the mouse makes of them.             *)
(*                                                                         *)
(* A place is <<column, line>>, the line counted in the list, not on the   *)
(* screen.  A word is kept as its start and its length until the mouse     *)
(* moves; a click alone is a word of length 0.  The selection is a value   *)
(* kept in the terminal's state; the operators return the selection after  *)
(* the call.                                                               *)
(***************************************************************************)
EXTENDS TermBuffer
LOCAL INSTANCE SequencesExt
LOCAL INSTANCE FiniteSetsExt

Nowhere == <<>>
Newline == "|"
\* _activeSelectionMode.
ByCell == 0
ByWord == 1
ByLine == 2
ByBlock == 3

NoSelection == [start |-> Nowhere, end |-> Nowhere, len |-> 0, all |-> FALSE,
                mode |-> ByCell,
                enabled |-> TRUE,    \* the guest did not ask for the mouse
                held |-> FALSE,      \* the button is down: moves are listened to
                drag |-> 0]          \* the pointer is above (-1) or below (1) the screen

\* SelectionModel.clearSelection; SelectionManager's also lets the mouse go.
Forget(sel) == [sel EXCEPT !.start = Nowhere, !.end = Nowhere, !.len = 0, !.all = FALSE]
ClearSelection(sel) == [Forget(sel) EXCEPT !.held = FALSE]
Disable(sel) == [ClearSelection(sel) EXCEPT !.enabled = FALSE]
Enable(sel) == [sel EXCEPT !.enabled = TRUE]

Reversed(sel) ==
    /\ sel.start # Nowhere /\ sel.end # Nowhere
    /\ \/ sel.start[2] > sel.end[2]
       \/ sel.start[2] = sel.end[2] /\ sel.start[1] > sel.end[1]

FinalStart(sel) ==
    IF sel.all THEN <<0, 0>> ELSE IF Reversed(sel) THEN sel.end ELSE sel.start

FinalEnd(b, sel) ==
    LET past == sel.start[1] + sel.len
    IN  CASE sel.all -> <<b.cols, b.ybase + b.rows - 1>>
          [] ~sel.all /\ sel.start = Nowhere -> Nowhere
          [] OTHER ->
               IF sel.end = Nowhere \/ Reversed(sel)
               THEN IF past > b.cols
                    THEN <<past % b.cols, sel.start[2] + past \div b.cols>>
                    ELSE <<past, sel.start[2]>>
               ELSE IF sel.len # 0 /\ sel.start[2] = sel.end[2]
                    THEN <<Most(past, sel.end[1]), sel.end[2]>>
                    ELSE sel.end

HasSelection(b, sel) ==
    LET s == FinalStart(sel) e == FinalEnd(b, sel)
    IN  s # Nowhere /\ e # Nowhere /\ s # e

\* Mutant: where the selection ends stays.
OnTrimKeepsEnd(sel, n) ==
    IF sel.start = Nowhere THEN sel
    ELSE [sel EXCEPT !.start = <<@[1], Most(@[2] - n, 0)>>]

\* The oldest lines have left the list.
OnTrim(sel, n) ==
    LET Higher(p) == IF p = Nowhere THEN p ELSE <<p[1], p[2] - n>>
        s == Higher(sel.start)
        e == Higher(sel.end)
    IN  IF e # Nowhere /\ e[2] < 0 THEN Forget(sel)
        ELSE [sel EXCEPT !.end = e,
                         !.start = IF s = Nowhere THEN s ELSE <<s[1], Most(s[2], 0)>>]

-----------------------------------------------------------------------------
\* What is selected, without the blank cells; nothing when a line of it is
\* not in the list (the code throws).
RowText(b, row, from, to) ==
    LET line == At(b.lines, row)
        end == Least(to, TrimmedLength(line))
    IN  IF row \notin 0..(b.lines.length - 1) THEN <<>>
        ELSE SelectSeq([k \in 1..Most(end - from, 0) |-> Cell(line, from + k - 1)], HasContent)

SelectionText(b, sel) ==
    LET Rows(from, to) == [k \in 1..Most(to - from + 1, 0) |-> from + k - 1]
        Piece(s, e, r) == RowText(b, r, IF r = s[2] THEN s[1] ELSE 0,
                                  IF r = e[2] THEN e[1] ELSE b.cols)
        Lines(s, e) ==
          LET Joined(text, r) ==
                text \o (IF At(b.lines, r).wrapped THEN <<>> ELSE <<Newline>>) \o Piece(s, e, r)
          IN  FoldLeft(Joined, Piece(s, e, s[2]), Rows(s[2] + 1, e[2]))
        Block(s, e) ==
          LET Below(text, r) ==
                text \o (IF r = s[2] THEN <<>> ELSE <<Newline>>) \o RowText(b, r, s[1], e[1])
          IN  FoldLeft(Below, <<>>, Rows(s[2], e[2]))
        Text(s, e) ==
          CASE s = Nowhere \/ e = Nowhere -> <<>>
            [] s # Nowhere /\ e # Nowhere /\ sel.mode = ByBlock ->
                  IF s[1] = e[1] THEN <<>> ELSE Block(s, e)
            [] OTHER -> IF e[2] > s[2] /\ e[2] \notin 0..(b.lines.length - 1) THEN <<>>
                        ELSE Lines(s, e)
    IN  Text(FinalStart(sel), FinalEnd(b, sel))

-----------------------------------------------------------------------------
(***************************************************************************)
(* The word at a place: the cells around it that are all blank or all not. *)
(* At the end of a line it goes on in the next when that continues it.     *)
(* The result is <<start, length>>, the start before the line's beginning  *)
(* (negative) when the word begins in a line above.                        *)
(***************************************************************************)
NoWord == <<>>
LOCAL Separates(line, i) == Cell(line, i) = Null

LOCAL Extent(line, cols, x) ==
    LET Same(i) == Separates(line, i) = Separates(line, x)
        before == {i \in 0..(x - 1) : ~Same(i)}
        after == {i \in (x + 1)..(cols - 1) : ~Same(i)}
    IN  <<IF before = {} THEN 0 ELSE Max(before) + 1,
          IF after = {} THEN cols ELSE Min(after)>>

RECURSIVE WordAt(_, _, _, _, _, _)
WordAt(b, x, row, blanks, above, below) ==
    LET line == At(b.lines, row)
        Up1(ext) == IF above /\ ext[1] = 0 /\ row > 0 /\ line.wrapped
                    THEN WordAt(b, b.cols - 1, row - 1, FALSE, TRUE, FALSE) ELSE NoWord
        Down1(ext) == IF below /\ ext[2] = b.cols /\ row + 1 < b.lines.length
                               /\ At(b.lines, row + 1).wrapped
                      THEN WordAt(b, 0, row + 1, FALSE, FALSE, TRUE) ELSE NoWord
        Joined(ext, up, down) ==
          LET offset == IF up = NoWord THEN 0 ELSE b.cols - up[1]
          IN  <<ext[1] - offset,
                ext[2] - ext[1] + offset + (IF down = NoWord THEN 0 ELSE down[2])>>
        Word(ext) == Joined(ext, Up1(ext), Down1(ext))
    IN  IF \/ x >= b.cols \/ line = None
           \/ ~blanks /\ Separates(line, x)
        THEN NoWord ELSE Word(Extent(line, b.cols, x))

\* Rows above the place a start before the line's beginning stands for.
LOCAL RowsUp(b, w) == IF w[1] >= 0 THEN 0 ELSE (0 - w[1] + b.cols - 1) \div b.cols

SelectWordAt(b, sel, p, blanks) ==
    LET Select(w) == IF w = NoWord THEN sel
                     ELSE [sel EXCEPT !.start = <<w[1] + RowsUp(b, w) * b.cols,
                                                  p[2] - RowsUp(b, w)>>,
                                      !.len = w[2]]
    IN  Select(WordAt(b, p[1], p[2], blanks, TRUE, TRUE))

\* The end of the selection at place p, taken to the end (or start) of the word.
SelectToWordAt(b, sel, p) ==
    LET at == [sel EXCEPT !.end = p]
        End(w) ==
          LET up == RowsUp(b, w)
              start == w[1] + up * b.cols
              over == IF start + w[2] <= b.cols THEN 0
                      ELSE (start + w[2] - b.cols + b.cols - 1) \div b.cols
          IN  CASE w = NoWord -> p
                [] w # NoWord /\ Reversed(at) -> <<start, p[2] - up>>
                [] OTHER -> <<start + w[2] - over * b.cols, p[2] - up + over>>
    IN  [at EXCEPT !.end = End(WordAt(b, p[1], p[2], TRUE, TRUE, TRUE))]

\* getWrappedRangeForLine
SelectLineAt(b, sel, row) ==
    LET heads == {r \in 0..row : r = 0 \/ ~At(b.lines, r).wrapped}
        tails == {r \in row..(b.lines.length - 1) :
                     r + 1 = b.lines.length \/ ~At(b.lines, r + 1).wrapped}
    IN  [sel EXCEPT !.start = <<0, Max(heads)>>, !.end = <<b.cols, Min(tails)>>, !.len = 0]

-----------------------------------------------------------------------------
\* The mouse.  A click on the second column of a wide letter stays there: the
\* test that should take it to the next column is the wrong way round.
OnIncrementalClick(sel, p) == IF sel.start = Nowhere THEN sel ELSE [sel EXCEPT !.end = p]

OnSingleClick(sel, p, alt) ==
    [sel EXCEPT !.len = 0, !.all = FALSE, !.mode = IF alt THEN ByBlock ELSE ByCell,
                !.start = p, !.end = Nowhere]

OnMouseDown(b, sel, clicks, shift, alt, p) ==
    LET clicked ==
          CASE sel.enabled /\ shift -> OnIncrementalClick(sel, p)
            [] ~(sel.enabled /\ shift) /\ clicks = 1 -> OnSingleClick(sel, p, alt)
            [] ~(sel.enabled /\ shift) /\ clicks = 2 ->
                  SelectWordAt(b, [sel EXCEPT !.mode = ByWord], p, TRUE)
            [] OTHER -> SelectLineAt(b, [sel EXCEPT !.mode = ByLine], p[2])
    IN  IF ~sel.enabled /\ ~shift THEN sel
        ELSE [clicked EXCEPT !.drag = 0, !.held = TRUE]

\* The pointer is at place p, or beyond the screen in the direction of drag.
\* (By lines the code throws when the selection was forgotten meanwhile.)
OnMouseMove(b, sel, p, drag) ==
    LET Edge(moved) ==
          IF sel.mode = ByBlock \/ drag = 0 THEN moved
          ELSE [moved EXCEPT !.end[1] = IF drag > 0 THEN b.cols ELSE 0]
        Half2(edge) ==
          edge.end[2] < b.lines.length
             /\ Width(Cell(At(b.lines, edge.end[2]), edge.end[1])) = 0
        Moved(edge) ==
          [edge EXCEPT !.drag = drag, !.end[1] = IF Half2(edge) THEN @ + 1 ELSE @]
    IN  CASE sel.mode = ByLine /\ sel.start = Nowhere -> [sel EXCEPT !.end = p]
          [] sel.mode = ByLine /\ sel.start # Nowhere ->
                Moved(Edge([sel EXCEPT !.end = <<IF p[2] < sel.start[2] THEN 0 ELSE b.cols, p[2]>>]))
          [] sel.mode = ByWord -> Moved(Edge(SelectToWordAt(b, sel, p)))
          [] OTHER -> Moved(Edge([sel EXCEPT !.end = p]))

\* _dragScroll, after the lines were scrolled.
OnDragScroll(b, sel) ==
    IF sel.end = Nowhere THEN sel
    ELSE LET row == IF sel.drag > 0 THEN Least(b.ydisp + b.rows, b.lines.length - 1) ELSE b.ydisp
             col == IF sel.mode = ByBlock THEN sel.end[1]
                    ELSE IF sel.drag > 0 THEN b.cols ELSE 0
         IN  [sel EXCEPT !.end = <<col, row>>]
=============================================================================
