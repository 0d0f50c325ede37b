----------------------------- MODULE TermLines -----------------------------
(***************************************************************************)
(* A line of the terminal (BufferLine in xterm.js) and the re-wrapping of  *)
(* a group of lines to another width (BufferReflow).                       *)
(*                                                                         *)
(* A cell is a letter one or two columns wide, nothing, or what follows a  *)
(* wide letter.  A combining mark that joins a letter changes no column    *)
(* and is not kept; one that found no letter to join has a cell.  Columns  *)
(* count from 0, as in the code; a read outside the line gives a cell of   *)
(* width 0 and a write there is lost (a Uint32Array does both).            *)
(***************************************************************************)
EXTENDS Integers, Sequences
LOCAL INSTANCE SequencesExt
LOCAL INSTANCE FiniteSetsExt

Null == " "            \* nothing written: one column
Half == "-"            \* the second column of a wide letter
Wide == "W"
Mark == "."            \* a combining mark in the first column: no width
LoneMark == "m"        \* a combining mark on an empty cell

LOCAL Least(a, b) == IF a < b THEN a ELSE b

Width(c) == CASE c = Wide -> 2 [] c \in {Half, Mark} -> 0 [] OTHER -> 1
HasContent(c) == c \notin {Null, Half}

Blank(cols, wrapped) == [cells |-> [i \in 1..cols |-> Null], wrapped |-> wrapped]
Length(line) == Len(line.cells)
Cell(line, i) == IF i \in 0..(Length(line) - 1) THEN line.cells[i + 1] ELSE Half

\* The line with cell i given by New(i).
LOCAL Cells(line, New(_)) ==
    [line EXCEPT !.cells = [k \in DOMAIN @ |-> New(k - 1)]]

SetCell(line, at, c) ==
    LET New(i) == IF i = at THEN c ELSE Cell(line, i) IN Cells(line, New)

AddMark(line, at) ==
    IF HasContent(Cell(line, at)) THEN line ELSE SetCell(line, at, LoneMark)

InsertCells(line, at, n) ==
    LET pos == at % Length(line)
        New(i) == CASE i < pos -> Cell(line, i)
                    [] i >= pos /\ i < pos + n -> Null
                    [] OTHER -> Cell(line, i - n)
    IN  Cells(line, New)

DeleteCells(line, at, n) ==
    LET pos == at % Length(line)
        New(i) == CASE i < pos -> Cell(line, i)
                    [] i >= pos /\ i + n < Length(line) -> Cell(line, i + n)
                    [] OTHER -> Null
    IN  Cells(line, New)

ReplaceCells(line, start, end, c) ==
    LET New(i) == IF i >= start /\ i < end THEN c ELSE Cell(line, i)
    IN  Cells(line, New)

ResizeLine(line, cols) ==
    [line EXCEPT !.cells = [k \in 1..cols |-> IF k <= Len(@) THEN @[k] ELSE Null]]

TrimmedLength(line) ==
    LET used == {i \in 0..(Length(line) - 1) : HasContent(Cell(line, i))}
    IN  IF used = {} THEN 0 ELSE Max(used) + Width(Cell(line, Max(used)))

\* Where the line is copied onto itself the code goes in the order that reads
\* a cell before it is overwritten.
CopyCells(line, src, srcCol, destCol, n) ==
    LET New(i) == IF i >= destCol /\ i < destCol + n
                  THEN Cell(src, i - destCol + srcCol) ELSE Cell(line, i)
    IN  Cells(line, New)

-----------------------------------------------------------------------------
\* getWrappedLineTrimmedLength: the cells of line i that belong to the text.
WrappedLength(ws, i, cols) ==
    IF i = Len(ws) - 1 THEN TrimmedLength(ws[i + 1])
    ELSE IF /\ Cell(ws[i + 1], cols - 1) = Null
            /\ Width(Cell(ws[i + 2], 0)) = 2
         THEN cols - 1 ELSE cols

(***************************************************************************)
(* Wider: the cells of the group are packed from its first line on.  The   *)
(* loop's state is the lines, the place written next (d, dc) and the place *)
(* read next (s, sc).                                                      *)
(***************************************************************************)
LOCAL Packed(p, newCols, len) ==
    LET n == Least(len - p.sc, newCols - p.dc)
        full == p.dc + n = newCols
        read == p.sc + n = len
    IN  [s  |-> IF read THEN p.s + 1 ELSE p.s,
         sc |-> IF read THEN 0 ELSE p.sc + n,
         d  |-> IF full THEN p.d + 1 ELSE p.d,
         dc |-> IF full THEN 0 ELSE p.dc + n,
         ws |-> [p.ws EXCEPT ![p.d + 1] = CopyCells(@, p.ws[p.s + 1], p.sc, p.dc, n)]]

\* A wide letter whose second half begins the next line goes there.
LOCAL Unsplit(p, newCols) ==
    IF p.dc = 0 /\ p.d # 0 /\ Cell(p.ws[p.d], newCols - 1) = Wide
    THEN [p EXCEPT !.dc = 1,
                   !.ws = [@ EXCEPT ![p.d + 1] = SetCell(@, 0, Wide),
                                    ![p.d] = SetCell(@, newCols - 1, Null)]]
    ELSE p

RECURSIVE Pack(_, _, _)
LOCAL Pack(p, oldCols, newCols) ==
    IF p.s >= Len(p.ws) THEN p
    ELSE Pack(Unsplit(Packed(p, newCols, WrappedLength(p.ws, p.s, oldCols)), newCols),
              oldCols, newCols)

\* The lines of one group after it was packed, without those left over.
LOCAL Kept(ws, d) ==
    SubSeq(ws, 1, Max({k \in DOMAIN ws : k = 1 \/ (k <= d + 1 /\ TrimmedLength(ws[k]) # 0)}))

WidenGroup(group, oldCols, newCols) ==
    LET Ended(p) == Kept([p.ws EXCEPT ![p.d + 1] = ReplaceCells(@, p.dc, newCols, Null)], p.d)
    IN  Ended(Pack([ws |-> group, d |-> 0, dc |-> WrappedLength(group, 0, oldCols),
                    s |-> 1, sc |-> 0], oldCols, newCols))

(***************************************************************************)
(* Narrower: how many cells each line of the group is to get, and the copy *)
(* of the cells from the last to the first.  srcCol and srcLine follow the *)
(* wide letters, which do not cross the end of a line.                     *)
(***************************************************************************)
RECURSIVE NewLengths(_, _, _, _, _, _, _)
LOCAL NewLengths(ws, oldCols, newCols, needed, have, srcCol, srcLine) ==
    LET Next(len) == IF srcCol + newCols > len THEN <<srcCol + newCols - len, srcLine + 1>>
                     ELSE <<srcCol + newCols, srcLine>>
        Cut(at) ==
          LET got == IF Cell(ws[at[2] + 1], at[1] - 1) = Wide THEN newCols - 1 ELSE newCols
          IN  <<got>> \o NewLengths(ws, oldCols, newCols, needed, have + got,
                                    at[1] - (newCols - got), at[2])
    IN  IF have >= needed THEN <<>>
        ELSE IF needed - have < newCols THEN <<needed - have>>
        ELSE Cut(Next(WrappedLength(ws, srcLine, oldCols)))

NarrowLengths(ws, oldCols, newCols) ==
    NewLengths(ws, oldCols, newCols,
               FoldLeft(+, 0, [k \in DOMAIN ws |-> WrappedLength(ws, k - 1, oldCols)]),
               0, 0, 0)

\* The loop throws when it runs out of destination lines (d < 0).
RECURSIVE Spread(_, _, _)
LOCAL Spread(p, lengths, oldCols) ==
    IF p.s < 0 \/ p.d < 0 THEN p
    ELSE LET n == Least(p.sc, p.dc)
             ws == [p.ws EXCEPT ![p.d + 1] =
                       CopyCells(@, p.ws[p.s + 1], p.sc - n, p.dc - n, n)]
             d == IF p.dc = n THEN p.d - 1 ELSE p.d
             s == IF p.sc = n THEN p.s - 1 ELSE p.s
         IN  Spread([ws |-> ws, d |-> d, s |-> s,
                     dc |-> IF p.dc # n THEN p.dc - n
                            ELSE IF d >= 0 THEN lengths[d + 1] ELSE 0,
                     sc |-> IF p.sc # n THEN p.sc - n
                            ELSE WrappedLength(ws, IF s < 0 THEN 0 ELSE s, oldCols)],
                    lengths, oldCols)

\* The old lines of the group with the new ones after them, re-wrapped.
NarrowGroup(group, added, lengths, oldCols, newCols) ==
    LET last == Len(lengths) - 1
        d == IF last >= 0 /\ lengths[last + 1] = 0 THEN last - 1 ELSE last
        Ended(p) ==
          [throws |-> p.s >= 0,
           lines |-> [k \in DOMAIN p.ws |->
                        IF k <= Len(lengths) /\ lengths[k] < newCols
                        THEN SetCell(p.ws[k], lengths[k], Null) ELSE p.ws[k]]]
    IN  Ended(Spread([ws |-> group \o added, d |-> d,
                      dc |-> IF d >= 0 THEN lengths[d + 1] ELSE 0,
                      s |-> Len(group) - 1,
                      sc |-> TrimmedLength(group[Len(group)])], lengths, oldCols))
=============================================================================
