----------------------------- MODULE TermList -----------------------------
(***************************************************************************)
(* The circular list that holds a terminal buffer's lines (CircularList in *)
(* xterm.js): an array of maxLength places, the place of the first line    *)
(* and the number of lines.                                                *)
(*                                                                         *)
(* A JavaScript array is a function on the indices that were assigned: a   *)
(* read outside its domain gives `undefined' (None), a write at any index, *)
(* -1 included, extends it.  `trimmed' adds up what the list has told its  *)
(* onTrim listeners.  The list is a value: the buffers keep it in their    *)
(* state, and every operator here returns the list after the call.         *)
(***************************************************************************)
LOCAL INSTANCE Integers
LOCAL INSTANCE Sequences
LOCAL INSTANCE SequencesExt
LOCAL INSTANCE TLC

\* No line; a line has at least one cell.
None == [cells |-> <<>>, wrapped |-> FALSE]

NewList(max) == [array |-> <<>>, start |-> 0, length |-> 0, max |-> max,
                 trimmed |-> 0]

\* _getCyclicIndex: the remainder of JavaScript keeps the sign of its operand.
Cyclic(l, i) == LET n == l.start + i
                IN  IF n >= 0 THEN n % l.max ELSE 0 - ((0 - n) % l.max)

At(l, i) == LET c == Cyclic(l, i)
            IN  IF c \in DOMAIN l.array THEN l.array[c] ELSE None

Put(l, i, v) ==
    [l EXCEPT !.array = IF v = None
                        THEN [c \in DOMAIN @ \ {Cyclic(l, i)} |-> @[c]]
                        ELSE (Cyclic(l, i) :> v) @@ @]

IsFull(l) == l.length = l.max

Trimmed(l, n) == [l EXCEPT !.trimmed = @ + n]

Push(l, v) ==
    LET p == Put(l, l.length, v)
    IN  IF IsFull(l)
        THEN Trimmed([p EXCEPT !.start = (@ + 1) % l.max], 1)
        ELSE [p EXCEPT !.length = @ + 1]

\* Mutant: nobody is told that the oldest line is gone.
RecycleUntold(l, v) ==
    LET r == [l EXCEPT !.start = (@ + 1) % l.max]
    IN  Put(r, r.length - 1, v)

\* recycle: the oldest line becomes the newest; the caller overwrites it.
Recycle(l, v) ==
    LET r == Trimmed([l EXCEPT !.start = (@ + 1) % l.max], 1)
    IN  Put(r, r.length - 1, v)

Pop(l) == [l EXCEPT !.length = @ - 1]

\* Loops over an index, in the order of the code.
Up(from, to) == [k \in 1..(to - from + 1) |-> from + k - 1]
Down(from, to) == [k \in 1..(from - to + 1) |-> from - k + 1]
Loop(op(_, _), l, indices) == FoldLeft(op, l, indices)

CutOut(l, start, count) ==
    IF count = 0 THEN l
    ELSE LET Shift(m, i) == Put(m, i, At(m, i + count))
             s == Loop(Shift, l, Up(start, l.length - count - 1))
         IN  [s EXCEPT !.length = @ - count]

Inserted(l, start, items) ==
    LET n == Len(items)
        Shift(m, i) == Put(m, i + n, At(m, i))
        Fill(m, i) == Put(m, start + i, items[i + 1])
    IN  Loop(Fill, Loop(Shift, l, Down(l.length - 1, start)), Up(0, n - 1))

\* n lines longer; a list that overflows loses its first lines.
Lengthened(l, n) ==
    LET over == l.length + n - l.max
    IN  IF over > 0
        THEN Trimmed([l EXCEPT !.start = @ + over, !.length = l.max], over)
        ELSE [l EXCEPT !.length = @ + n]

\* splice with at most one new line, which is all its callers pass.
Splice(l, start, deleteCount, items) ==
    Lengthened(Inserted(CutOut(l, start, deleteCount), start, items), Len(items))

TrimStart(l, count) ==
    LET n == IF count > l.length THEN l.length ELSE count
    IN  Trimmed([l EXCEPT !.start = @ + n, !.length = @ - n], n)

\* shiftElements by one line; it throws when the start is no line of the list.
ShiftThrows(l, start, count, offset) ==
    count > 0 /\ (start < 0 \/ start >= l.length \/ start + offset < 0)

ShiftElements(l, start, count, offset) ==
    LET Move(m, i) == Put(m, start + i + offset, At(m, start + i))
        Moved == Loop(Move, l, IF offset > 0 THEN Down(count - 1, 0) ELSE Up(0, count - 1))
        longer == start + count + offset - l.length
    IN  IF count <= 0 THEN l
        ELSE IF offset < 0 \/ longer <= 0 THEN Moved
        ELSE Lengthened(Moved, longer)

\* The length setter fills with undefined, by the bare index of the array.
SetLength(l, n) ==
    [l EXCEPT !.array = [c \in DOMAIN @ \ (l.length .. (n - 1)) |-> @[c]],
              !.length = n]

\* The maxLength setter copies what fits; the length stays as it was.
SetMax(l, max) ==
    IF l.max = max THEN l
    ELSE LET kept == {i \in 0..((IF max < l.length THEN max ELSE l.length) - 1) :
                         At(l, i) # None}
         IN  [l EXCEPT !.array = [i \in kept |-> At(l, i)], !.max = max, !.start = 0]

\* The list as the sequence of its lines.
Items(l) == [k \in 1..l.length |-> At(l, k - 1)]
=============================================================================
