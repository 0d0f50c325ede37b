------------------------------ MODULE TermPage ------------------------------
(***************************************************************************)
(* The console page with its keyboard: TermConsole and TermTyping.  What   *)
(* the user sends takes the view to the screen and ends the selection;     *)
(* what the user selects may get into the textarea.                        *)
(***************************************************************************)
EXTENDS TermConsole, TermTyping

pageVars == <<consoleVars, typingVars>>

\* What TermTyping's view asks of the terminal.
Viewed(t, view, pages) ==
    CASE view = "send" -> SendData(t)
      [] view = "bottom" -> ScrollLines(t, Buf(t).ybase - Buf(t).ydisp)
      [] view = "page" -> ScrollLines(t, pages * (Rows(t) - 1))
      [] view = "all" -> [t EXCEPT !.sel.all = TRUE]
      [] OTHER -> t

InSelection(b, sel, p) ==
    LET s == FinalStart(sel)
        e == FinalEnd(b, sel)
    IN  /\ s # Nowhere /\ e # Nowhere
        /\ s[2] <= p[2] /\ p[2] <= e[2]
        /\ p[2] = s[2] => p[1] >= s[1]
        /\ p[2] = e[2] => p[1] < e[1]

\* On a Mac a right click selects the word under it.
WordClicked(t, p) ==
    IF os # "mac" \/ InSelection(Buf(t), t.sel, p) THEN t
    ELSE [t EXCEPT !.sel = [SelectWordAt(Buf(t), @, p, FALSE) EXCEPT !.end = Nowhere]]

HasText(t) == SelectionText(Buf(t), t.sel) # <<>>

TypesOnPage ==
    TypingStep /\ \E pages \in {-1, 1} : Becomes(Viewed(term, typing'.view, pages), FALSE)
RightClicks == \E p \in Places(term) :
    \E t \in {WordClicked(term, p)} : RightClick(HasText(t)) /\ Becomes(t, FALSE)

Keyboard ==
    /\ ~term.open
    /\ TypesOnPage \/ RightClicks
    /\ UNCHANGED <<guest, greeting, parser, fed>>

\* The mouse selects.
Selecting == /\ guest'.moves.mouse < guest.moves.mouse
             /\ term'.sel.held /\ HasText(term')
Elsewhere ==
    /\ ConsoleNext
    /\ IF os = "linux" /\ Selecting THEN MouseSelects ELSE UNCHANGED typingVars

PageInit == ConsoleInit /\ TypingInit(guest.moves.keys)
PageNext == Keyboard \/ Elsewhere
Page == PageInit /\ [][PageNext]_pageVars
=============================================================================
