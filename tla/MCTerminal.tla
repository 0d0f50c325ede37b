----------------------------- MODULE MCTerminal -----------------------------
(***************************************************************************)
(* A console of two rows and two columns with one line of scrollback, made *)
(* to fit pages of two to four columns.  Each guest is a scene: what it    *)
(* may write, and how often the user does what.                            *)
(***************************************************************************)
EXTENDS TermPage

MCDefault == <<2, 2>>

Still == [scroll |-> 0, type |-> 0, hide |-> 0, mouse |-> 0, keys |-> 0]
NoCodes == [of |-> {}, first |-> <<>>, left |-> 0]
Scene(uses, left) ==
    [fits |-> {<<2, 3>>, <<4, 2>>}, greeted |-> FALSE, uses |-> uses, letters |-> {"a", "W"},
     codes |-> NoCodes, left |-> left, modes |-> {}, moves |-> Still]

Functions1 ==
    {"print", "lineFeed", "carriageReturn", "index", "nextLine", "reverseIndex",
     "backspace", "tab", "tabSet", "saveCursor", "restoreCursor", "softReset", "reset",
     "cursorUp", "cursorDown", "cursorForward", "cursorBackward", "cursorNextLine",
     "cursorPrecedingLine", "cursorCharAbsolute", "charPosAbsolute", "hPositionRelative",
     "linePosAbsolute", "vPositionRelative", "cursorForwardTab", "cursorBackwardTab",
     "tabClear", "cursorPosition", "hVPosition", "setScrollRegion", "insertLines",
     "deleteLines", "scrollUp", "scrollDown", "insertChars", "deleteChars", "eraseChars",
     "repeatPrecedingCharacter", "eraseInDisplay", "eraseInLine", "eraseScrollback",
     "setMode", "resetMode", "sendDeviceAttributes"}

\* Any two control functions.
AnyTwo ==
    [Scene(Functions1, 2) EXCEPT
        !.modes = {<<3, TRUE>>, <<4, FALSE>>, <<7, TRUE>>, <<7, FALSE>>, <<47, TRUE>>,
                   <<1000, TRUE>>, <<1048, TRUE>>, <<1049, TRUE>>},
        !.moves = [scroll |-> 1, type |-> 1, hide |-> 1, mouse |-> 0, keys |-> 0]]
\* A shell whose window changes its width.
Rewraps ==
    [Scene({"print", "lineFeed", "setMode", "resetMode", "cursorPosition"}, 5) EXCEPT
        !.modes = {<<3, TRUE>>}]
\* An editor that scrolls a region while the user looks back.
Regions ==
    [Scene({"print", "lineFeed", "setScrollRegion", "reverseIndex", "insertLines",
            "cursorPosition"}, 4) EXCEPT !.moves.scroll = 1]
\* A program that takes the alternate buffer, on a page that is hidden.
Alternates ==
    [Scene({"print", "lineFeed", "setMode", "resetMode", "reset"}, 4) EXCEPT
        !.modes = {<<3, TRUE>>, <<1049, TRUE>>},
        !.moves.hide = 1]
\* A program that erases.
Erasing ==
    [Scene({"print", "lineFeed", "cursorPosition", "eraseInDisplay", "eraseScrollback",
            "eraseChars"}, 4) EXCEPT !.greeted = TRUE, !.moves.scroll = 1]
\* The user selects while lines scroll by.
Selects ==
    [Scene({"print", "lineFeed"}, 4) EXCEPT
        !.fits = {<<2, 2>>}, !.greeted = TRUE, !.letters = {"a"}, !.moves.mouse = 2]
\* The user types, with an input method too, and selects while a line scrolls.
Typing ==
    [Scene({"lineFeed"}, 1) EXCEPT
        !.fits = {<<2, 1>>}, !.greeted = TRUE, !.letters = {"a"},
        !.moves.keys = 3, !.moves.mouse = 1]
\* Control sequences that the messages break off, from four beginnings.
Codes ==
    {[Scene({}, 0) EXCEPT
        !.fits = {<<3, 2>>},
        !.codes = [first |-> first, left |-> 3,
                   of |-> {"a", "W", "esc", "[", "]", "P", "X", "1", ";", "?", "$", "c",
                           "q", "lf", "can", "del", "st", ":"}]] :
     first \in {<<>>, <<"esc", "[">>, <<"esc", "P">>, <<"esc", "]">>}}

MCKeys == {"a", "space", "page", "modifier"}
MCGuests == {AnyTwo, Rewraps, Regions, Alternates, Erasing, Selects, Typing} \cup Codes
=============================================================================
