---------------------------- MODULE TermConsole ----------------------------
(***************************************************************************)
(* The console page as a whole (vmango.WSConsole.js with xterm.js): the    *)
(* guest's characters reach the screen through the parser, chunk by chunk  *)
(* as the messages of the web socket bring them.                           *)
(***************************************************************************)
EXTENDS TermScreen, TermParser
LOCAL INSTANCE SequencesExt

VARIABLES parser,         \* the parser between two chunks
          fed             \* all characters it was given
consoleVars == <<screenVars, parser, fed>>

\* The handlers the constructor of InputHandler registers.  Parameters that are
\* missing count as 0.  Of several modes at once only the first form without a
\* `?' is tried for each.
LOCAL Handle(t, collect, params, c) ==
    LET n == params[1]
        m == IF Len(params) > 1 THEN params[2] ELSE 0
        private == collect = <<"?">> /\ Len(params) = 1
    IN  CASE c = "@" -> InsertChars(t, n)       [] c = "A" -> CursorUp(t, n)
          [] c \in {"B", "e"} -> CursorDown(t, n)
          [] c = "C" -> CursorForward(t, n)     [] c = "D" -> CursorBackward(t, n)
          [] c = "E" -> CursorNextLine(t, n)    [] c = "F" -> CursorPrecedingLine(t, n)
          [] c = "G" -> CursorCharAbsolute(t, n) [] c = "H" -> CursorPosition(t, n, m)
          [] c = "I" -> CursorForwardTab(t, n)  [] c = "Z" -> CursorBackwardTab(t, n)
          [] c = "J" /\ n \in 0..3 -> EraseInDisplay(t, n)
          [] c = "K" /\ n \in 0..2 -> EraseInLine(t, n)
          [] c = "L" -> InsertLines(t, n)       [] c = "M" -> DeleteLines(t, n)
          [] c = "P" -> DeleteChars(t, n)       [] c = "X" -> EraseChars(t, n)
          [] c = "S" -> ScrollUp(t, n)
          [] c = "T" /\ Len(params) < 2 /\ collect = <<>> -> ScrollDown(t, n)
          [] c = "bq" -> CharPosAbsolute(t, n)   [] c = "a" -> HPositionRelative(t, n)
          [] c = "b" -> RepeatPrecedingCharacter(t, n)
          [] c = "c" /\ n = 0 /\ collect \in {<<>>, <<">">>} -> SendData(t)
          [] c = "d" -> LinePosAbsolute(t, n)   [] c = "f" -> HVPosition(t, n, m)
          [] c = "g" -> TabClear(t, n)
          [] c = "h" -> Loop(LAMBDA s, k : SetMode(s, k, private), t, params)
          [] c = "l" -> Loop(LAMBDA s, k : ResetMode(s, k, private), t, params)
          [] c = "p" /\ collect = <<"!">> -> SoftReset(t)
          [] c = "r" /\ collect = <<>> -> SetScrollRegion(t, n, m)
          [] c = "s" -> SaveCursor(t)           [] c = "u" -> RestoreCursor(t)
          [] OTHER -> t

\* One call of the parser.  A delete that got into a run of letters is printed
\* as a mark without width; a request for a setting (DECRQSS) is answered.
Dispatch(t, call) ==
    LET name == call[1]
    IN  CASE t.stuck # "" -> t
          [] name = "print" -> PrintChar(t, IF call[2] = "del" THEN Mark ELSE call[2])
          [] name = "execute" -> CASE call[2] = "lf" -> LineFeed(t)
                                   [] call[2] = "cr" -> CarriageReturn(t)
                                   [] OTHER -> t
          [] name = "csi" -> Handle(t, call[2], call[3], call[4])
          [] name = "esc" -> CASE call[2] = <<"7">> -> SaveCursor(t)
                               [] call[2] = <<"8">> -> RestoreCursor(t)
                               [] call[2] = <<"D">> -> Index(t)
                               [] call[2] = <<"E">> -> NextLine(t)
                               [] call[2] = <<"H">> -> TabSet(t)
                               [] call[2] = <<"M">> -> ReverseIndex(t)
                               [] call[2] = <<"c">> -> Reset(t)
                               [] OTHER -> t
          [] name = "unhook" /\ call[2] = <<"$", "q">> -> SendData(t)
          [] OTHER -> t

Written(t, calls) ==
    LET begun == [t EXCEPT !.from = Buf(t).y, !.to = Buf(t).y, !.last = "parse"]
        Ended(t1) == [(IF t1.stuck # "" THEN t1 ELSE EndChunk(t1)) EXCEPT !.last = ""]
    IN  Ended(Loop(Dispatch, begun, calls))

\* A message of the guest is parsed: all of it, or up to an exception.
Receives ==
    \E n \in 1..guest.codes.left :
    \E chunk \in [1..n -> guest.codes.of] :
    \E p \in {Parse(parser, IF fed = <<>> THEN guest.codes.first \o chunk ELSE chunk)} :
       /\ ~greeting /\ ~term.open /\ term.stuck = ""
       /\ parser' = p
       /\ fed' = (IF fed = <<>> THEN guest.codes.first \o chunk ELSE fed \o chunk)
       /\ guest' = [guest EXCEPT !.codes.left = @ - n]
       /\ Becomes(Written(term, SubSeq(p.calls, Len(parser.calls) + 1, Len(p.calls))), TRUE)
       /\ UNCHANGED greeting

ConsoleInit == ScreenInit /\ parser = FreshParser /\ fed = <<>>
ConsoleNext == Receives \/ (ScreenNext /\ UNCHANGED <<parser, fed>>)
Console == ConsoleInit /\ [][ConsoleNext]_consoleVars

-----------------------------------------------------------------------------
\* What a handler was passed in parts is one text.
Whole(calls) ==
    LET Merge(w, c) ==
          IF c[1] = "put" /\ w # <<>> /\ w[Len(w)][1] = "put"
          THEN [w EXCEPT ![Len(w)] = <<"put", @[2] \o c[2]>>] ELSE Append(w, c)
    IN  FoldLeft(Merge, <<>>, calls)

\* Wherever the messages break off the guest's output, in the middle of a
\* control sequence too, the handlers are called as if it had come in one
\* piece.  It does matter for a delete among the letters, which prints a mark
\* when it comes in one message with the letter before it and nothing when it
\* begins one, and for a device control string that is cancelled: what came in
\* earlier messages was handled, what came with the cancel was not.
ChunksDoNotMatter ==
    \/ "del" \in ToSet(fed)
    \/ "can" \in ToSet(fed) /\ \E i \in DOMAIN parser.calls : parser.calls[i][1] = "hook"
    \/ LET once == Parse(FreshParser, fed)
        IN  /\ Whole(parser.calls) = Whole(once.calls)
            /\ [parser EXCEPT !.calls = <<>>] = [once EXCEPT !.calls = <<>>]
=============================================================================
