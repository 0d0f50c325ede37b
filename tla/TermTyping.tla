----------------------------- MODULE TermTyping -----------------------------
(***************************************************************************)
(* What the user types, composes and pastes on its way to the guest        *)
(* (xterm.js: Terminal, CompositionHelper, Clipboard, Keyboard).  Letters  *)
(* are sent by keydown, what it leaves alone by keypress; the text of an   *)
(* input method is read back from the hidden textarea, in timeouts of 0 ms *)
(* that may come late.  Everything typed has a number of its own.          *)
(***************************************************************************)
EXTENDS Integers, Sequences, SequencesExt

CONSTANTS Systems,    \* of "mac", "windows", "linux"
          UserKeys    \* the user has: "a", "letter", "space", "arrow" ...

VARIABLES os,         \* of the browser
          typing,     \* the textarea and the terminal's view of it
          ime,        \* the input method: composing over text since base
          meant,      \* what the user has typed, in order
          spoilt,     \* what went before that may lose or double it
          acted       \* how many more things the user does (bound), numbers given
typingVars == <<os, typing, ime, meant, spoilt, acted>>

Selected == -1        \* text of the terminal in the textarea
Never == -1           \* a position that was never noted

Modified(e) == e.alt \/ e.ctrl \/ e.meta
Text == {"a", "letter", "digit", "sign", "minus", "space"}

\* _isThirdLevelShift: Alt on a Mac and AltGr on Windows choose a character.
ThirdLevel(e) == /\ e.alt /\ ~e.meta
                 /\ \/ os = "mac" /\ ~e.ctrl
                    \/ os = "windows" /\ e.ctrl

\* Keys with a code above 47, for which keydown leaves that to keypress.
LeftAlone(e) == ThirdLevel(e) /\ e.key \in (Text \ {"space"}) \cup {"function"}

\* A key press that means a character, which keypress will bring.
Types(e) == e.key \in Text /\ ~e.meta /\ (ThirdLevel(e) \/ ~Modified(e))

\* evaluateKeyboardEvent: whether there is a sequence to send for the key.
\* "digit" is 3 to 8, "sign" a bracket, "minus" has the underscore with Shift.
\* A space alone is left to keypress, and Shift with a page key scrolls.
EvaluatesFixed(e) ==
  e.key \in {"backspace", "tab", "return", "escape", "arrow", "home"}

EvaluatesFunction(e) ==
  \/ e.key \in {"delete", "function"}
  \/ e.key = "insert" /\ ~e.shift /\ ~e.ctrl
  \/ e.key = "page" /\ ~e.shift

EvaluatesText(e) ==
  /\ e.key \in Text
  /\ \/ e.ctrl /\ ~e.shift /\ ~e.alt /\ ~e.meta /\ e.key # "minus"
     \/ os # "mac" /\ e.alt /\ ~e.meta /\ e.key # "space"
     \/ ~Modified(e) /\ e.key # "space"
     \/ e.ctrl /\ e.shift /\ e.key = "minus"

Evaluates(e) == EvaluatesFixed(e) \/ EvaluatesFunction(e) \/ EvaluatesText(e)

\* The terminal selects all of its text, the browser all of the textarea.
SelectsAll(e) == e.key = "a" /\ os = "mac" /\ e.meta /\ ~e.alt /\ ~e.ctrl

\* handler: what is sent takes the view down to the screen.
SendItems(k, items) == [k EXCEPT !.sent = @ \o items, !.view = "send"]

-----------------------------------------------------------------------------
(* CompositionHelper.                                                      *)

\* String.substring, for which null is 0 and the order does not matter.
Substring(text, a, b) ==
  LET Place(n) == IF n < 0 THEN 0 ELSE IF n > Len(text) THEN Len(text) ELSE n
      from == IF Place(a) < Place(b) THEN Place(a) ELSE Place(b)
      to == IF Place(a) < Place(b) THEN Place(b) ELSE Place(a)
  IN SubSeq(text, from + 1, to)

\* newValue.replace(oldValue, '').
Difference(new, old) == IF old = <<>> THEN new ELSE ReplaceFirstSubSeq(<<>>, old, new)

Later(k, what) == [k EXCEPT !.timers = Append(@, what)]
Waits(k, kind) == \E i \in DOMAIN k.timers : k.timers[i].do = kind

CompositionStart(k) == [k EXCEPT !.composing = TRUE, !.start = Len(k.area)]
CompositionUpdate(k) == Later(k, [do |-> "end"])

\* Mutant: the key that ends a composition leaves its timeout in force.
FinalizeNowOnly(k) ==
  SendItems([k EXCEPT !.composing = FALSE], Substring(k.area, k.start, k.end))

\* _finalizeComposition, now or when the text has arrived.  The end is the one
\* noted last.
FinalizeNow(k) ==
  SendItems([k EXCEPT !.composing = FALSE, !.sending = FALSE],
            Substring(k.area, k.start, k.end))

CompositionEnd(k) ==
  Later([k EXCEPT !.composing = FALSE, !.sending = TRUE],
        [do |-> "send", start |-> k.start, end |-> k.end])

\* keydown of the helper, for a key of the input method (code 229), Shift and
\* its like, and any other; "go" is its answer.
HelperKeyDown(k, kind) ==
  LET busy == k.composing \/ k.sending
      f == IF busy /\ kind = "other" THEN FinalizeNow(k) ELSE k
  IN [k |-> IF kind = "ime" /\ ~busy
              THEN Later(f, [do |-> "diff", old |-> k.area]) ELSE f,
      go |-> kind = "other" \/ (kind = "modifier" /\ ~busy)]

\* The oldest timeout.  The end of a composition is open if there is no next.
Timeout(k) ==
  LET t == Head(k.timers)
      r == [k EXCEPT !.timers = Tail(@)]
  IN CASE t.do = "end" -> [r EXCEPT !.end = Len(k.area)]
       [] t.do = "send" ->
            IF ~k.sending THEN r
            ELSE SendItems([r EXCEPT !.sending = FALSE],
                           Substring(k.area, t.start,
                                     IF k.composing THEN t.end ELSE Len(k.area)))
       [] t.do = "diff" ->
            LET d == Difference(k.area, t.old)
            IN IF k.composing \/ d = <<>> THEN r ELSE SendItems(r, d)

-----------------------------------------------------------------------------
(* Keys.                                                                   *)

\* _keyDown: the new state, and whether the browser goes on with keypress.
KeyDown(k, e) ==
  LET kind == IF e.key \in {"ime"} THEN "ime"
              ELSE IF e.key = "modifier" THEN "modifier" ELSE "other"
      h == HelperKeyDown(k, kind)
      none == [k |-> h.k, goes |-> TRUE]
  IN IF ~h.go THEN [k |-> [h.k EXCEPT !.view = "bottom"], goes |-> TRUE]
     ELSE IF e.key = "page" /\ e.shift
            THEN [k |-> [h.k EXCEPT !.view = "page"], goes |-> FALSE]
     ELSE IF LeftAlone(e) THEN none
     ELSE IF SelectsAll(e)
            THEN [k |-> [h.k EXCEPT !.view = "all", !.marked = h.k.area # <<>>], goes |-> TRUE]
     ELSE IF Evaluates(e) THEN [k |-> SendItems(h.k, <<e.n>>), goes |-> FALSE]
     ELSE none

\* Text goes to the end of the textarea, or over all of it if it is marked.
Insert(k, items) ==
  [k EXCEPT !.area = IF k.marked THEN items ELSE @ \o items, !.marked = FALSE]

\* _keyPress does not cancel: the character stays in the textarea.
KeyPress(k, e) ==
  Insert(IF Modified(e) /\ ~ThirdLevel(e) THEN k ELSE SendItems(k, <<e.n>>), <<e.n>>)

Same(k) == [k EXCEPT !.view = "same"]
TypingActs == acted.acts > 0 /\ acted' = [acts |-> acted.acts - 1, n |-> acted.n + 1]
Now == acted.n + 1
Reason(c, r) == IF c THEN {r} ELSE {}
Meant(items) == meant' = meant \o items

\* What is to be read from the textarea later.
ToRead(k) == Waits(k, "diff") \/ (k.sending /\ Waits(k, "send"))

\* A key would send a composition whose end is not noted, or only the last of
\* two that ended.
Early(k) ==
  /\ k.sending
  /\ \/ k.end # Len(k.area)
     \/ \E i, j \in DOMAIN k.timers :
          i # j /\ k.timers[i].do = "send" /\ k.timers[j].do = "send"

PressKey(e) ==
  LET d == KeyDown(Same(typing), e)
  IN /\ ~ime.on
     /\ TypingActs
     /\ typing' = IF d.goes /\ Types(e) THEN KeyPress(d.k, e) ELSE d.k
     /\ Meant(IF Types(e) \/ (Evaluates(e) /\ ~LeftAlone(e)) THEN <<e.n>> ELSE <<>>)
     /\ spoilt' = spoilt \cup Reason(Early(typing), "early")
                   \cup Reason(Waits(typing, "diff"), "unread")
     /\ UNCHANGED <<os, ime>>

\* paste: sent, and then inserted by the browser, as nothing prevents it.
Paste ==
  /\ ~ime.on
  /\ TypingActs
  /\ typing' = [SendItems(Same(typing), <<Now>>) EXCEPT !.area = <<Now>>, !.marked = FALSE]
  /\ Meant(<<Now>>)
  /\ spoilt' = spoilt \cup Reason(ToRead(typing), "emptied")
  /\ UNCHANGED <<os, ime>>

\* _onTextAreaBlur.
Blur ==
  /\ ~ime.on
  /\ TypingActs
  /\ typing' = [Same(typing) EXCEPT !.area = <<>>, !.marked = FALSE]
  /\ spoilt' = spoilt \cup Reason(ToRead(typing), "emptied")
  /\ UNCHANGED <<os, ime, meant>>

\* The selected text is put into the textarea and marked.
MarkSelected(selected) ==
  /\ typing' = [Same(typing) EXCEPT !.area = IF selected THEN <<Selected>> ELSE <<>>,
                                     !.marked = selected]
  /\ spoilt' = spoilt \cup Reason(ToRead(typing) \/ ime.on, "emptied")
  /\ UNCHANGED <<os, ime, meant>>

\* rightClickHandler.
RightClick(selected) ==
  /\ ~ime.on
  /\ TypingActs
  /\ MarkSelected(selected)

\* onLinuxMouseSelection: what the mouse selects is marked at once.
MouseSelects ==
  /\ os = "linux"
  /\ MarkSelected(TRUE)
  /\ UNCHANGED acted

-----------------------------------------------------------------------------
(* The input method: its keys have the code 229, its text is in the        *)
(* textarea as it is composed.                                             *)

ImeKey == KeyDown(Same(typing), [key |-> "ime"]).k
Composed(k, base, text) == [k EXCEPT !.area = base \o text]

ImeOpens ==
  LET k == CompositionUpdate(CompositionStart(ImeKey))
      base == IF typing.marked THEN <<>> ELSE typing.area
  IN /\ ~ime.on
     /\ TypingActs
     /\ ime' = [on |-> TRUE, base |-> base, text |-> <<Now>>]
     /\ typing' = [Composed(k, base, <<Now>>) EXCEPT !.marked = FALSE]
     /\ spoilt' = spoilt \cup Reason(typing.marked, "marked")
                   \cup Reason(Waits(typing, "diff"), "unread")
                   \cup Reason(Waits(typing, "send") /\ ~typing.sending, "early")
                   \cup Reason(\E i \in DOMAIN typing.timers :
                                 typing.timers[i].do = "send"
                                 /\ typing.timers[i].end # Len(typing.area), "early")
     /\ UNCHANGED <<os, meant>>

\* Another character, or another one for the last.
ImeChanges ==
  /\ ime.on
  /\ TypingActs
  /\ \E kept \in {ime.text, Front(ime.text)} :
       /\ ime' = [ime EXCEPT !.text = Append(kept, Now)]
       /\ typing' = Composed(CompositionUpdate(ImeKey), ime.base, Append(kept, Now))
  /\ UNCHANGED <<os, meant, spoilt>>

ImeCommits ==
  /\ ime.on
  /\ TypingActs
  /\ typing' = CompositionEnd(ImeKey)
  /\ Meant(ime.text)
  /\ ime' = [ime EXCEPT !.on = FALSE]
  /\ spoilt' = spoilt \cup Reason(Waits(typing, "diff"), "unread")
  /\ UNCHANGED os

ImeCancels ==
  /\ ime.on
  /\ TypingActs
  /\ typing' = CompositionEnd(Composed(CompositionUpdate(ImeKey), ime.base, <<>>))
  /\ ime' = [ime EXCEPT !.on = FALSE]
  /\ UNCHANGED <<os, meant, spoilt>>

\* A key of the input method that types or deletes without composing.
ImeTypes ==
  /\ ~ime.on
  /\ TypingActs
  /\ typing' = Insert(ImeKey, <<Now>>)
  /\ Meant(<<Now>>)
  /\ spoilt' = spoilt \cup Reason(Waits(typing, "diff"), "unread")
  /\ UNCHANGED <<os, ime>>

ImeDeletes ==
  /\ ~ime.on
  /\ TypingActs
  /\ typing' = [ImeKey EXCEPT !.marked = FALSE,
                  !.area = IF typing.marked \/ @ = <<>> THEN <<>> ELSE Front(@)]
  /\ spoilt' = spoilt \cup Reason(ToRead(typing) \/ Len(typing.area) > 1, "deleted")
  /\ UNCHANGED <<os, ime, meant>>

TimeoutComes ==
  /\ typing.timers # <<>>
  /\ typing' = Timeout(Same(typing))
  /\ UNCHANGED <<os, ime, meant, spoilt, acted>>

Shifts == [shift : BOOLEAN, alt : BOOLEAN, ctrl : BOOLEAN, meta : BOOLEAN]
PressAnyKey == \E key \in UserKeys, s \in Shifts :
                 PressKey([key |-> key, n |-> Now, shift |-> s.shift, alt |-> s.alt,
                           ctrl |-> s.ctrl, meta |-> s.meta])

TypingInit(acts) ==
  /\ os \in IF acts = 0 THEN {"linux"} ELSE Systems
  /\ typing = [area |-> <<>>, marked |-> FALSE, composing |-> FALSE, sending |-> FALSE,
               start |-> Never, end |-> Never, timers |-> <<>>, sent |-> <<>>, view |-> "same"]
  /\ ime = [on |-> FALSE, base |-> <<>>, text |-> <<>>]
  /\ meant = <<>> /\ spoilt = {} /\ acted = [acts |-> acts, n |-> 0]

TypingStep == \/ PressAnyKey \/ Paste \/ Blur
              \/ ImeOpens \/ ImeChanges \/ ImeCommits \/ ImeCancels
              \/ ImeTypes \/ ImeDeletes \/ TimeoutComes

\* What the terminal does to it, and what is selected there, is TermPage's.
TypingNext == \/ TypingStep \/ MouseSelects
              \/ \E selected \in BOOLEAN : RightClick(selected)

TypingBegin == \E acts \in Nat : TypingInit(acts)

TypingSpec == TypingBegin /\ [][TypingNext]_typingVars

-----------------------------------------------------------------------------
\* What the user types reaches the guest once and in order, whether keydown,
\* keypress, a paste or a timeout of the input method sends it - unless a
\* timeout came so late that meanwhile
\*   "early"    a key or another composition sent a composition whose end was not
\*              noted yet, or the timeout of the last one was left behind,
\*   "unread"   another text of the input method came before the first was read,
\*   "emptied"  the textarea was emptied by a paste, a blur or a right click, or
\*              the mouse selected something, even before the text was committed;
\* or the input method deleted and left text in the textarea ("deleted": all that
\* is left counts as new), or composed over text that was marked ("marked": the start is
\* noted after the marked text, which then goes).
TypedOnce ==
  \/ spoilt # {}
  \/ /\ IsPrefix(typing.sent, meant)
     /\ (typing.timers = <<>> /\ ~ime.on) => typing.sent = meant
=============================================================================
