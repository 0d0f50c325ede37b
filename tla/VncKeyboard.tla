---------------------------- MODULE VncKeyboard -----------------------------
(***************************************************************************)
(* The keys of the VNC page: core/input/keyboard.js and core/input/util.js *)
(* with RFB.sendKey, between the keys the user holds and the keys that are *)
(* down in the guest.                                                      *)
(*                                                                         *)
(* The browser delivers key events to the canvas in order; between two of  *)
(* them a timer of the keyboard may fire, the focus may move, or the user  *)
(* may make the session view only.  A keysym is <<key, shifted>>.          *)
(***************************************************************************)
EXTENDS Integers, Sequences, Functions, FiniteSets

CONSTANTS
  Chars,      \* keys that print: their keysym depends on Shift
  Others,     \* the other keys of the user's keyboard
  Browsers,   \* [os, legacy, qemu]: the platform, are there key events
              \* without "key", does the server take scan codes?
  PressBounds \* bound: keys pressed, focus moved, or settings changed

VARIABLES
  browser,    \* the browser of this behaviour
  kb,         \* the Keyboard object and the session's view-only flag
  held,       \* the keys the user holds down
  focus,      \* "canvas", "page" (something else of it) or "away"
  queue,      \* key events on their way
  keysDown,   \* the keys that are down in the guest
  loose,      \* why keys may have been left down there
  presses     \* how much the bound still allows

keyVars == <<browser, kb, held, focus, queue, keysDown, loose, presses>>

NoSym == <<>>
Level3 == <<"Level3", FALSE>>
Control == <<"ControlLeft", FALSE>>
Shifted == held \cap {"ShiftLeft", "ShiftRight"} # {}

-----------------------------------------------------------------------------
(* The tables of core/input: virtual-key codes, keys that have one meaning, *)
(* their keysyms by location, the keysyms of characters, and scan codes.    *)

Vkeys ==
  [vk \in Chars \cup {"SHIFT", "CONTROL", "CAPITAL", "LWIN", "ALTGR"} |->
     CASE vk = "SHIFT" -> "ShiftLeft" [] vk = "CONTROL" -> "ControlLeft"
       [] vk = "CAPITAL" -> "CapsLock" [] vk = "LWIN" -> "MetaLeft"
       [] vk = "ALTGR" -> "AltRight" [] vk \in Chars -> vk]

FixedKeys ==
  [code \in {"ShiftLeft", "ShiftRight", "ControlLeft", "CapsLock", "MetaLeft",
             "AltRight"} |->
     CASE code \in {"ShiftLeft", "ShiftRight"} -> "Shift"
       [] code = "ControlLeft" -> "Control" [] code = "CapsLock" -> "CapsLock"
       [] code = "MetaLeft" -> "Meta" [] code = "AltRight" -> "Alt"]

DOMKeyTable ==
  [key \in {"Shift", "Control", "CapsLock", "Meta", "Alt"} |->
     [location \in {0, 1, 2, 3} |->
        <<CASE key = "Shift" ->
                 IF location = 2 THEN "ShiftRight" ELSE "ShiftLeft"
            [] key = "Alt" -> IF location = 2 THEN "AltRight" ELSE "AltLeft"
            [] key = "Control" -> "ControlLeft"
            [] key = "CapsLock" -> "CapsLock"
            [] key = "Meta" -> "MetaLeft",
          FALSE>>]]

\* The names of printing keys are none of the others, nor of their tables.
ASSUME KeysAssumption ==
  /\ Others \subseteq DOMAIN FixedKeys
  /\ Chars \cap (DOMAIN FixedKeys \cup {"", "OSLeft", "Unidentified"}) = {}
  /\ Chars \cap {"SHIFT", "CONTROL", "CAPITAL", "LWIN", "ALTGR"} = {}

\* Each character has a keysym of its own.
Lookup(char) == <<char.key, char.shift>>

\* So has each physical key a scan code, but none is known for "Unidentified".
XtScancode(code) == IF code = "Unidentified" THEN {} ELSE {code}

-----------------------------------------------------------------------------
(* core/input/util.js: what an event says of its key.  A legacy event has  *)
(* no code and no key: it has the virtual key, which is the same on both   *)
(* sides, and a location; its keypress has the character only.             *)

Event(type, k) ==
  [type |-> type,
   code |-> IF browser.legacy THEN "" ELSE IF k = "MetaLeft" THEN "OSLeft" ELSE k,
   keyCode |-> IF type = "keypress" THEN "charCode"
               ELSE CHOOSE vk \in DOMAIN Vkeys :
                      Vkeys[vk] = IF k = "ShiftRight" THEN "ShiftLeft" ELSE k,
   shiftKey |-> Shifted,
   location |-> IF k \in {"ShiftRight", "AltRight"} THEN 2 ELSE 0,
   key |-> IF browser.legacy \/ k \in Chars THEN "" ELSE FixedKeys[k],
   char |-> IF k \in Chars /\ (browser.legacy => type = "keypress")
              THEN {[key |-> k, shift |-> Shifted]} ELSE {}]

GetKeycode(e) ==
  CASE e.code = "OSLeft" -> "MetaLeft"
    [] e.code \notin {"", "OSLeft"} -> e.code
    [] e.code = "" /\ e.type = "keypress" -> "Unidentified"
    [] OTHER -> IF e.location = 2 /\ Vkeys[e.keyCode] = "ShiftLeft"
                  THEN "ShiftRight" ELSE Vkeys[e.keyCode]

GetKey(e) ==
  IF e.key # "" THEN e.key
  ELSE IF e.char = {} /\ GetKeycode(e) \in DOMAIN FixedKeys
    THEN FixedKeys[GetKeycode(e)]
  ELSE "Unidentified"

GetKeysym(e) ==
  IF e.char # {} THEN Lookup(CHOOSE c \in e.char : TRUE)
  ELSE IF GetKey(e) = "Unidentified" THEN NoSym
  ELSE DOMKeyTable[GetKey(e)][e.location]

-----------------------------------------------------------------------------
(* core/input/keyboard.js, as operators on what a callback changes: the    *)
(* keyboard and the guest.                                                 *)

Keys == [kb |-> kb, keysDown |-> keysDown]

\* RFB.sendKey with the server's side of it: scan codes where the server
\* takes them, keysyms elsewhere, and no key that has neither.
SendKey(x, sym, code, down) ==
  LET key == IF browser.qemu /\ XtScancode(code) # {} THEN <<code>> ELSE sym
  IN IF x.kb.viewOnly \/ key = NoSym THEN x
     ELSE [x EXCEPT !.keysDown = IF down THEN @ \cup {key} ELSE @ \ {key}]

\* _sendKeyEvent: the list has what is down, and with which keysym.
SendKeyEvent(x, sym, code, down) ==
  LET list == x.kb.down
      y == [x EXCEPT !.kb.down =
              IF down THEN [c \in DOMAIN @ \cup {code} |->
                              IF c = code THEN sym ELSE @[c]]
              ELSE Restrict(@, DOMAIN @ \ {code})]
  IN IF ~down /\ code \notin DOMAIN list THEN x
     ELSE SendKey(y, sym, code, down)

Tap(x, sym, code) ==
  SendKeyEvent(SendKeyEvent(x, sym, code, TRUE), sym, code, FALSE)

\* A Control that was held back for an AltGr which did not come.
ControlAfterAll(x) ==
  IF ~x.kb.armed THEN x
  ELSE SendKeyEvent([x EXCEPT !.kb.armed = FALSE], Control, "ControlLeft", TRUE)

\* Alt behaves like AltGraph on a Mac, and Super like Alt.
MacSym(sym) ==
  CASE sym = <<"MetaLeft", FALSE>> -> <<"AltLeft", FALSE>>
    [] sym = <<"AltLeft", FALSE>> -> <<"ModeSwitch", FALSE>>
    [] sym = <<"AltRight", FALSE>> -> Level3
    [] OTHER -> sym

HandleKeyDown(x, e) ==
  LET code == GetKeycode(e)
      altGr == x.kb.armed /\ code = "AltRight" /\ x.kb.fresh
      y == IF altGr THEN [x EXCEPT !.kb.armed = FALSE] ELSE ControlAfterAll(x)
      here == IF altGr THEN Level3
              ELSE IF browser.os = "mac" THEN MacSym(GetKeysym(e))
              ELSE GetKeysym(e)
      sym == IF code \in DOMAIN y.kb.down THEN y.kb.down[code] ELSE here
  IN CASE code = "Unidentified" ->
            IF GetKeysym(e) = NoSym THEN y ELSE Tap(y, GetKeysym(e), code)
       [] code = "CapsLock" /\ browser.os = "mac" ->
            Tap(y, <<"CapsLock", FALSE>>, code)
       [] sym = NoSym /\ browser.legacy ->
            [y EXCEPT !.kb.pending = code, !.kb.timers = @ \cup {e}]
       [] code = "ControlLeft" /\ browser.os = "windows"
            /\ code \notin DOMAIN y.kb.down ->
            [y EXCEPT !.kb.pending = "", !.kb.armed = TRUE, !.kb.fresh = TRUE]
       [] OTHER -> SendKeyEvent([y EXCEPT !.kb.pending = ""], sym, code, TRUE)

HandleKeyPress(x, e) ==
  IF x.kb.pending = "" \/ GetKeycode(e) \notin {"Unidentified", x.kb.pending}
    THEN x
    ELSE SendKeyEvent([x EXCEPT !.kb.pending = ""],
                      GetKeysym(e), x.kb.pending, TRUE)

\* The timer set for e: what is pending by now need not be what was then.
HandleKeyPressTimeout(x, e) ==
  LET y == [x EXCEPT !.kb.timers = @ \ {e}, !.kb.pending = ""]
      guess == IF e.keyCode \in Chars
                 THEN Lookup([key |-> e.keyCode, shift |-> e.shiftKey]) ELSE NoSym
  IN IF x.kb.pending = "" THEN y
     ELSE SendKeyEvent(y, guess, x.kb.pending, TRUE)

\* Mutant: the release has the keysym of its own event.
HandleKeyUpOwnSym(x, e) ==
  LET code == GetKeycode(e)
      y == ControlAfterAll(x)
  IN IF code = "CapsLock" /\ browser.os = "mac"
       THEN Tap(y, <<"CapsLock", FALSE>>, code)
     ELSE IF code \notin DOMAIN y.kb.down THEN y
     ELSE SendKeyEvent(y, GetKeysym(e), code, FALSE)

HandleKeyUp(x, e) ==
  LET code == GetKeycode(e)
      y == ControlAfterAll(x)
  IN IF code = "CapsLock" /\ browser.os = "mac"
       THEN Tap(y, <<"CapsLock", FALSE>>, code)
     ELSE IF code \notin DOMAIN y.kb.down THEN y
     ELSE SendKeyEvent(y, y.kb.down[code], code, FALSE)

AllKeysUp(x) ==
  LET down == x.kb.down
      gone == IF x.kb.viewOnly THEN {}
              ELSE IF browser.qemu THEN {<<c>> : c \in DOMAIN down}
              ELSE Range(down)
  IN [x EXCEPT !.kb.down = <<>>, !.keysDown = @ \ gone]

-----------------------------------------------------------------------------
Typed(x) == kb' = x.kb /\ keysDown' = x.keysDown

UserActs == presses > 0 /\ presses' = presses - 1

\* What the browser sends for a key: on Windows AltGr comes as Control and
\* Alt, and a legacy browser follows a printing key with its character.
EventsOf(type, k) ==
  (IF k = "AltRight" /\ browser.os = "windows"
     THEN <<Event(type, "ControlLeft")>> ELSE <<>>)
  \o <<Event(type, k)>>
  \o (IF type = "keydown" /\ browser.legacy /\ k \in Chars
        THEN <<Event("keypress", k)>> ELSE <<>>)

Deliver(type, k) ==
  queue' = IF focus = "canvas" THEN queue \o EventsOf(type, k) ELSE queue

\* The key goes down, or repeats.
Press(k) ==
  /\ UserActs
  /\ held' = held \cup {k}
  /\ Deliver("keydown", k)
  /\ UNCHANGED <<browser, kb, focus, keysDown, loose>>

\* A key released where the canvas does not hear it stays down unless the
\* keyboard has let go of it.
Release(k) ==
  /\ k \in held
  /\ held' = held \ {k}
  /\ Deliver("keyup", k)
  /\ loose' = IF focus = "page" THEN loose \cup {"page"} ELSE loose
  /\ UNCHANGED <<browser, kb, focus, keysDown, presses>>

\* The window loses the focus: 'blur' releases every key.
Leave ==
  /\ UserActs
  /\ focus # "away"
  /\ focus' = "away"
  /\ queue' = Append(queue, [type |-> "blur"])
  /\ UNCHANGED <<browser, kb, held, keysDown, loose>>

\* A click on the canvas, or on something else that takes the focus.
MoveFocus(place) ==
  /\ UserActs
  /\ focus # place
  /\ focus' = place
  /\ UNCHANGED <<browser, kb, held, queue, keysDown, loose>>

\* The setter of viewOnly: the flag first, then grab or ungrab.
ToggleViewOnly ==
  /\ UserActs
  /\ LET x == [Keys EXCEPT !.kb.viewOnly = ~@]
     IN IF kb.viewOnly THEN Typed(x) ELSE Typed(AllKeysUp(x))
  /\ loose' = IF kb.down # <<>> \/ kb.armed \/ kb.pending # ""
                THEN loose \cup {"view only"} ELSE loose
  /\ UNCHANGED <<browser, held, focus, queue>>

\* The next event is heard if the keyboard is grabbed.
HandleEvent ==
  /\ queue # <<>>
  /\ queue' = Tail(queue)
  /\ LET e == Head(queue)
     IN /\ IF kb.viewOnly THEN UNCHANGED <<kb, keysDown>>
           ELSE Typed(CASE e.type = "keydown" -> HandleKeyDown(Keys, e)
                           [] e.type = "keypress" -> HandleKeyPress(Keys, e)
                           [] e.type = "keyup" -> HandleKeyUp(Keys, e)
                           [] e.type = "blur" -> AllKeysUp(Keys))
        /\ loose' = IF e.type = "blur" /\ (kb.armed \/ kb.pending # "")
                      THEN loose \cup {"timer"} ELSE loose
  /\ UNCHANGED <<browser, held, focus, presses>>

\* 50 ms after a Control that may begin an AltGr, and 100 ms after it.
TimePasses ==
  /\ kb.armed /\ kb.fresh
  /\ kb' = [kb EXCEPT !.fresh = FALSE]
  /\ UNCHANGED <<browser, held, focus, queue, keysDown, loose, presses>>

HandleAltGrTimeout ==
  /\ kb.armed /\ ~kb.fresh
  /\ Typed(ControlAfterAll(Keys))
  /\ UNCHANGED <<browser, held, focus, queue, loose, presses>>

KeyPressTimeout ==
  /\ \E e \in kb.timers :
       /\ Typed(HandleKeyPressTimeout(Keys, e))
       /\ loose' = IF kb.pending \notin {"", GetKeycode(e)}
                     THEN loose \cup {"stale"} ELSE loose
  /\ UNCHANGED <<browser, held, focus, queue, presses>>

KeyInit ==
  /\ browser \in Browsers
  /\ kb = [down |-> <<>>, pending |-> "", timers |-> {}, armed |-> FALSE,
           fresh |-> FALSE, viewOnly |-> FALSE]
  /\ held = {} /\ focus = "canvas" /\ queue = <<>> /\ keysDown = {}
  /\ loose = {} /\ presses \in PressBounds

KeyNext ==
  \/ \E k \in Chars \cup Others : Press(k) \/ Release(k)
  \/ Leave \/ \E place \in {"canvas", "page"} : MoveFocus(place)
  \/ ToggleViewOnly \/ HandleEvent
  \/ TimePasses \/ HandleAltGrTimeout \/ KeyPressTimeout

KeySpec == KeyInit /\ [][KeyNext]_keyVars

-----------------------------------------------------------------------------
(* Properties.                                                             *)

\* Once every event is handled, no key is down in the guest that the user does
\* not hold: modifiers that change between press and release, both keys of a
\* pair, AltGr on Windows, late timers and repeats included.  What leaves one
\* down is named in "loose": keys down (or on the way) as the session became
\* view only, which clears the list after sending has stopped; a key let go
\* after the focus moved to another part of the page; a timer that outlives the
\* blur; and, without "key" in the events, the timer of a key that has had its
\* character, which takes the next key for the one it was set for.  With an
\* AltGr on Windows its Control is down when the two were not merged.
HeldKey(key) ==
  \E k \in held :
    \/ key[1] \in {k, MacSym(<<k, FALSE>>)[1]}
    \/ k = "AltRight" /\ (\/ key = Level3
                          \/ browser.os = "windows" /\ key[1] = "ControlLeft")
KeysReleased ==
  queue = <<>> => (\A key \in keysDown : HeldKey(key)) \/ loose # {}
=============================================================================
