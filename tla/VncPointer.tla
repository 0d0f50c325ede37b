------------------------------ MODULE VncPointer ------------------------------
(***************************************************************************)
(* The pointer of the VNC page over the guest's screen: the Mouse object   *)
(* (core/input/mouse.js), the emulated capture of util/events.js, what RFB *)
(* makes of buttons and moves (core/rfb.js), dragging the viewport, and    *)
(* the page's choices about them (app/ui_vmango.js).                       *)
(*                                                                         *)
(* The session is connected.  The browser is one without setCapture: while *)
(* a button is captured an element covers the page, which passes on moves  *)
(* and releases, and the first release ends the capture.                   *)
(***************************************************************************)
EXTENDS VncScreen

CONSTANTS
  Buttons,         \* the buttons of the mouse that the user uses
  DragThreshold,   \* pixels before a press in drag mode is a drag
  ActBounds        \* bound: how much the user does with the pointer

\* The page has a largest place, and the buttons of the wheel are others.
ASSUME LargestAssumption == \E n \in Sizes : \A m \in Sizes : m <= n
ASSUME ButtonsAssumption == Buttons \cap {"up", "down"} = {}
ASSUME ThresholdAssumption == DragThreshold \in Nat

VARIABLES
  mouse,    \* the Mouse object
  pointer,  \* RFB's button mask and viewport drag
  hand,     \* the buttons and the touch the user holds, and where
  capture,  \* does the capture element cover the page?
  guest,    \* the mask and the position the guest has last been sent
  why,      \* what may have left a button or a drag behind
  acts

pointerVars == <<mouse, pointer, hand, capture, guest, why, acts>>
Places == 0 .. CHOOSE n \in Sizes : \A m \in Sizes : m <= n

\* Client coordinates over the canvas, and those clipped to its bounds.
Inside(x) == x * display.shown[2] < display.shown[1]
MousePosition(x) ==
  IF Inside(x) THEN x ELSE display.shown[1] \div display.shown[2] - 1

Near(x, y, reach) == x - y <= reach /\ y - x <= reach

-----------------------------------------------------------------------------
(* core/rfb.js, on what a handler changes.                                 *)

Hands == [pointer |-> pointer, guest |-> guest, display |-> display]

PointerEvent(h, x, mask) ==
  IF rfb.viewOnly THEN h
  ELSE [h EXCEPT !.guest = [mask |-> mask, x |-> AbsX(h.display, x)]]

\* Mutant: the end of a drag is a click.
MouseButtonDragClicks(h, x, down, button) ==
  LET mask == IF down THEN h.pointer.mask \cup {button}
              ELSE h.pointer.mask \ {button}
      h1 == [h EXCEPT !.pointer.mask = mask]
      begun == [h1 EXCEPT !.pointer.dragging = TRUE, !.pointer.from = x,
                          !.pointer.moved = FALSE]
      ended == [h1 EXCEPT !.pointer.dragging = FALSE]
  IN IF rfb.drag /\ down /\ ~h.pointer.dragging THEN begun
     ELSE IF rfb.drag THEN PointerEvent(PointerEvent(ended, x, {button}), x, mask)
     ELSE PointerEvent(h1, x, mask)

\* In drag mode a press begins a drag.  The next button event ends it, and
\* is a click of that button if the viewport has not moved.
MouseButton(h, x, down, button) ==
  LET mask == IF down THEN h.pointer.mask \cup {button}
              ELSE h.pointer.mask \ {button}
      h1 == [h EXCEPT !.pointer.mask = mask]
      begun == [h1 EXCEPT !.pointer.dragging = TRUE, !.pointer.from = x,
                          !.pointer.moved = FALSE]
      ended == [h1 EXCEPT !.pointer.dragging = FALSE]
  IN IF rfb.drag /\ down /\ ~h.pointer.dragging THEN begun
     ELSE IF rfb.drag /\ h.pointer.moved THEN ended
     ELSE IF rfb.drag
       THEN PointerEvent(PointerEvent(ended, x, {button}), x, mask)
     ELSE PointerEvent(h1, x, mask)

HandleMouseMove(h, x) ==
  LET drags == h.pointer.moved \/ ~Near(h.pointer.from, x, DragThreshold)
  IN IF ~h.pointer.dragging THEN PointerEvent(h, x, h.pointer.mask)
     ELSE IF ~drags THEN h
     ELSE [h EXCEPT !.pointer.moved = TRUE, !.pointer.from = x,
                    !.display = ViewportChangePos(@, h.pointer.from - x)]

-----------------------------------------------------------------------------
(* core/input/mouse.js                                                     *)

Handled(h) ==
  pointer' = h.pointer /\ guest' = h.guest /\ display' = h.display

\* util/events.js: the capture element hears for the canvas.
SetCapture == capture' = TRUE
ReleaseCapture == capture' = FALSE
CaptureProxy(x) == capture \/ hand.touching \/ Inside(x)

Acts == acts > 0 /\ acts' = acts - 1
Because(what, cause) == why' = IF cause THEN why \cup {what} ELSE why
RestOfPage == UNCHANGED <<rfb, ui, window, server, changes>>

\* A second button goes down over the element that covers the page: nothing
\* hears of it, but its release is passed on and ends the capture.
HandleMouseDown(button) ==
  /\ Acts
  /\ button \notin hand.pressed /\ ~hand.touching
  /\ hand' = [hand EXCEPT !.pressed = @ \cup {button}]
  /\ Because("two buttons", hand.pressed # {})
  /\ IF Inside(hand.at) /\ ~capture /\ ~rfb.viewOnly
       THEN /\ SetCapture
            /\ Handled(MouseButton(Hands, MousePosition(hand.at), TRUE, button))
       ELSE UNCHANGED <<capture, pointer, guest, display>>
  /\ UNCHANGED mouse /\ RestOfPage

\* Mutant: only the canvas itself hears a release.
HandleMouseUpInside(button) ==
  /\ button \in hand.pressed
  /\ hand' = [hand EXCEPT !.pressed = @ \ {button}]
  /\ ReleaseCapture
  /\ IF Inside(hand.at) /\ ~rfb.viewOnly
       THEN Handled(MouseButton(Hands, MousePosition(hand.at), FALSE, button))
       ELSE UNCHANGED <<pointer, guest, display>>
  /\ UNCHANGED <<mouse, acts, why>> /\ RestOfPage

HandleMouseUp(button) ==
  /\ button \in hand.pressed
  /\ hand' = [hand EXCEPT !.pressed = @ \ {button}]
  /\ ReleaseCapture
  /\ IF CaptureProxy(hand.at) /\ ~rfb.viewOnly
       THEN Handled(MouseButton(Hands, MousePosition(hand.at), FALSE, button))
       ELSE UNCHANGED <<pointer, guest, display>>
  /\ UNCHANGED <<mouse, acts, why>> /\ RestOfPage

MouseMoves(x) ==
  /\ Acts
  /\ x # hand.at
  /\ hand' = [hand EXCEPT !.at = x]
  /\ IF CaptureProxy(x) /\ ~rfb.viewOnly
       THEN Handled(HandleMouseMove(Hands, MousePosition(x)))
       ELSE UNCHANGED <<pointer, guest, display>>
  /\ UNCHANGED <<mouse, capture, why>> /\ RestOfPage

\* A second touch within 500 ms and close to the first is put in its place.
TouchStart ==
  /\ Acts
  /\ hand.pressed = {} /\ ~hand.touching /\ Inside(hand.at)
  /\ hand' = [hand EXCEPT !.touching = TRUE]
  /\ LET x == MousePosition(hand.at)
         again == mouse.tapped /\ Near(mouse.lastTouch, x, 2 * DragThreshold)
     IN IF rfb.viewOnly THEN UNCHANGED <<mouse, pointer, guest, display>>
        ELSE /\ mouse' = [mouse EXCEPT !.tapped = TRUE,
                            !.lastTouch = IF mouse.tapped THEN @ ELSE x]
             /\ Handled(MouseButton(Hands, IF again THEN mouse.lastTouch ELSE x,
                                    TRUE, mouse.touchButton))
  /\ UNCHANGED <<capture, why>> /\ RestOfPage

TouchEnd ==
  /\ hand.touching
  /\ hand' = [hand EXCEPT !.touching = FALSE]
  /\ IF rfb.viewOnly THEN UNCHANGED <<pointer, guest, display>>
     ELSE Handled(MouseButton(Hands, MousePosition(hand.at), FALSE,
                              mouse.touchButton))
  /\ UNCHANGED <<mouse, capture, why, acts>> /\ RestOfPage

ResetDoubleClickTimer ==
  /\ mouse.tapped
  /\ mouse' = [mouse EXCEPT !.tapped = FALSE]
  /\ UNCHANGED <<pointer, hand, capture, guest, why, acts, display>>
  /\ RestOfPage

\* One step of the wheel: its button goes down and up.
WheelStep(h, x, delta) ==
  LET button == IF delta < 0 THEN "up" ELSE "down"
  IN IF delta = 0 THEN h
     ELSE MouseButton(MouseButton(h, x, TRUE, button), x, FALSE, button)

\* Small deltas are added up, and sent when they pass the threshold, or 50 ms
\* after the last.
HandleMouseWheel(delta) ==
  /\ Acts
  /\ Inside(hand.at) /\ ~capture /\ ~rfb.viewOnly
  /\ LET sum == mouse.wheel + delta
         full == sum \notin {-1, 0, 1}
         x == MousePosition(hand.at)
     IN /\ mouse' = [mouse EXCEPT !.wheel = IF full THEN 0 ELSE sum,
                                  !.wheelTimer = ~full, !.pos = x]
        /\ IF full THEN Handled(WheelStep(Hands, x, sum))
           ELSE UNCHANGED <<pointer, guest, display>>
  /\ Because("wheel", pointer.dragging)
  /\ UNCHANGED <<hand, capture>> /\ RestOfPage

GenerateWheelStep ==
  /\ mouse.wheelTimer
  /\ mouse' = [mouse EXCEPT !.wheel = 0, !.wheelTimer = FALSE]
  /\ Handled(WheelStep(Hands, mouse.pos, mouse.wheel))
  /\ Because("wheel", pointer.dragging)
  /\ UNCHANGED <<hand, capture, acts>> /\ RestOfPage

-----------------------------------------------------------------------------
(* app/ui_vmango.js: what the user chooses while buttons may be down.      *)

ToggleViewDrag ==
  /\ Acts
  /\ LET drag == ~rfb.drag /\ rfb.clip
     IN rfb' = [rfb EXCEPT !.drag = drag]
  /\ Because("drag mode", pointer.dragging \/ pointer.mask # {})
  /\ UNCHANGED <<mouse, pointer, hand, capture, guest>>
  /\ UNCHANGED <<display, ui, window, server, changes>>

\* The setter of viewOnly takes the listeners off the canvas.
UpdateViewOnly ==
  /\ Acts
  /\ rfb' = [rfb EXCEPT !.viewOnly = ~@, !.beenViewOnly = TRUE]
  /\ mouse' = IF rfb.viewOnly THEN mouse ELSE [mouse EXCEPT !.wheelTimer = FALSE]
  /\ Because("view only", hand.touching \/ hand.pressed # {})
  /\ UNCHANGED <<pointer, hand, capture, guest>>
  /\ UNCHANGED <<display, ui, window, server, changes>>

SetMouseButton(button) ==
  /\ Acts
  /\ ~rfb.viewOnly /\ button # mouse.touchButton
  /\ mouse' = [mouse EXCEPT !.touchButton = button]
  /\ Because("touch button", hand.touching)
  /\ UNCHANGED <<pointer, hand, capture, guest>>
  /\ UNCHANGED <<display, rfb, ui, window, server, changes>>

\* The screen changes under the pointer, and may end the drag mode.
Screen ==
  /\ ScreenNext
  /\ why' = IF rfb.drag /\ ~rfb'.drag /\ pointer.dragging
              THEN why \cup {"drag mode"} ELSE why
  /\ UNCHANGED <<mouse, pointer, hand, capture, guest, acts>>

PointerInit ==
  /\ mouse = [touchButton |-> "left", tapped |-> FALSE, lastTouch |-> 0,
              wheel |-> 0, wheelTimer |-> FALSE, pos |-> 0]
  /\ pointer = [mask |-> {}, dragging |-> FALSE, moved |-> FALSE, from |-> 0]
  /\ hand = [pressed |-> {}, touching |-> FALSE, at |-> 0]
  /\ capture = FALSE
  /\ guest = [mask |-> {}, x |-> 0]
  /\ why = {} /\ acts \in ActBounds

PointerNext ==
  \/ \E button \in Buttons : HandleMouseDown(button) \/ HandleMouseUp(button)
  \/ \E x \in Places : MouseMoves(x)
  \/ TouchStart \/ TouchEnd \/ ResetDoubleClickTimer
  \/ \E delta \in {-1, 1} : HandleMouseWheel(delta)
  \/ GenerateWheelStep
  \/ ToggleViewDrag \/ UpdateViewOnly
  \/ \E button \in Buttons : SetMouseButton(button)
  \/ Screen

PointerSpec == ScreenInit /\ PointerInit
                 /\ [][PointerNext]_<<screenVars, pointerVars>>

-----------------------------------------------------------------------------
(* Properties.                                                             *)

\* When the user holds nothing, no button is down in the guest and no drag is
\* under way, wherever the release was and whatever the screen did meanwhile.
\* The exceptions have a name in "why": a second button, which the capture
\* element hides and whose release ends the capture of the first; the wheel,
\* or a change of the drag mode, in a drag; view only, or another choice of
\* touch button, between press and release.
ButtonsReleased ==
  (hand.pressed = {} /\ ~hand.touching) =>
    \/ guest.mask = {} /\ pointer.mask = {} /\ ~pointer.dragging
    \/ why # {}

\* What the guest is told of lies on the part of its screen that is shown, and
\* a drag of the viewport tells it nothing, not even at its end.  A delayed
\* step of the wheel and the second of two touches have an earlier position,
\* which may be outside by then.
PointerTold ==
  [][guest' # guest =>
       /\ \/ guest'.x \in display.x .. display.x + display.w - 1
          \/ mouse.wheelTimer \/ mouse.tapped
       /\ ~(rfb.drag /\ pointer.dragging /\ pointer.moved)]_<<screenVars, pointerVars>>
=============================================================================
