------------------------------ MODULE VncScreen -------------------------------
(***************************************************************************)
(* What of the guest's screen the VNC page shows: the Display object's     *)
(* viewport, back buffer and visible canvas (core/display.js), the clip,   *)
(* scale and resize properties of RFB (core/rfb.js), and the settings of   *)
(* the page behind them (app/ui_vmango.js, app/webutil.js).                *)
(*                                                                         *)
(* One axis is modelled: a size is a number of pixels, and the code does   *)
(* the same for the other axis.  Every operator takes the Display object   *)
(* and gives what the method leaves of it.                                 *)
(***************************************************************************)
EXTENDS Integers, FiniteSets

CONSTANTS
  Sizes,       \* the sizes the guest's screen and the window may have
  Colours,     \* what an update may paint
  ChangeBounds \* bound: settings changed, windows resized, updates painted

ASSUME SizesAssumption == Sizes \subseteq Nat \ {0}

VARIABLES
  display,     \* the Display object
  rfb,         \* the RFB object's properties and its resize timer
  ui,          \* the page's settings: form controls, cache, local storage
  window,      \* its size, and a pending animation frame
  server,      \* does it resize, did it say so, what was it last asked for?
  changes

screenVars == <<display, rfb, ui, window, server, changes>>

Blank == "blank"
Smaller(a, b) == IF a < b THEN a ELSE b
Larger(a, b) == IF a < b THEN b ELSE a

-----------------------------------------------------------------------------
(* core/display.js                                                         *)

NoDamage == [left |-> 65535, right |-> 0]

Damage(d, x, w) ==
  [d EXCEPT !.damage = [left |-> Smaller(@.left, x),
                        right |-> Larger(@.right, x + w)]]

\* The damaged part of what the viewport shows is copied to the canvas.
FlipNow(d) ==
  [d EXCEPT !.canvas =
     [i \in DOMAIN @ |-> IF /\ d.damage.left <= d.x + i
                            /\ d.x + i < d.damage.right
                            /\ d.x + i \in DOMAIN d.back
                         THEN d.back[d.x + i] ELSE @[i]],
            !.damage = NoDamage]

\* While an image of the queue is loading, a flip waits behind it.
Flip(d) == IF d.image # {} THEN [d EXCEPT !.flips = TRUE] ELSE FlipNow(d)

Rescale(d, scale) == [d EXCEPT !.scale = scale,
                               !.shown = <<scale[1] * d.w, scale[2]>>]

ViewportChangePos(d, delta) ==
  LET d1 == IF d.clip THEN delta ELSE - d.w
      d2 == IF d1 < 0 /\ d.x + d1 < 0 THEN - d.x ELSE d1
      x2 == d.x + d.w - 1
      d3 == IF x2 + d2 >= d.fb THEN d2 - (x2 + d2 - d.fb + 1) ELSE d2
  IN IF d3 = 0 THEN d
     ELSE Flip(Damage([d EXCEPT !.x = @ + d3], d.x + d3, d.w))

\* Mutant: only a viewport that moves is drawn again.
ViewportChangeSizeNoFlip(d, width) ==
  LET w == IF d.clip THEN Smaller(width, d.fb) ELSE d.fb
      d1 == ViewportChangePos([d EXCEPT !.w = w,
                                        !.canvas = [i \in 0 .. w - 1 |-> Blank]], 0)
  IN IF w = d.w THEN d ELSE Rescale(d1, d.scale)

\* Setting a canvas's width clears it.
ViewportChangeSize(d, width) ==
  LET w == IF d.clip THEN Smaller(width, d.fb) ELSE d.fb
      d1 == ViewportChangePos([d EXCEPT !.w = w,
                                        !.canvas = [i \in 0 .. w - 1 |-> Blank]], 0)
  IN IF w = d.w THEN d
     ELSE Rescale(Flip(Damage(d1, d1.x, d1.w)), d.scale)

SetClipViewport(d, clip) ==
  ViewportChangePos(ViewportChangeSize([d EXCEPT !.clip = clip], d.w), 0)

Resize(d, width) ==
  LET d1 == [d EXCEPT !.fb = width,
                      !.back = [i \in 0 .. width - 1 |->
                                  IF i \in DOMAIN @ THEN @[i] ELSE Blank]]
  IN ViewportChangePos(ViewportChangeSize(d1, d1.w), 0)

Autoscale(d, container) ==
  Rescale(d, IF container = 0 THEN <<0, 1>> ELSE <<container, d.w>>)

AbsX(d, x) == IF d.scale[1] = 0 THEN 0
              ELSE (x * d.scale[2]) \div d.scale[1] + d.x

\* A rectangle of an update, here one pixel, and the flip that ends it.
FillRect(d, i, colour) ==
  Damage([d EXCEPT !.back = IF i \in DOMAIN @ THEN [@ EXCEPT ![i] = colour]
                            ELSE @], i, 1)
ImageRect(d, i, colour) == [d EXCEPT !.image = {<<i, colour>>}]

\* The image is loaded: the queue is drawn as far as the flips behind it.
ScanRenderQ(d) ==
  LET item == CHOOSE item \in d.image : TRUE
      drawn == FillRect([d EXCEPT !.image = {}, !.flips = FALSE],
                        item[1], item[2])
  IN IF d.flips THEN FlipNow(drawn) ELSE drawn

\* The constructor's canvas is 300 wide, and clear() makes it 240; the size
\* here is only replaced by that of the guest's screen.
NewDisplay(width) ==
  Resize([fb |-> width, back |-> [i \in 0 .. width - 1 |-> Blank],
          x |-> 0, w |-> width, canvas |-> [i \in 0 .. width - 1 |-> Blank],
          damage |-> NoDamage, clip |-> FALSE, scale |-> <<1, 1>>,
          shown |-> <<width, 1>>, image |-> {}, flips |-> FALSE], width)

-----------------------------------------------------------------------------
(* core/rfb.js                                                             *)

UpdateClip(d, r, size) ==
  LET clip == r.clip /\ ~r.scale
      d1 == IF d.clip # clip THEN SetClipViewport(d, clip) ELSE d
  IN IF clip THEN ViewportChangeSize(d1, size) ELSE d1

UpdateScale(d, r, size) ==
  IF r.scale THEN Autoscale(d, size) ELSE Rescale(d, <<1, 1>>)

\* RFB._resize
RfbResize(d, r, size, width) ==
  UpdateScale(UpdateClip(Resize(d, width), r, size), r, size)

\* Scaling trumps clipping: the setter adjusts it before and after.
SetScaleViewport(d, r, size) ==
  LET d1 == IF r.scale /\ r.clip THEN UpdateClip(d, r, size) ELSE d
      d2 == UpdateScale(d1, r, size)
  IN IF ~r.scale /\ r.clip THEN UpdateClip(d2, r, size) ELSE d2

\* Mutant: no second request while the first is not answered.
RequestResizeOnce(s, r, size) ==
  IF r.resize /\ ~r.viewOnly /\ s.supports /\ s.request = {}
    THEN [s EXCEPT !.asked = size, !.request = {size}]
    ELSE s

RequestRemoteResize(s, r, size) ==
  IF r.resize /\ ~r.viewOnly /\ s.supports
    THEN [s EXCEPT !.asked = size, !.request = {size}]
    ELSE s

-----------------------------------------------------------------------------
(* app/webutil.js and app/ui_vmango.js: a setting is in its form control,  *)
(* in the cache and in local storage.                                      *)

WriteSetting(u, val) == IF u.cache = val THEN u
                        ELSE [u EXCEPT !.cache = val, !.stored = val]
SaveSetting(u) == WriteSetting(u, u.control)
ForceSetting(u, val) ==
  [u EXCEPT !.cache = val, !.control = val, !.enabled = FALSE]
EnableSetting(u) == [u EXCEPT !.enabled = TRUE]

\* UI.updateViewClip, with updateViewDrag: [u, r] and the Display after it.
ViewClip(u, r, d, size) ==
  LET u1 == CASE u.resize = "scale" -> ForceSetting(u, FALSE)
              [] u.resize # "scale" /\ u.mobile -> ForceSetting(u, TRUE)
              [] OTHER -> EnableSetting(u)
      r1 == [r EXCEPT !.clip = u1.cache]
  IN [ui |-> u1, rfb |-> [r1 EXCEPT !.drag = @ /\ r1.clip],
      display |-> UpdateClip(d, r1, size)]

\* UI.applyResizeMode followed by updateViewClip, the handlers of 'resize'.
ApplyResizeMode(u, r, d, size) ==
  LET r1 == [r EXCEPT !.scale = u.resize = "scale",
                      !.resize = u.resize = "remote",
                      !.timer = @ /\ u.resize # "remote"]
  IN ViewClip(u, r1, SetScaleViewport(d, r1, size), size)

Callback(x) == ui' = x.ui /\ rfb' = x.rfb /\ display' = x.display

-----------------------------------------------------------------------------
Changes == changes > 0 /\ changes' = changes - 1

\* Choosing none, scaling or remote resizing; the latter asks at once.
ChangeResize(mode) ==
  /\ Changes
  /\ mode # ui.resize
  /\ LET x == ApplyResizeMode([ui EXCEPT !.resize = mode], rfb, display,
                              window.size)
     IN /\ Callback(x)
        /\ server' = IF mode = "remote"
                       THEN RequestRemoteResize(server, x.rfb, window.size)
                       ELSE server
  /\ UNCHANGED window

ChangeViewClip ==
  /\ Changes
  /\ ui.enabled
  /\ Callback(ViewClip(SaveSetting([ui EXCEPT !.control = ~@]), rfb, display,
                       window.size))
  /\ UNCHANGED <<window, server>>

\* The screen follows at the next animation frame, the guest 500 ms later.
ResizeWindow(size) ==
  /\ Changes
  /\ size # window.size
  /\ window' = [size |-> size, frame |-> TRUE]
  /\ rfb' = [rfb EXCEPT !.timer = @ \/ rfb.resize]
  /\ UNCHANGED <<display, ui, server>>

AnimationFrame ==
  /\ window.frame
  /\ window' = [window EXCEPT !.frame = FALSE]
  /\ display' = UpdateScale(UpdateClip(display, rfb, window.size), rfb,
                            window.size)
  /\ UNCHANGED <<rfb, ui, server, changes>>

ResizeTimeout ==
  /\ rfb.timer
  /\ rfb' = [rfb EXCEPT !.timer = FALSE]
  /\ server' = RequestRemoteResize(server, rfb, window.size)
  /\ UNCHANGED <<display, ui, window, changes>>

\* An ExtendedDesktopSize rectangle: a change of the guest's own, or the
\* answer to a request.  The first says that the server can resize.  It does
\* not wait in the queue: an image of its own update may still be loading.
ExtendedDesktopSize(width, answer) ==
  /\ server.resizes
  /\ IF answer THEN width \in server.request /\ UNCHANGED changes
     ELSE Changes
  /\ LET first == ~server.supports
         s == [server EXCEPT !.supports = TRUE,
                             !.request = IF answer THEN {} ELSE @]
         s1 == IF first THEN RequestRemoteResize(s, rfb, window.size) ELSE s
     IN /\ server' = s1
        /\ rfb' = [rfb EXCEPT !.timer = @ /\ ~first]
  /\ display' = RfbResize(display, rfb, window.size, width)
  /\ UNCHANGED <<ui, window>>

\* The server refuses: nothing is resized.
ResizeRefused ==
  /\ server.request # {}
  /\ server' = [server EXCEPT !.request = {}]
  /\ UNCHANGED <<display, rfb, ui, window, changes>>

\* An update of one rectangle and its flip.  The next is not read before the
\* queue is empty.
PaintUpdate(i, colour, image) ==
  /\ Changes
  /\ display.image = {} /\ i < display.fb
  /\ display' = Flip(IF image THEN ImageRect(display, i, colour)
                     ELSE FillRect(display, i, colour))
  /\ UNCHANGED <<rfb, ui, window, server>>

ImageLoaded ==
  /\ display.image # {}
  /\ display' = ScanRenderQ(display)
  /\ UNCHANGED <<rfb, ui, window, server, changes>>

\* What UI.connect and connectFinished make of the settings that were saved.
NewSession(width, size, u) ==
  LET r == [clip |-> u.cache, scale |-> u.resize = "scale",
            resize |-> u.resize = "remote", viewOnly |-> FALSE,
            beenViewOnly |-> FALSE, drag |-> FALSE, timer |-> FALSE]
  IN ViewClip(u, r, RfbResize(NewDisplay(width), r, size, width), size)

ScreenInit ==
  /\ \E width, size \in Sizes, mode \in {"off", "scale", "remote"},
        clip, mobile, resizes \in BOOLEAN :
       /\ \E x \in {NewSession(width, size,
                    [resize |-> mode, control |-> clip, cache |-> clip,
                     stored |-> clip, enabled |-> TRUE, mobile |-> mobile])} :
            ui = x.ui /\ rfb = x.rfb /\ display = x.display
       /\ window = [size |-> size, frame |-> FALSE]
       /\ server = [resizes |-> resizes, supports |-> FALSE,
                    asked |-> 0, request |-> {}]
  /\ changes \in ChangeBounds

ScreenNext ==
  \/ \E mode \in {"off", "scale", "remote"} : ChangeResize(mode)
  \/ ChangeViewClip
  \/ \E size \in Sizes : ResizeWindow(size)
  \/ AnimationFrame \/ ResizeTimeout
  \/ \E width \in Sizes, answer \in BOOLEAN : ExtendedDesktopSize(width, answer)
  \/ ResizeRefused
  \/ \E i \in 0 .. display.fb - 1, colour \in Colours, image \in BOOLEAN :
       PaintUpdate(i, colour, image)
  \/ ImageLoaded

ScreenSpec == ScreenInit /\ [][ScreenNext]_screenVars

-----------------------------------------------------------------------------
(* Properties.                                                             *)

\* The viewport is part of the guest's screen and the canvas is as large as
\* the viewport, whatever was resized, scaled, clipped or dragged.
ViewportInside ==
  /\ DOMAIN display.back = 0 .. display.fb - 1
  /\ DOMAIN display.canvas = 0 .. display.w - 1
  /\ 0 <= display.x /\ 0 <= display.w /\ display.x + display.w <= display.fb

\* With no image loading, the canvas shows what the guest has painted there:
\* no damage is forgotten by a viewport that moves, shrinks or grows while
\* flips wait in the queue.
ShowsTheScreen ==
  display.image = {} =>
    \A i \in DOMAIN display.canvas :
      display.canvas[i] = display.back[display.x + i]

\* Between frames the four places that hold the view's mode agree: the form
\* control, RFB's properties, the Display's clipping, and what is shown, which
\* is the clipped window, the scaled screen, or all of the screen.
ViewSettled ==
  /\ rfb.clip = ui.control /\ (rfb.scale <=> ui.resize = "scale")
  /\ display.clip = (rfb.clip /\ ~rfb.scale)
  /\ rfb.drag => rfb.clip
  /\ ~window.frame =>
       LET shown == IF rfb.scale THEN window.size ELSE display.w
       IN /\ display.w = IF display.clip THEN Smaller(window.size, display.fb)
                         ELSE display.fb
          /\ display.shown[1] = shown * display.shown[2]

\* The canvas shows the right part of the guest's screen, as it is.
ViewShown == ViewportInside /\ ShowsTheScreen /\ ViewSettled

\* Once its timer has fired, a session that resizes the guest has asked for
\* the size the window has, the first time included, when the server only
\* later says that it can.  A session that has been view only may have missed
\* it: the request is dropped, and leaving view only does not repeat it.
GuestAskedToFit ==
  (rfb.resize /\ server.supports /\ ~rfb.timer /\ ~rfb.beenViewOnly)
    => server.asked = window.size
=============================================================================
