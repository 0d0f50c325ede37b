------------------------------ MODULE InputProofs ------------------------------
(***************************************************************************)
(* Proofs about what goes from the user to the guest: about VncScreen and  *)
(* VncPointer, for every set of sizes with a largest one, and any buttons, *)
(* colours and bounds; about VncKeyboard for any keys, browsers and        *)
(* bounds; about TermTyping for any systems and keys and any number of     *)
(* acts; and about ConsoleProxy for any sessions.                          *)
(*                                                                         *)
(* The inductive invariant PointerInv has two parts.  ViewInv says of the  *)
(* Display object that it is Sound - the viewport is inside the screen,    *)
(* and what the canvas does not show as painted is noted as damage, which  *)
(* waits only behind an image - and that display, RFB object, settings and *)
(* server are in step.  HandsInv says what the page and the guest think    *)
(* is held while none of the exceptions has happened.  The lemmas on the   *)
(* methods of Display come first, then those on RFB and settings, on       *)
(* buttons and moves, and one for every action.                            *)
(*                                                                         *)
(* KeysInv, the keyboard's, relates four places while none of its          *)
(* exceptions has happened: a key that is down in the guest is in the      *)
(* keyboard's list; a code that is there, or may be when a timer fires or  *)
(* a character arrives, is held by the user or has its end in the queue    *)
(* with no press behind it; and a printing key that a legacy browser does  *)
(* not name has its character next.  The lemmas on events come first, then *)
(* those on the handlers, on queues, and one for every action.             *)
(*                                                                         *)
(* TypingInv says, while none of TypedOnce's exceptions has happened, that *)
(* nothing is under way and all is sent but for one text to be read; or    *)
(* that a composition is under way, and the timeouts that wait send what   *)
(* ended before it; or that one has ended, and what was meant is what is   *)
(* sent and the text from its start on.                                    *)
(*                                                                         *)
(* ProxyInv says that on each side of the console proxy what has arrived,  *)
(* the message in hand and what waits are together the numbers of all that *)
(* was sent, one after the other, as long as the loop on that side has not *)
(* ended.                                                                  *)
(***************************************************************************)
EXTENDS VncPointer, VncKeyboard, TermTyping, ConsoleProxy, SequenceTheorems, TLAPS

Numbers == INSTANCE SubsequencesProofs WITH Op <- +

-----------------------------------------------------------------------------
(* The Display object.                                                     *)

Fields == {"fb", "back", "x", "w", "canvas", "damage", "clip", "scale",
           "shown", "image", "flips"}

Formed(d) ==
  /\ DOMAIN d = Fields
  /\ d.fb \in Nat \ {0} /\ d.w \in Nat \ {0} /\ d.x \in Nat
  /\ DOMAIN d.back = 0 .. d.fb - 1 /\ DOMAIN d.canvas = 0 .. d.w - 1
  /\ d.damage \in [left : Int, right : Int]
  /\ d.clip \in BOOLEAN /\ d.flips \in BOOLEAN
  /\ d.scale \in Nat \X (Nat \ {0})
  /\ d.shown \in Nat \X (Nat \ {0})
  /\ \A item \in d.image : item[1] \in Nat

Within(d) == d.x + d.w <= d.fb

Damaged(d, i) == d.damage.left <= i /\ i < d.damage.right

\* What the canvas does not show as the guest painted it is noted as damage.
Tracked(d) ==
  \A i \in 0 .. d.w - 1 : d.canvas[i] = d.back[d.x + i] \/ Damaged(d, d.x + i)

\* Damage stays only while an image is loading, and then a flip waits for it.
Queued(d) == /\ d.image = {} => d.damage = NoDamage
             /\ d.image # {} => d.flips

Sound(d) == Formed(d) /\ Within(d) /\ Tracked(d) /\ Queued(d)

\* The same part of the same picture; the same view of another part.
SamePlace(d, e) == e.fb = d.fb /\ e.w = d.w /\ e.x = d.x /\ e.back = d.back
SameMode(d, e) == e.clip = d.clip /\ e.image = d.image /\ e.scale = d.scale
                  /\ e.shown = d.shown /\ e.fb = d.fb /\ e.w = d.w

\* Noting the whole viewport as damage covers all of the canvas.
LEMMA DamageAll ==
  ASSUME NEW d, Formed(d)
  PROVE  LET e == Damage(d, d.x, d.w)
         IN /\ Formed(e) /\ SamePlace(d, e) /\ SameMode(d, e)
            /\ e.canvas = d.canvas /\ e.flips = d.flips
            /\ \A i \in 0 .. d.w - 1 : Damaged(e, e.x + i)
  BY DEF Damage, Formed, Fields, SamePlace, SameMode, Damaged, Smaller, Larger

\* A flip draws all that is noted as damage.
LEMMA FlipNowTracks ==
  ASSUME NEW d, Formed(d), Within(d), Tracked(d)
  PROVE  LET e == FlipNow(d)
         IN /\ Formed(e) /\ SamePlace(d, e) /\ SameMode(d, e)
            /\ \A i \in 0 .. d.w - 1 : e.canvas[i] = e.back[e.x + i]
            /\ e.damage = NoDamage /\ e.flips = d.flips
  BY DEF FlipNow, NoDamage, Formed, Fields, SamePlace, SameMode, Within, Damaged, Tracked

\* A flip, done or put off, leaves a sound display.
LEMMA FlipTracks ==
  ASSUME NEW d, Formed(d), Within(d), Tracked(d)
  PROVE  LET e == Flip(d)
         IN Sound(e) /\ SamePlace(d, e) /\ SameMode(d, e)
  <1>1. CASE d.image = {}
    BY <1>1, FlipNowTracks DEF Flip, Sound, Tracked, Queued, SameMode, SamePlace, Within
  <1>2. CASE d.image # {}
    BY <1>2 DEF Flip, Sound, Tracked, Queued, SameMode, SamePlace, Within, Formed, Fields, Damaged
  <1> QED BY <1>1, <1>2

\* Moving the viewport puts it inside the screen and draws it if it moved.
LEMMA ChangePosSound ==
  ASSUME NEW d, Formed(d), d.w <= d.fb, NEW delta \in Int, Queued(d)
  PROVE  LET e == ViewportChangePos(d, delta)
         IN /\ Formed(e) /\ Within(e) /\ Queued(e)
            /\ (Within(d) => Tracked(d)) => Tracked(e)
            /\ SameMode(d, e) /\ e.back = d.back
  <1> DEFINE d1 == IF d.clip THEN delta ELSE - d.w
             d2 == IF d1 < 0 /\ d.x + d1 < 0 THEN - d.x ELSE d1
             x2 == d.x + d.w - 1
             d3 == IF x2 + d2 >= d.fb THEN d2 - (x2 + d2 - d.fb + 1) ELSE d2
             m == [d EXCEPT !.x = @ + d3]
             e == Damage(m, m.x, m.w)
  <1>1. d3 \in Int /\ d.x + d3 >= 0 /\ d.x + d3 + d.w <= d.fb
    <2>1. d.fb \in Nat /\ d.w \in Nat \ {0} /\ d.x \in Nat /\ d.clip \in BOOLEAN
      BY DEF Formed
    <2>2. d1 \in Int
      BY <2>1
    <2> HIDE DEF d1
    <2>3. d2 \in Int /\ d.x + d2 >= 0
      BY <2>1, <2>2
    <2> HIDE DEF d2
    <2> QED BY <2>1, <2>3
  <1>2. CASE d3 = 0
    <2>1. ViewportChangePos(d, delta) = d
      BY <1>2 DEF ViewportChangePos
    <2>2. Within(d)
      BY <1>1, <1>2 DEF Within, Formed
    <2> QED BY <2>1, <2>2 DEF SameMode
  <1>3. CASE d3 # 0
    <2>1. ViewportChangePos(d, delta) = Flip(e)
      BY <1>3 DEF ViewportChangePos, Formed, Fields
    <2> HIDE DEF d3
    <2>2. Formed(m) /\ Within(m) /\ SameMode(d, m) /\ m.back = d.back
      BY <1>1 DEF Formed, Fields, Within, SameMode
    <2> HIDE DEF m
    <2>3. /\ Formed(e) /\ SamePlace(m, e) /\ SameMode(m, e)
          /\ \A i \in 0 .. m.w - 1 : Damaged(e, e.x + i)
      BY <2>2, DamageAll
    <2>4. Within(e) /\ e.w = m.w /\ Tracked(e)
      BY <2>2, <2>3 DEF Within, SamePlace, Tracked
    <2> HIDE DEF e
    <2>5. Sound(Flip(e)) /\ SamePlace(e, Flip(e)) /\ SameMode(e, Flip(e))
      BY <2>3, <2>4, FlipTracks
    <2> QED BY <2>1, <2>2, <2>3, <2>5 DEF SameMode, SamePlace, Sound
  <1> QED BY <1>2, <1>3

NewWidth(d, width) == IF d.clip THEN Smaller(width, d.fb) ELSE d.fb

\* Scaling changes the size of the element and nothing else.
LEMMA RescaleFormed ==
  ASSUME NEW d, Formed(d), NEW s \in Nat \X (Nat \ {0})
  PROVE  LET e == Rescale(d, s)
         IN /\ Formed(e) /\ SamePlace(d, e) /\ e.clip = d.clip
            /\ e.image = d.image /\ e.damage = d.damage /\ e.canvas = d.canvas
            /\ e.flips = d.flips /\ e.scale = s
            /\ e.shown = <<s[1] * d.w, s[2]>>
  <1>1. s[1] * d.w \in Nat /\ s[2] \in Nat \ {0}
    BY DEF Formed
  <1> QED BY <1>1 DEF Rescale, Formed, Fields, SamePlace

\* A sound display stays sound when it is scaled.
LEMMA RescaleSound ==
  ASSUME NEW d, Sound(d), NEW s \in Nat \X (Nat \ {0})
  PROVE  LET e == Rescale(d, s)
         IN /\ Sound(e) /\ SamePlace(d, e) /\ e.clip = d.clip /\ e.image = d.image
            /\ e.scale = s /\ e.shown = <<s[1] * d.w, s[2]>>
  BY RescaleFormed DEF Sound, Within, Tracked, Queued, SamePlace, Damaged

\* A viewport of a new size is drawn again, in the new width.
LEMMA ChangeSizeSound ==
  ASSUME NEW d, Formed(d), NEW width \in Nat \ {0}, Queued(d)
  PROVE  LET e == ViewportChangeSize(d, width)
         IN /\ e.w = NewWidth(d, width) /\ e.fb = d.fb /\ e.back = d.back
            /\ e.clip = d.clip /\ e.image = d.image /\ e.scale = d.scale
            /\ e = d \/ (Sound(e) /\ e.shown = <<d.scale[1] * e.w, d.scale[2]>>)
  <1> DEFINE w == NewWidth(d, width)
             m == [d EXCEPT !.w = w, !.canvas = [i \in 0 .. w - 1 |-> Blank]]
             d1 == ViewportChangePos(m, 0)
             e == Damage(d1, d1.x, d1.w)
  <1>1. CASE w = d.w
    <2>1. ViewportChangeSize(d, width) = d
      BY <1>1 DEF ViewportChangeSize, NewWidth
    <2> QED BY <1>1, <2>1
  <1>2. CASE w # d.w
    <2>1. ViewportChangeSize(d, width) = Rescale(Flip(e), d.scale)
      BY <1>2 DEF ViewportChangeSize, NewWidth
    <2>2. Formed(m) /\ m.w <= m.fb /\ m.w = w /\ m.fb = d.fb /\ m.back = d.back
            /\ m.clip = d.clip /\ m.image = d.image /\ m.scale = d.scale
            /\ Queued(m)
      BY DEF Queued, Formed, Fields, NewWidth, Smaller
    <2> HIDE DEF m
    <2>4. Formed(d1) /\ Within(d1) /\ SameMode(m, d1) /\ d1.back = m.back
      BY <2>2, ChangePosSound
    <2> HIDE DEF d1
    <2>5. Formed(e) /\ SamePlace(d1, e) /\ SameMode(d1, e)
          /\ \A i \in 0 .. d1.w - 1 : Damaged(e, e.x + i)
      BY <2>4, DamageAll
    <2>6. Within(e) /\ Tracked(e)
      BY <2>4, <2>5 DEF Within, SamePlace, Tracked
    <2> HIDE DEF e
    <2>7. Sound(Flip(e)) /\ SamePlace(e, Flip(e)) /\ SameMode(e, Flip(e))
      BY <2>5, <2>6, FlipTracks
    <2>8. d.scale \in Nat \X (Nat \ {0})
      BY DEF Formed
    <2>9. LET r == Rescale(Flip(e), d.scale)
          IN /\ Sound(r) /\ SamePlace(Flip(e), r) /\ r.clip = Flip(e).clip
             /\ r.image = Flip(e).image /\ r.scale = d.scale
             /\ r.shown = <<d.scale[1] * Flip(e).w, d.scale[2]>>
      BY <2>7, <2>8, RescaleSound
    <2> QED BY <2>1, <2>2, <2>4, <2>5, <2>7, <2>9 DEF SameMode, SamePlace
  <1> QED BY <1>1, <1>2
\* A screen of a new size keeps the viewport inside and what it shows.
LEMMA ResizeSound ==
  ASSUME NEW d, Sound(d), NEW width \in Nat \ {0}
  PROVE  LET e == Resize(d, width)
         IN /\ Sound(e) /\ e.fb = width /\ e.clip = d.clip /\ e.image = d.image
            /\ e.scale = d.scale
            /\ \/ e.w = d.w /\ e.shown = d.shown
               \/ e.shown = <<d.scale[1] * e.w, d.scale[2]>>
            /\ e.w = NewWidth(e, d.w)
  <1> DEFINE m == [d EXCEPT !.fb = width,
                            !.back = [i \in 0 .. width - 1 |->
                                  IF i \in DOMAIN @ THEN @[i] ELSE Blank]]
             c == ViewportChangeSize(m, m.w)
             e == ViewportChangePos(c, 0)
  <1>1. Resize(d, width) = e
    BY DEF Resize
  <1>2. /\ Formed(m) /\ Queued(m) /\ m.w = d.w /\ m.fb = width /\ m.clip = d.clip
        /\ m.image = d.image /\ m.scale = d.scale /\ m.shown = d.shown
        /\ Within(m) => Tracked(m)
    <2>1. /\ Formed(m) /\ Queued(m) /\ m.w = d.w /\ m.fb = width
          /\ m.clip = d.clip /\ m.image = d.image /\ m.scale = d.scale
          /\ m.shown = d.shown /\ m.x = d.x /\ m.canvas = d.canvas
          /\ m.damage = d.damage
      BY DEF Sound, Formed, Fields, Queued
    <2>2. m.back = [i \in 0 .. width - 1 |->
                      IF i \in DOMAIN d.back THEN d.back[i] ELSE Blank]
      BY DEF Sound, Formed, Fields
    <2>3. ASSUME Within(m) PROVE Tracked(m)
      <3> HIDE DEF m
      <3>1. SUFFICES ASSUME NEW i \in 0 .. d.w - 1
                     PROVE  m.canvas[i] = m.back[m.x + i] \/ Damaged(m, m.x + i)
        BY <2>1 DEF Tracked
      <3>2. d.x + i \in 0 .. width - 1 /\ d.x + i \in 0 .. d.fb - 1
        <4>1. d.x \in Nat /\ d.w \in Nat /\ d.fb \in Nat /\ d.x + d.w <= d.fb
          BY DEF Sound, Within, Formed
        <4>2. d.x + d.w <= width
          BY <2>1, <2>3 DEF Within
        <4> QED BY <4>1, <4>2
      <3>3. m.back[d.x + i] = d.back[d.x + i]
        BY <2>2, <3>2 DEF Sound, Formed
      <3>4. d.canvas[i] = d.back[d.x + i] \/ Damaged(d, d.x + i)
        BY DEF Sound, Tracked
      <3> QED BY <2>1, <3>3, <3>4 DEF Damaged
    <2> QED BY <2>1, <2>3
  <1> HIDE DEF m
  <1>3. /\ c.w = NewWidth(m, m.w) /\ c.fb = m.fb /\ c.clip = m.clip
        /\ c.image = m.image /\ c.scale = m.scale
        /\ c = m \/ (Sound(c) /\ c.shown = <<m.scale[1] * c.w, m.scale[2]>>)
    BY <1>2, ChangeSizeSound DEF Formed
  <1> HIDE DEF c
  <1>4. Formed(c) /\ Queued(c) /\ c.w <= c.fb /\ (Within(c) => Tracked(c))
    <2>1. Formed(c) /\ Queued(c) /\ (Within(c) => Tracked(c))
      BY <1>2, <1>3 DEF Sound
    <2>2. m.w \in Nat /\ m.fb \in Nat
      BY <1>2 DEF Formed
    <2>3. c.w <= c.fb
      BY <1>3, <2>2 DEF NewWidth, Smaller
    <2> QED BY <2>1, <2>3
  <1>5. Sound(e) /\ SameMode(c, e)
    BY <1>4, ChangePosSound DEF Sound
  <1> QED BY <1>1, <1>2, <1>3, <1>5 DEF SameMode, NewWidth

\* A sound display stays sound when the viewport is moved.
LEMMA MoveSound ==
  ASSUME NEW d, Sound(d), NEW delta \in Int
  PROVE  LET e == ViewportChangePos(d, delta) IN Sound(e) /\ SameMode(d, e)
  <1>1. Formed(d) /\ d.w <= d.fb /\ Queued(d) /\ Tracked(d)
    BY DEF Sound, Within, Formed
  <1> QED BY <1>1, ChangePosSound DEF Sound

\* A sound display stays sound when the viewport changes size.
LEMMA SizeSound ==
  ASSUME NEW d, Sound(d), NEW width \in Nat \ {0}
  PROVE  LET e == ViewportChangeSize(d, width)
         IN /\ Sound(e) /\ e.w = NewWidth(d, width) /\ e.fb = d.fb
            /\ e.clip = d.clip /\ e.image = d.image /\ e.scale = d.scale
            /\ e = d \/ e.shown = <<d.scale[1] * e.w, d.scale[2]>>
  BY ChangeSizeSound DEF Sound

\* Clipping or not, the viewport gets the width the mode allows.
LEMMA ClipSound ==
  ASSUME NEW d, Sound(d), NEW clip \in BOOLEAN
  PROVE  LET e == SetClipViewport(d, clip)
         IN /\ Sound(e) /\ e.w = NewWidth(e, d.w) /\ e.fb = d.fb
            /\ e.clip = clip /\ e.image = d.image /\ e.scale = d.scale
            /\ \/ e.w = d.w /\ e.shown = d.shown
               \/ e.shown = <<d.scale[1] * e.w, d.scale[2]>>
  <1> DEFINE m == [d EXCEPT !.clip = clip]
             c == ViewportChangeSize(m, d.w)
  <1>1. /\ Sound(m) /\ m.clip = clip /\ m.fb = d.fb /\ m.w = d.w
        /\ m.image = d.image /\ m.scale = d.scale /\ m.shown = d.shown
    BY DEF Sound, Formed, Fields, Within, Tracked, Queued, Damaged
  <1>2. SetClipViewport(d, clip) = ViewportChangePos(c, 0)
    BY DEF SetClipViewport
  <1> HIDE DEF m
  <1>3. /\ Sound(c) /\ c.w = NewWidth(m, d.w) /\ c.fb = m.fb
        /\ c.clip = m.clip /\ c.image = m.image /\ c.scale = m.scale
        /\ c = m \/ c.shown = <<m.scale[1] * c.w, m.scale[2]>>
    BY <1>1, SizeSound DEF Sound, Formed
  <1> HIDE DEF c
  <1>4. Sound(ViewportChangePos(c, 0)) /\ SameMode(c, ViewportChangePos(c, 0))
    BY <1>3, MoveSound
  <1> QED BY <1>1, <1>2, <1>3, <1>4 DEF SameMode, NewWidth
-----------------------------------------------------------------------------
(* RFB and the settings.                                                   *)

\* Without clipping the viewport is all of the screen.
Natural(d) == ~d.clip => d.w = d.fb

Aligned(d, r) ==
  /\ d.clip = (r.clip /\ ~r.scale)
  /\ ~d.clip => d.w = d.fb
  /\ ~r.scale => (d.scale = <<1, 1>> /\ d.shown = <<d.w, 1>>)

Fitted(d, r, size) ==
  /\ d.w = NewWidth(d, size)
  /\ r.scale => d.shown = <<size * d.w, d.w>>

Session == [clip : BOOLEAN, scale : BOOLEAN, resize : BOOLEAN, viewOnly : BOOLEAN,
            beenViewOnly : BOOLEAN, drag : BOOLEAN, timer : BOOLEAN]

\* The scale <<1, 1>> leaves the width as it is.
LEMMA UnscaledWidth ==
  ASSUME NEW d, Sound(d) PROVE d.w \in Nat /\ 1 * d.w = d.w
  <1>1. d.w \in Nat
    BY DEF Sound, Formed
  <1> QED BY <1>1

\* What UpdateClip promises.
Clipped(d, r, size, e) ==
  /\ Sound(e) /\ Natural(e) /\ e.clip = (r.clip /\ ~r.scale)
  /\ e.w = NewWidth(e, size) /\ e.scale = d.scale
  /\ (d.clip = FALSE /\ r.scale) => e = d
  /\ d.shown = <<d.scale[1] * d.w, d.scale[2]>>
       => e.shown = <<d.scale[1] * e.w, d.scale[2]>>

\* RFB._updateClip.
LEMMA UpdateClipSound ==
  ASSUME NEW d, Sound(d), Natural(d), NEW r \in Session, NEW size \in Nat \ {0}
  PROVE  Clipped(d, r, size, UpdateClip(d, r, size))
  <1> DEFINE clip == r.clip /\ ~r.scale
             c == IF d.clip # clip THEN SetClipViewport(d, clip) ELSE d
             e == IF clip THEN ViewportChangeSize(c, size) ELSE c
  <1>1. UpdateClip(d, r, size) = e
    BY DEF UpdateClip
  <1>2. clip \in BOOLEAN /\ d.clip \in BOOLEAN
    BY DEF Session, Sound, Formed
  <1>3. /\ Sound(c) /\ c.clip = clip /\ c.scale = d.scale /\ Natural(c)
        /\ d.shown = <<d.scale[1] * d.w, d.scale[2]>>
             => c.shown = <<d.scale[1] * c.w, d.scale[2]>>
    <2>1. CASE d.clip # clip
      BY <1>2, <2>1, ClipSound DEF Natural, NewWidth
    <2>2. CASE d.clip = clip
      BY <2>2
    <2> QED BY <2>1, <2>2
  <1>4. d.clip = FALSE /\ r.scale => e = d
    BY DEF Session
  <1> HIDE DEF c
  <1>5. CASE clip
    <2>1. /\ Sound(e) /\ e.w = NewWidth(c, size) /\ e.fb = c.fb
          /\ e.clip = c.clip /\ e.scale = c.scale
          /\ e = c \/ e.shown = <<c.scale[1] * e.w, c.scale[2]>>
      BY <1>3, <1>5, SizeSound
    <2>2. Natural(e) /\ e.w = NewWidth(e, size)
      BY <1>3, <1>5, <2>1 DEF NewWidth, Natural
    <2> HIDE DEF e
    <2> QED BY <1>1, <1>3, <1>4, <2>1, <2>2 DEF Clipped
  <1>6. CASE ~clip
    BY <1>1, <1>3, <1>4, <1>6 DEF Clipped, NewWidth, Natural
  <1> QED BY <1>5, <1>6

\* RFB._updateScale.
LEMMA UpdateScaleSound ==
  ASSUME NEW d, Sound(d), NEW r \in Session, NEW size \in Nat \ {0}
  PROVE  LET e == UpdateScale(d, r, size)
         IN /\ Sound(e) /\ SamePlace(d, e) /\ e.clip = d.clip
            /\ r.scale => e.shown = <<size * e.w, e.w>>
            /\ ~r.scale => (e.scale = <<1, 1>> /\ e.shown = <<e.w, 1>>)
  <1>1. d.w \in Nat \ {0} /\ size # 0 /\ 1 * d.w = d.w
    BY DEF Sound, Formed
  <1>2. CASE r.scale
    <2>1. UpdateScale(d, r, size) = Rescale(d, <<size, d.w>>)
      BY <1>1, <1>2 DEF UpdateScale, Autoscale
    <2>2. PICK s : s = <<size, d.w>>
      OBVIOUS
    <2>3. s \in Nat \X (Nat \ {0})
      BY <1>1, <2>2
    <2>4. PICK e : e = Rescale(d, s)
      OBVIOUS
    <2>5. /\ Sound(e) /\ SamePlace(d, e) /\ e.clip = d.clip
          /\ e.shown = <<s[1] * d.w, s[2]>>
      BY <2>3, <2>4, RescaleSound
    <2>6. e.shown = <<size * e.w, e.w>>
      BY <2>2, <2>5 DEF SamePlace
    <2> QED BY <1>2, <2>1, <2>2, <2>4, <2>5, <2>6
  <1>3. CASE ~r.scale
    <2>1. UpdateScale(d, r, size) = Rescale(d, <<1, 1>>)
      BY <1>3 DEF UpdateScale
    <2>2. PICK one : one = <<1, 1>>
      OBVIOUS
    <2>3. one \in Nat \X (Nat \ {0})
      BY <2>2
    <2>4. PICK e : e = Rescale(d, one)
      OBVIOUS
    <2>5. /\ Sound(e) /\ SamePlace(d, e) /\ e.clip = d.clip /\ e.scale = one
          /\ e.shown = <<one[1] * d.w, one[2]>>
      BY <2>3, <2>4, RescaleSound
    <2>6. e.shown = <<e.w, 1>>
      BY <1>1, <2>2, <2>5 DEF SamePlace
    <2> QED BY <1>3, <2>1, <2>2, <2>4, <2>5, <2>6
  <1> QED BY <1>2, <1>3

\* Clipping and then scaling, as the animation frame does, fits the view.
LEMMA AdjustSound ==
  ASSUME NEW d, Sound(d), Natural(d), NEW r \in Session, NEW size \in Nat \ {0}
  PROVE  LET e == UpdateScale(UpdateClip(d, r, size), r, size)
         IN Sound(e) /\ Aligned(e, r) /\ Fitted(e, r, size)
  <1> DEFINE c == UpdateClip(d, r, size)
             e == UpdateScale(c, r, size)
  <1>1. /\ Sound(c) /\ Natural(c) /\ c.clip = (r.clip /\ ~r.scale)
        /\ c.w = NewWidth(c, size)
    <2>1. Clipped(d, r, size, c)
      BY UpdateClipSound
    <2> QED BY <2>1 DEF Clipped
  <1> HIDE DEF c
  <1>2. /\ Sound(e) /\ SamePlace(c, e) /\ e.clip = c.clip
        /\ r.scale => e.shown = <<size * e.w, e.w>>
        /\ ~r.scale => (e.scale = <<1, 1>> /\ e.shown = <<e.w, 1>>)
    BY <1>1, UpdateScaleSound
  <1> QED BY <1>1, <1>2 DEF c, Aligned, Fitted, Natural, NewWidth, SamePlace

\* RFB._resize fits the view, whatever it was.
LEMMA RfbResizeSound ==
  ASSUME NEW d, Sound(d), NEW r \in Session, NEW size \in Nat \ {0},
         NEW width \in Nat \ {0}
  PROVE  LET e == RfbResize(d, r, size, width)
         IN Sound(e) /\ Aligned(e, r) /\ Fitted(e, r, size)
  <1> DEFINE m == Resize(d, width)
  <1>1. Sound(m) /\ Natural(m)
    BY ResizeSound DEF Natural, NewWidth
  <1>2. RfbResize(d, r, size, width) = UpdateScale(UpdateClip(m, r, size), r, size)
    BY DEF RfbResize
  <1> HIDE DEF m
  <1> QED BY <1>1, <1>2, AdjustSound
Modes == {"off", "scale", "remote"}
Settings == [resize : Modes, control : BOOLEAN, cache : BOOLEAN,
             stored : BOOLEAN, enabled : BOOLEAN, mobile : BOOLEAN]

\* RFB has the mode that the page has chosen.
Chosen(u, r) == /\ r.scale <=> u.resize = "scale"
                /\ r.resize <=> u.resize = "remote"

\* The setter of scaleViewport.
LEMMA SetScaleSound ==
  ASSUME NEW d, Sound(d), Natural(d), NEW r \in Session, NEW size \in Nat \ {0},
         d.clip => r.clip
  PROVE  LET e == SetScaleViewport(d, r, size)
         IN Sound(e) /\ Aligned(e, r) /\ (r.scale => Fitted(e, r, size))
  <1> DEFINE d1 == IF r.scale /\ r.clip THEN UpdateClip(d, r, size) ELSE d
             d2 == UpdateScale(d1, r, size)
             e == IF ~r.scale /\ r.clip THEN UpdateClip(d2, r, size) ELSE d2
  <1>1. SetScaleViewport(d, r, size) = e
    BY DEF SetScaleViewport
  <1>2. Sound(d1) /\ Natural(d1) /\ (r.scale => d1.clip = FALSE) /\ (d1.clip => r.clip)
    <2>1. CASE r.scale /\ r.clip
      <3>1. Clipped(d, r, size, d1)
        BY <2>1, UpdateClipSound
      <3> QED BY <2>1, <3>1 DEF Clipped
    <2>2. CASE ~(r.scale /\ r.clip)
      BY <2>2 DEF Sound, Formed, Session
    <2> QED BY <2>1, <2>2
  <1> HIDE DEF d1
  <1>3. /\ Sound(d2) /\ SamePlace(d1, d2) /\ d2.clip = d1.clip
        /\ r.scale => d2.shown = <<size * d2.w, d2.w>>
        /\ ~r.scale => (d2.scale = <<1, 1>> /\ d2.shown = <<d2.w, 1>>)
    BY <1>2, UpdateScaleSound
  <1> HIDE DEF d2
  <1>4. Natural(d2) /\ d2.clip \in BOOLEAN /\ d2.w \in Nat
    BY <1>2, <1>3 DEF Natural, SamePlace, Sound, Formed
  <1>5. CASE r.scale
    <2>1. e = d2 /\ d2.clip = FALSE
      BY <1>2, <1>3, <1>5
    <2> QED BY <1>1, <1>3, <1>4, <1>5, <2>1
            DEF Aligned, Fitted, Natural, NewWidth
  <1>6. CASE ~r.scale /\ r.clip
    <2>1. Clipped(d2, r, size, e)
      BY <1>3, <1>4, <1>6, UpdateClipSound
    <2>2. 1 * d2.w = d2.w /\ e.w \in Nat /\ 1 * e.w = e.w
      BY <1>3, <2>1, UnscaledWidth DEF Clipped
    <2>3. d2.shown = <<d2.scale[1] * d2.w, d2.scale[2]>>
      BY <1>3, <1>6, <2>2
    <2> HIDE DEF e
    <2>4. e.scale = <<1, 1>> /\ e.shown = <<e.w, 1>>
      BY <1>3, <1>6, <2>1, <2>2, <2>3 DEF Clipped
    <2> QED BY <1>1, <1>6, <2>1, <2>4 DEF Clipped, Aligned, Natural
  <1>7. CASE ~r.scale /\ ~r.clip
    <2>1. e = d2 /\ d2.clip = FALSE
      BY <1>2, <1>3, <1>4, <1>7
    <2> QED BY <1>1, <1>3, <1>4, <1>7, <2>1 DEF Aligned, Natural
  <1> QED BY <1>5, <1>6, <1>7

\* The view after UI.updateViewClip.
Viewed(u, r, d, size, x) ==
  /\ x.ui \in Settings /\ x.rfb \in Session
  /\ x.ui.resize = u.resize /\ x.ui.control = x.ui.cache
  /\ x.rfb.clip = x.ui.control
  /\ x.rfb = [r EXCEPT !.clip = x.ui.cache, !.drag = @ /\ x.ui.cache]
  /\ Sound(x.display) /\ Aligned(x.display, x.rfb)
  /\ r.scale => x.display = d
  /\ ~r.scale => Fitted(x.display, x.rfb, size)

\* UI.updateViewClip fits the view, but for scaling, which it leaves alone.
LEMMA ViewClipSound ==
  ASSUME NEW d, Sound(d), NEW r \in Session, Aligned(d, r), NEW u \in Settings,
         u.control = u.cache, Chosen(u, r), NEW size \in Nat \ {0}
  PROVE  Viewed(u, r, d, size, ViewClip(u, r, d, size))
  <1> DEFINE u1 == CASE u.resize = "scale" -> ForceSetting(u, FALSE)
                     [] u.resize # "scale" /\ u.mobile -> ForceSetting(u, TRUE)
                     [] OTHER -> EnableSetting(u)
             r1 == [r EXCEPT !.clip = u1.cache]
             r2 == [r1 EXCEPT !.drag = @ /\ r1.clip]
             e == UpdateClip(d, r1, size)
  <1>1. /\ ViewClip(u, r, d, size).ui = u1
        /\ ViewClip(u, r, d, size).rfb = r2
        /\ ViewClip(u, r, d, size).display = e
    BY DEF ViewClip
  <1>2. u1 \in Settings /\ u1.resize = u.resize /\ u1.control = u1.cache
        /\ (u.resize = "scale" => u1.cache = FALSE)
    <2>1. CASE u.resize = "scale"
      BY <2>1 DEF ForceSetting, Settings
    <2>2. CASE u.resize # "scale" /\ u.mobile
      BY <2>2 DEF ForceSetting, Settings
    <2>3. CASE u.resize # "scale" /\ ~u.mobile
      BY <2>3 DEF EnableSetting, Settings
    <2> QED BY <2>1, <2>2, <2>3 DEF Settings
  <1> HIDE DEF u1
  <1>3. /\ r1 \in Session /\ r1.scale = r.scale /\ r1.clip = u1.cache
        /\ r2 \in Session /\ r2.scale = r.scale /\ r2.clip = u1.cache
        /\ r2 = [r EXCEPT !.clip = u1.cache, !.drag = @ /\ u1.cache]
    BY <1>2 DEF Session, Settings
  <1> HIDE DEF r1, r2
  <1>4. Natural(d) /\ d.clip \in BOOLEAN /\ d.w \in Nat
    BY DEF Aligned, Natural, Sound, Formed
  <1>5. Clipped(d, r1, size, e)
    BY <1>3, <1>4, UpdateClipSound
  <1> HIDE DEF e
  <1>6. CASE r.scale
    <2>1. d.clip = FALSE /\ e = d
      BY <1>3, <1>5, <1>6 DEF Aligned, Session, Clipped
    <2>2. Aligned(e, r2)
      BY <1>3, <1>6, <2>1 DEF Aligned, Session
    <2> QED BY <1>1, <1>2, <1>3, <1>5, <1>6, <2>1, <2>2 DEF Viewed, Clipped
  <1>7. CASE ~r.scale
    <2>1. 1 * d.w = d.w /\ e.w \in Nat /\ 1 * e.w = e.w
      BY <1>5, UnscaledWidth DEF Clipped
    <2>2. d.scale = <<1, 1>> /\ d.shown = <<d.scale[1] * d.w, d.scale[2]>>
      BY <1>7, <2>1 DEF Aligned
    <2>3. e.scale = <<1, 1>> /\ e.shown = <<e.w, 1>>
      BY <1>5, <2>1, <2>2 DEF Clipped
    <2>4. Aligned(e, r2) /\ Fitted(e, r2, size)
      BY <1>3, <1>5, <1>7, <2>3 DEF Clipped, Aligned, Fitted, Natural
    <2> QED BY <1>1, <1>2, <1>3, <1>5, <1>7, <2>4 DEF Viewed, Clipped
  <1> QED BY <1>6, <1>7

\* UI.applyResizeMode and updateViewClip fit the view to the chosen mode.
LEMMA ResizeModeSound ==
  ASSUME NEW d, Sound(d), NEW r \in Session, Aligned(d, r), NEW u \in Settings,
         u.control = u.cache, NEW size \in Nat \ {0}
  PROVE  LET x == ApplyResizeMode(u, r, d, size)
         IN /\ x.ui \in Settings /\ x.rfb \in Session
            /\ x.ui.resize = u.resize /\ x.ui.control = x.ui.cache
            /\ x.rfb.clip = x.ui.control /\ Chosen(x.ui, x.rfb)
            /\ x.rfb.viewOnly = r.viewOnly /\ x.rfb.beenViewOnly = r.beenViewOnly
            /\ x.rfb.drag => (x.rfb.clip /\ r.drag)
            /\ Sound(x.display) /\ Aligned(x.display, x.rfb)
            /\ Fitted(x.display, x.rfb, size)
  <1> DEFINE r1 == [r EXCEPT !.scale = u.resize = "scale",
                             !.resize = u.resize = "remote",
                             !.timer = @ /\ u.resize # "remote"]
             m == SetScaleViewport(d, r1, size)
             x == ViewClip(u, r1, m, size)
  <1>1. ApplyResizeMode(u, r, d, size) = x
    BY DEF ApplyResizeMode
  <1>2. /\ r1 \in Session /\ Chosen(u, r1) /\ r1.clip = r.clip /\ r1.drag = r.drag
        /\ r1.viewOnly = r.viewOnly /\ r1.beenViewOnly = r.beenViewOnly
    BY DEF Session, Chosen, Settings
  <1> HIDE DEF r1
  <1>3. Natural(d) /\ (d.clip => r1.clip)
    BY <1>2 DEF Aligned, Natural, Session
  <1>4. Sound(m) /\ Aligned(m, r1) /\ (r1.scale => Fitted(m, r1, size))
    BY <1>2, <1>3, SetScaleSound
  <1> HIDE DEF m
  <1>5. Viewed(u, r1, m, size, x)
    BY <1>2, <1>4, ViewClipSound
  <1> HIDE DEF x
  <1>6. /\ x.rfb.scale = r1.scale /\ x.rfb.resize = r1.resize
        /\ x.rfb.viewOnly = r1.viewOnly /\ x.rfb.beenViewOnly = r1.beenViewOnly
        /\ x.rfb.drag => (x.rfb.clip /\ r1.drag)
    BY <1>2, <1>5 DEF Viewed, Session, Settings
  <1>7. Chosen(x.ui, x.rfb)
    BY <1>2, <1>5, <1>6 DEF Viewed, Chosen
  <1>8. Fitted(x.display, x.rfb, size)
    BY <1>2, <1>4, <1>5, <1>6 DEF Viewed, Fitted, Session
  <1> QED BY <1>1, <1>2, <1>5, <1>6, <1>7, <1>8 DEF Viewed
\* A new display is sound.
LEMMA NewDisplaySound ==
  ASSUME NEW width \in Nat \ {0} PROVE Sound(NewDisplay(width))
  <1> DEFINE d == [fb |-> width, back |-> [i \in 0 .. width - 1 |-> Blank],
          x |-> 0, w |-> width, canvas |-> [i \in 0 .. width - 1 |-> Blank],
          damage |-> NoDamage, clip |-> FALSE, scale |-> <<1, 1>>,
          shown |-> <<width, 1>>, image |-> {}, flips |-> FALSE]
  <1>1. Sound(d)
    BY DEF Sound, Formed, Fields, Within, Tracked, Queued, NoDamage
  <1>2. NewDisplay(width) = Resize(d, width)
    BY DEF NewDisplay
  <1> HIDE DEF d
  <1> QED BY <1>1, <1>2, ResizeSound

\* What painting leaves alone, as far as the view goes.
SameView(d, e) == /\ e.clip = d.clip /\ e.scale = d.scale /\ e.shown = d.shown
                  /\ e.fb = d.fb /\ e.w = d.w

\* What fits the view still does when only pixels or the place change.
LEMMA ViewKept ==
  ASSUME NEW d, NEW e, SameView(d, e), NEW r
  PROVE  /\ Aligned(d, r) => Aligned(e, r)
         /\ \A size : Fitted(d, r, size) => Fitted(e, r, size)
  BY DEF SameView, Aligned, Fitted, NewWidth

\* What is painted is noted as damage.
LEMMA FillRectTracks ==
  ASSUME NEW d, Formed(d), Within(d), Tracked(d), NEW i \in Nat, NEW colour
  PROVE  LET e == FillRect(d, i, colour)
         IN /\ Formed(e) /\ Within(e) /\ Tracked(e) /\ SameView(d, e)
            /\ e.image = d.image /\ e.flips = d.flips
  <1> DEFINE b == IF i \in DOMAIN d.back THEN [d.back EXCEPT ![i] = colour]
                  ELSE d.back
             m == [d EXCEPT !.back = b]
             e == Damage(m, i, 1)
  <1>1. FillRect(d, i, colour) = e
    BY DEF FillRect
  <1>2. DOMAIN b = DOMAIN d.back /\ (\A j \in DOMAIN d.back : j # i => b[j] = d.back[j])
    OBVIOUS
  <1> HIDE DEF b
  <1>3. /\ Formed(m) /\ m.back = b /\ m.canvas = d.canvas /\ m.x = d.x
        /\ m.damage = d.damage /\ m.image = d.image /\ m.flips = d.flips
        /\ SameView(d, m)
    BY <1>2 DEF Formed, Fields, SameView
  <1> HIDE DEF m
  <1>4. /\ Formed(e) /\ e.back = m.back /\ e.canvas = m.canvas /\ e.x = m.x
        /\ e.image = m.image /\ e.flips = m.flips /\ SameView(m, e)
        /\ e.damage.left <= m.damage.left /\ m.damage.right <= e.damage.right
        /\ e.damage.left <= i /\ i < e.damage.right
    BY <1>3 DEF Damage, Formed, Fields, SameView, Smaller, Larger
  <1> HIDE DEF e
  <1>5. Tracked(e)
    <2> SUFFICES ASSUME NEW j \in 0 .. e.w - 1
                 PROVE  e.canvas[j] = e.back[e.x + j] \/ Damaged(e, e.x + j)
      BY DEF Tracked
    <2>1. j \in 0 .. d.w - 1 /\ d.x + j \in DOMAIN d.back /\ d.x + j \in Nat
      <3>1. e.w = d.w
        BY <1>3, <1>4 DEF SameView
      <3>2. /\ d.x \in Nat /\ d.w \in Nat /\ d.fb \in Nat /\ d.x + d.w <= d.fb
            /\ DOMAIN d.back = 0 .. d.fb - 1
        BY DEF Formed, Within
      <3> QED BY <3>1, <3>2
    <2>2. d.canvas[j] = d.back[d.x + j] \/ Damaged(d, d.x + j)
      BY <2>1 DEF Tracked
    <2>3. CASE d.x + j = i
      BY <1>3, <1>4, <2>3 DEF Damaged
    <2>4. CASE d.x + j # i /\ d.canvas[j] = d.back[d.x + j]
      BY <1>2, <1>3, <1>4, <2>1, <2>4
    <2>5. CASE Damaged(d, d.x + j)
      <3>1. e.damage.left \in Int /\ e.damage.right \in Int
            /\ d.damage.left \in Int /\ d.damage.right \in Int
        BY <1>4 DEF Formed
      <3>2. e.damage.left <= d.damage.left /\ d.damage.right <= e.damage.right
            /\ e.x = d.x
        BY <1>3, <1>4
      <3>3. e.damage.left <= d.x + j /\ d.x + j < e.damage.right
        BY <2>1, <2>5, <3>1, <3>2 DEF Damaged
      <3> QED BY <3>2, <3>3 DEF Damaged
    <2> QED BY <2>2, <2>3, <2>4, <2>5
  <1>6. Within(e) /\ SameView(d, e)
    BY <1>3, <1>4 DEF Within, SameView
  <1> QED BY <1>1, <1>3, <1>4, <1>5, <1>6

\* An update, painted at once or with an image to wait for.
LEMMA PaintSound ==
  ASSUME NEW d, Sound(d), NEW i \in Nat, NEW colour, NEW image \in BOOLEAN,
         d.image = {}
  PROVE  LET e == Flip(IF image THEN ImageRect(d, i, colour)
                       ELSE FillRect(d, i, colour))
         IN Sound(e) /\ SameView(d, e)
  <1>1. CASE image
    <2> DEFINE m == ImageRect(d, i, colour)
    <2>1. Formed(m) /\ Within(m) /\ Tracked(m) /\ SameView(d, m)
      BY DEF ImageRect, Sound, Formed, Fields, Within, Tracked, Damaged, SameView
    <2> HIDE DEF m
    <2>2. Sound(Flip(m)) /\ SameMode(m, Flip(m))
      BY <2>1, FlipTracks
    <2> QED BY <1>1, <2>1, <2>2 DEF m, SameMode, SameView
  <1>2. CASE ~image
    <2> DEFINE m == FillRect(d, i, colour)
    <2>1. Formed(m) /\ Within(m) /\ Tracked(m) /\ SameView(d, m)
      BY FillRectTracks DEF Sound
    <2> HIDE DEF m
    <2>2. Sound(Flip(m)) /\ SameMode(m, Flip(m))
      BY <2>1, FlipTracks
    <2> QED BY <1>2, <2>1, <2>2 DEF m, SameMode, SameView
  <1> QED BY <1>1, <1>2

\* The image is loaded, and the flips behind it are made up for.
LEMMA ImageSound ==
  ASSUME NEW d, Sound(d), d.image # {}
  PROVE  LET e == ScanRenderQ(d) IN Sound(e) /\ SameView(d, e)
  <1> DEFINE item == CHOOSE item \in d.image : TRUE
             m == [d EXCEPT !.image = {}, !.flips = FALSE]
             drawn == FillRect(m, item[1], item[2])
  <1>1. ScanRenderQ(d) = FlipNow(drawn)
    BY DEF ScanRenderQ, Sound, Queued
  <1>2. item[1] \in Nat
    BY DEF Sound, Formed
  <1>3. Formed(m) /\ Within(m) /\ Tracked(m) /\ SameView(d, m) /\ m.image = {}
    BY DEF Sound, Formed, Fields, Within, Tracked, Damaged, SameView
  <1> HIDE DEF m, item
  <1>4. Formed(drawn) /\ Within(drawn) /\ Tracked(drawn) /\ SameView(m, drawn)
        /\ drawn.image = {}
    BY <1>2, <1>3, FillRectTracks
  <1> HIDE DEF drawn
  <1>5. LET e == FlipNow(drawn)
        IN /\ Formed(e) /\ SamePlace(drawn, e) /\ SameMode(drawn, e)
           /\ \A j \in 0 .. drawn.w - 1 : e.canvas[j] = e.back[e.x + j]
           /\ e.damage = NoDamage
    BY <1>4, FlipNowTracks
  <1>6. Sound(FlipNow(drawn))
    BY <1>4, <1>5 DEF Sound, SamePlace, SameMode, Within, Tracked, Queued
  <1>7. SameView(d, FlipNow(drawn))
    BY <1>3, <1>4, <1>5 DEF SameView, SameMode
  <1> QED BY <1>1, <1>6, <1>7
-----------------------------------------------------------------------------
ViewTyped ==
  /\ rfb \in Session /\ ui \in Settings
  /\ window \in [size : Sizes, frame : BOOLEAN]
  /\ server \in [resizes : BOOLEAN, supports : BOOLEAN, asked : Nat,
                 request : SUBSET Nat]

\* The settings as the three places have them.
InStep(u, r) ==
  /\ u.control = u.cache /\ r.clip = u.control /\ Chosen(u, r)
  /\ r.drag => r.clip
  /\ r.viewOnly => r.beenViewOnly

ViewInv ==
  /\ ViewTyped
  /\ Sound(display) /\ Aligned(display, rfb)
  /\ InStep(ui, rfb)
  /\ ~window.frame => Fitted(display, rfb, window.size)
  /\ GuestAskedToFit

\* Sizes are positive.
LEMMA SizeIsNat == ASSUME NEW n \in Sizes PROVE n \in Nat \ {0}
  BY SizesAssumption

\* A request that is made asks for the size of the window.
LEMMA RequestAsks ==
  ASSUME ViewTyped, NEW r \in Session
  PROVE  LET s == RequestRemoteResize(server, r, window.size)
         IN /\ s \in [resizes : BOOLEAN, supports : BOOLEAN, asked : Nat,
                      request : SUBSET Nat]
            /\ s.supports = server.supports
            /\ (r.resize /\ ~r.viewOnly /\ s.supports) => s.asked = window.size
  BY SizeIsNat DEF ViewTyped, RequestRemoteResize

\* Another resize mode.
LEMMA ChangeResizeKeeps ==
  ASSUME ViewInv, NEW mode \in Modes, ChangeResize(mode) PROVE ViewInv'
  <1> DEFINE u == [ui EXCEPT !.resize = mode]
             x == ApplyResizeMode(u, rfb, display, window.size)
  <1>1. u \in Settings /\ u.control = u.cache /\ u.resize = mode
    BY DEF ViewInv, ViewTyped, InStep, Settings
  <1>2. window.size \in Nat \ {0}
    BY SizeIsNat DEF ViewInv, ViewTyped
  <1>3. ui' = x.ui /\ rfb' = x.rfb /\ display' = x.display /\ window' = window
    BY DEF ChangeResize, Callback
  <1>4. server' = IF mode = "remote"
                    THEN RequestRemoteResize(server, x.rfb, window.size)
                    ELSE server
    BY DEF ChangeResize
  <1> HIDE DEF u
  <1>5. /\ x.ui \in Settings /\ x.rfb \in Session
        /\ x.ui.resize = u.resize /\ x.ui.control = x.ui.cache
        /\ x.rfb.clip = x.ui.control /\ Chosen(x.ui, x.rfb)
        /\ x.rfb.viewOnly = rfb.viewOnly /\ x.rfb.beenViewOnly = rfb.beenViewOnly
        /\ x.rfb.drag => x.rfb.clip
        /\ Sound(x.display) /\ Aligned(x.display, x.rfb)
        /\ Fitted(x.display, x.rfb, window.size)
    BY <1>1, <1>2, ResizeModeSound DEF ViewInv, ViewTyped
  <1> HIDE DEF x
  <1>6. ViewTyped'
    BY <1>3, <1>4, <1>5, RequestAsks DEF ViewInv, ViewTyped
  <1>7. GuestAskedToFit'
    <2>1. CASE mode = "remote"
      BY <1>3, <1>4, <1>5, <2>1, RequestAsks
         DEF GuestAskedToFit, ViewInv, InStep, ViewTyped, Session
    <2>2. CASE mode # "remote"
      BY <1>1, <1>3, <1>5, <2>2 DEF GuestAskedToFit, Chosen
    <2> QED BY <2>1, <2>2
  <1> QED BY <1>3, <1>5, <1>6, <1>7 DEF ViewInv, InStep

\* The clip setting.
LEMMA ChangeViewClipKeeps == ASSUME ViewInv, ChangeViewClip PROVE ViewInv'
  <1> DEFINE u == SaveSetting([ui EXCEPT !.control = ~@])
             x == ViewClip(u, rfb, display, window.size)
  <1>1. u \in Settings /\ u.control = u.cache /\ u.resize = ui.resize
    BY DEF ViewInv, ViewTyped, InStep, Settings, SaveSetting, WriteSetting
  <1>2. window.size \in Nat \ {0}
    BY SizeIsNat DEF ViewInv, ViewTyped
  <1>3. ui' = x.ui /\ rfb' = x.rfb /\ display' = x.display /\ window' = window
        /\ server' = server
    BY DEF ChangeViewClip, Callback
  <1> HIDE DEF u
  <1>4. Viewed(u, rfb, display, window.size, x)
    BY <1>1, <1>2, ViewClipSound DEF ViewInv, ViewTyped, InStep, Chosen
  <1> HIDE DEF x
  <1>5. /\ x.rfb.scale = rfb.scale /\ x.rfb.resize = rfb.resize
        /\ x.rfb.viewOnly = rfb.viewOnly /\ x.rfb.timer = rfb.timer
        /\ x.rfb.beenViewOnly = rfb.beenViewOnly
        /\ x.rfb.drag => x.rfb.clip
    BY <1>4 DEF ViewInv, ViewTyped, Viewed, Session, Settings
  <1>6. ViewTyped' /\ GuestAskedToFit'
    BY <1>3, <1>4, <1>5 DEF ViewInv, ViewTyped, GuestAskedToFit, Viewed
  <1>7. InStep(ui, rfb)'
    BY <1>1, <1>3, <1>4, <1>5 DEF ViewInv, InStep, Viewed, Chosen
  <1>8. (~window.frame => Fitted(display, rfb, window.size))'
    BY <1>3, <1>4, <1>5 DEF ViewInv, ViewTyped, Viewed, Fitted, Session
  <1> QED BY <1>3, <1>4, <1>6, <1>7, <1>8 DEF ViewInv, Viewed

\* The window, its frame and its timer, and a refused request.
LEMMA WindowKeeps ==
  ASSUME ViewInv, (\E size \in Sizes : ResizeWindow(size)) \/ AnimationFrame
                    \/ ResizeTimeout \/ ResizeRefused
  PROVE  ViewInv'
  <1>1. ASSUME NEW size \in Sizes, ResizeWindow(size) PROVE ViewInv'
    <2>1. /\ window' = [size |-> size, frame |-> TRUE]
          /\ rfb' = [rfb EXCEPT !.timer = @ \/ rfb.resize]
          /\ UNCHANGED <<display, ui, server>>
      BY <1>1 DEF ResizeWindow
    <2>2. /\ rfb' \in Session /\ rfb'.clip = rfb.clip /\ rfb'.scale = rfb.scale
          /\ rfb'.resize = rfb.resize /\ rfb'.drag = rfb.drag
          /\ rfb'.viewOnly = rfb.viewOnly /\ rfb'.beenViewOnly = rfb.beenViewOnly
          /\ rfb.resize => rfb'.timer
      BY <2>1 DEF ViewInv, ViewTyped, Session
    <2>3. ViewTyped' /\ GuestAskedToFit' /\ window'.frame
      BY <2>1, <2>2 DEF ViewInv, ViewTyped, GuestAskedToFit
    <2> QED BY <2>1, <2>2, <2>3 DEF ViewInv, InStep, Chosen, Aligned
  <1>2. CASE AnimationFrame
    <2> DEFINE e == UpdateScale(UpdateClip(display, rfb, window.size), rfb,
                                window.size)
    <2>1. /\ window' = [window EXCEPT !.frame = FALSE] /\ display' = e
          /\ UNCHANGED <<rfb, ui, server>>
      BY <1>2 DEF AnimationFrame
    <2>2. window.size \in Nat \ {0} /\ Natural(display) /\ rfb \in Session
          /\ Sound(display)
      BY SizeIsNat DEF ViewInv, ViewTyped, Aligned, Natural
    <2>3. Sound(e) /\ Aligned(e, rfb) /\ Fitted(e, rfb, window.size)
      BY <2>2, AdjustSound
    <2> HIDE DEF e
    <2>4. ViewTyped' /\ window'.size = window.size /\ GuestAskedToFit'
      BY <2>1 DEF ViewInv, ViewTyped, GuestAskedToFit
    <2> QED BY <2>1, <2>3, <2>4 DEF ViewInv
  <1>3. CASE ResizeTimeout
    <2>1. /\ rfb' = [rfb EXCEPT !.timer = FALSE]
          /\ server' = RequestRemoteResize(server, rfb, window.size)
          /\ UNCHANGED <<display, ui, window>>
      BY <1>3 DEF ResizeTimeout
    <2>2. /\ rfb' \in Session /\ rfb'.clip = rfb.clip /\ rfb'.scale = rfb.scale
          /\ rfb'.resize = rfb.resize /\ rfb'.drag = rfb.drag
          /\ rfb'.viewOnly = rfb.viewOnly /\ rfb'.beenViewOnly = rfb.beenViewOnly
      BY <2>1 DEF ViewInv, ViewTyped, Session
    <2>3. ViewTyped'
      BY <2>1, <2>2, RequestAsks DEF ViewInv, ViewTyped
    <2>4. GuestAskedToFit'
      BY <2>1, <2>2, RequestAsks DEF ViewInv, ViewTyped, GuestAskedToFit, InStep
    <2> QED BY <2>1, <2>2, <2>3, <2>4 DEF ViewInv, InStep, Chosen, Aligned, Fitted
  <1>4. CASE ResizeRefused
    <2>1. server' = [server EXCEPT !.request = {}]
          /\ UNCHANGED <<display, rfb, ui, window>>
      BY <1>4 DEF ResizeRefused
    <2>2. ViewTyped' /\ GuestAskedToFit'
      BY <2>1 DEF ViewInv, ViewTyped, GuestAskedToFit
    <2> QED BY <2>1, <2>2 DEF ViewInv
  <1> QED BY <1>1, <1>2, <1>3, <1>4
\* The guest changes its size, or answers.
LEMMA ExtendedDesktopSizeKeeps ==
  ASSUME ViewInv, NEW width \in Sizes, NEW answer \in BOOLEAN,
         ExtendedDesktopSize(width, answer)
  PROVE  ViewInv'
  <1> DEFINE first == ~server.supports
             s == [server EXCEPT !.supports = TRUE,
                                 !.request = IF answer THEN {} ELSE @]
             s1 == IF first THEN RequestRemoteResize(s, rfb, window.size) ELSE s
             e == RfbResize(display, rfb, window.size, width)
  <1>1. /\ server' = s1 /\ rfb' = [rfb EXCEPT !.timer = @ /\ ~first]
        /\ display' = e /\ UNCHANGED <<ui, window>>
    BY DEF ExtendedDesktopSize
  <1>2. /\ rfb' \in Session /\ rfb'.clip = rfb.clip /\ rfb'.scale = rfb.scale
        /\ rfb'.resize = rfb.resize /\ rfb'.drag = rfb.drag
        /\ rfb'.viewOnly = rfb.viewOnly /\ rfb'.beenViewOnly = rfb.beenViewOnly
        /\ ~first => rfb'.timer = rfb.timer
    BY <1>1 DEF ViewInv, ViewTyped, Session
  <1>3. window.size \in Nat \ {0} /\ width \in Nat \ {0}
    BY SizeIsNat DEF ViewInv, ViewTyped
  <1>4. /\ s1 \in [resizes : BOOLEAN, supports : BOOLEAN, asked : Nat,
                   request : SUBSET Nat]
        /\ ~first => s1.asked = server.asked
        /\ (first /\ rfb.resize /\ ~rfb.viewOnly) => s1.asked = window.size
    BY <1>3 DEF ViewInv, ViewTyped, RequestRemoteResize
  <1> HIDE DEF s1
  <1>5. ViewTyped' /\ GuestAskedToFit'
    BY <1>1, <1>2, <1>4 DEF ViewInv, ViewTyped, GuestAskedToFit, InStep
  <1>6. Sound(e) /\ Aligned(e, rfb) /\ Fitted(e, rfb, window.size)
    BY <1>3, RfbResizeSound DEF ViewInv, ViewTyped
  <1> HIDE DEF e
  <1> QED BY <1>1, <1>2, <1>5, <1>6 DEF ViewInv, InStep, Chosen, Aligned, Fitted

\* Updates and images.
LEMMA PaintingKeeps ==
  ASSUME ViewInv,
         \/ \E i \in 0 .. display.fb - 1, colour \in Colours, image \in BOOLEAN :
              PaintUpdate(i, colour, image)
         \/ ImageLoaded
  PROVE  ViewInv'
  <1>1. UNCHANGED <<rfb, ui, window, server>>
    BY DEF PaintUpdate, ImageLoaded
  <1>2. Sound(display') /\ SameView(display, display')
    <2>1. ASSUME NEW i \in 0 .. display.fb - 1, NEW colour \in Colours,
                 NEW image \in BOOLEAN, PaintUpdate(i, colour, image)
          PROVE  Sound(display') /\ SameView(display, display')
      <3>1. i \in Nat
        OBVIOUS
      <3>2. display.image = {} /\ Sound(display)
        BY <2>1 DEF PaintUpdate, ViewInv
      <3>3. display' = Flip(IF image THEN ImageRect(display, i, colour)
                            ELSE FillRect(display, i, colour))
        BY <2>1 DEF PaintUpdate
      <3> QED BY <3>1, <3>2, <3>3, PaintSound
    <2>2. CASE ImageLoaded
      BY <2>2, ImageSound DEF ImageLoaded, ViewInv
    <2> QED BY <2>1, <2>2
  <1>3. Aligned(display, rfb)' /\ (~window.frame => Fitted(display, rfb, window.size))'
    BY <1>1, <1>2, ViewKept DEF ViewInv
  <1> QED BY <1>1, <1>2, <1>3 DEF ViewInv, ViewTyped, InStep, Chosen, GuestAskedToFit

\* Whatever happens to the screen keeps the invariant.
LEMMA ScreenKeeps == ASSUME ViewInv, ScreenNext PROVE ViewInv'
  <1>1. CASE \E mode \in Modes : ChangeResize(mode)
    BY <1>1, ChangeResizeKeeps
  <1>2. CASE ChangeViewClip
    BY <1>2, ChangeViewClipKeeps
  <1>3. CASE (\E size \in Sizes : ResizeWindow(size)) \/ AnimationFrame
               \/ ResizeTimeout \/ ResizeRefused
    BY <1>3, WindowKeeps
  <1>4. CASE \E width \in Sizes, answer \in BOOLEAN : ExtendedDesktopSize(width, answer)
    BY <1>4, ExtendedDesktopSizeKeeps
  <1>5. CASE \/ \E i \in 0 .. display.fb - 1, colour \in Colours, image \in BOOLEAN :
                  PaintUpdate(i, colour, image)
             \/ ImageLoaded
    BY <1>5, PaintingKeeps
  <1> QED BY <1>1, <1>2, <1>3, <1>4, <1>5 DEF ScreenNext, Modes

\* A new session starts with the invariant.
LEMMA ScreenInitKeeps == ASSUME ScreenInit PROVE ViewInv
  <1> PICK width \in Sizes, size \in Sizes, mode \in Modes,
           clip \in BOOLEAN, mobile \in BOOLEAN, resizes \in BOOLEAN :
        /\ \E x \in {NewSession(width, size,
                       [resize |-> mode, control |-> clip, cache |-> clip,
                        stored |-> clip, enabled |-> TRUE, mobile |-> mobile])} :
             ui = x.ui /\ rfb = x.rfb /\ display = x.display
        /\ window = [size |-> size, frame |-> FALSE]
        /\ server = [resizes |-> resizes, supports |-> FALSE,
                     asked |-> 0, request |-> {}]
    BY DEF ScreenInit, Modes
  <1> DEFINE u == [resize |-> mode, control |-> clip, cache |-> clip,
                   stored |-> clip, enabled |-> TRUE, mobile |-> mobile]
             r == [clip |-> u.cache, scale |-> u.resize = "scale",
                   resize |-> u.resize = "remote", viewOnly |-> FALSE,
                   beenViewOnly |-> FALSE, drag |-> FALSE, timer |-> FALSE]
             d == RfbResize(NewDisplay(width), r, size, width)
             x == ViewClip(u, r, d, size)
  <1>1. ui = x.ui /\ rfb = x.rfb /\ display = x.display
    BY DEF NewSession
  <1>2. width \in Nat \ {0} /\ size \in Nat \ {0}
    BY SizeIsNat
  <1>3. u \in Settings /\ u.control = u.cache
    BY DEF Settings
  <1>4. r \in Session /\ Chosen(u, r) /\ ~r.viewOnly /\ ~r.drag
    BY DEF Session, Chosen
  <1> HIDE DEF u, r
  <1>5. Sound(d) /\ Aligned(d, r) /\ Fitted(d, r, size)
    BY <1>2, <1>4, NewDisplaySound, RfbResizeSound
  <1> HIDE DEF d
  <1>6. Viewed(u, r, d, size, x)
    BY <1>2, <1>3, <1>4, <1>5, ViewClipSound
  <1> HIDE DEF x
  <1>7. /\ x.rfb.scale = r.scale /\ x.rfb.resize = r.resize
        /\ ~x.rfb.viewOnly /\ ~x.rfb.drag
    BY <1>4, <1>6 DEF Viewed, Session, Settings
  <1>8. ViewTyped /\ GuestAskedToFit
    BY <1>1, <1>6 DEF ViewTyped, GuestAskedToFit, Viewed
  <1>9. InStep(ui, rfb)
    BY <1>1, <1>4, <1>6, <1>7 DEF InStep, Viewed, Chosen
  <1>10. Fitted(display, rfb, size)
    BY <1>1, <1>4, <1>5, <1>6, <1>7 DEF Viewed, Fitted, Session
  <1> QED BY <1>1, <1>6, <1>8, <1>9, <1>10 DEF ViewInv, Viewed

\* What the invariant says of the view.
LEMMA ViewPromises == ASSUME ViewInv PROVE ViewShown
  <1>1. ViewportInside
    BY DEF ViewInv, Sound, Formed, Within, ViewportInside
  <1>2. ShowsTheScreen
    <2> SUFFICES ASSUME display.image = {}, NEW i \in DOMAIN display.canvas
                 PROVE  display.canvas[i] = display.back[display.x + i]
      BY DEF ShowsTheScreen
    <2>1. i \in 0 .. display.w - 1 /\ display.damage = NoDamage /\ display.x + i \in Int
      BY DEF ViewInv, Sound, Formed, Queued
    <2>2. ~Damaged(display, display.x + i)
      BY <2>1 DEF Damaged, NoDamage
    <2> QED BY <2>1, <2>2 DEF ViewInv, Sound, Tracked
  <1>3. ViewSettled
    <2>1. /\ rfb.clip = ui.control /\ (rfb.scale <=> ui.resize = "scale")
          /\ display.clip = (rfb.clip /\ ~rfb.scale) /\ (rfb.drag => rfb.clip)
      BY DEF ViewInv, InStep, Chosen, Aligned
    <2>2. ASSUME ~window.frame
          PROVE  display.w = IF display.clip THEN Smaller(window.size, display.fb)
                             ELSE display.fb
      BY <2>2 DEF ViewInv, Fitted, NewWidth
    <2>3. ASSUME ~window.frame
          PROVE  display.shown[1] = (IF rfb.scale THEN window.size ELSE display.w)
                                      * display.shown[2]
      <3>1. CASE rfb.scale
        BY <2>3, <3>1 DEF ViewInv, Fitted
      <3>2. CASE ~rfb.scale
        BY <3>2, UnscaledWidth DEF ViewInv, Aligned
      <3> QED BY <3>1, <3>2
    <2> QED BY <2>1, <2>2, <2>3 DEF ViewSettled
  <1> QED BY <1>1, <1>2, <1>3 DEF ViewShown
\* Changes of the screen may end the drag mode, and never begin it.
LEMMA ScreenLeaves ==
  ASSUME ViewInv, ScreenNext
  PROVE  rfb'.viewOnly = rfb.viewOnly /\ (rfb'.drag => rfb.drag)
  <1>1. ASSUME NEW mode \in Modes, ChangeResize(mode)
        PROVE  rfb'.viewOnly = rfb.viewOnly /\ (rfb'.drag => rfb.drag)
    <2> DEFINE u == [ui EXCEPT !.resize = mode]
    <2>1. u \in Settings /\ u.control = u.cache
      BY DEF ViewInv, ViewTyped, InStep, Settings
    <2>2. window.size \in Nat \ {0}
      BY SizeIsNat DEF ViewInv, ViewTyped
    <2>3. rfb' = ApplyResizeMode(u, rfb, display, window.size).rfb
      BY <1>1 DEF ChangeResize, Callback
    <2> HIDE DEF u
    <2> QED BY <2>1, <2>2, <2>3, ResizeModeSound DEF ViewInv, ViewTyped
  <1>2. ASSUME ChangeViewClip
        PROVE  rfb'.viewOnly = rfb.viewOnly /\ (rfb'.drag => rfb.drag)
    <2> DEFINE u == SaveSetting([ui EXCEPT !.control = ~@])
               x == ViewClip(u, rfb, display, window.size)
    <2>1. u \in Settings /\ u.control = u.cache /\ u.resize = ui.resize
      BY DEF ViewInv, ViewTyped, InStep, Settings, SaveSetting, WriteSetting
    <2>2. window.size \in Nat \ {0}
      BY SizeIsNat DEF ViewInv, ViewTyped
    <2>3. rfb' = x.rfb
      BY <1>2 DEF ChangeViewClip, Callback
    <2> HIDE DEF u
    <2>4. Viewed(u, rfb, display, window.size, x)
      BY <2>1, <2>2, ViewClipSound DEF ViewInv, ViewTyped, InStep, Chosen
    <2> HIDE DEF x
    <2> QED BY <2>3, <2>4 DEF Viewed, ViewInv, ViewTyped, Session, Settings
  <1>3. ASSUME NEW size \in Sizes, ResizeWindow(size)
        PROVE  rfb'.viewOnly = rfb.viewOnly /\ (rfb'.drag => rfb.drag)
    BY <1>3 DEF ResizeWindow, ViewInv, ViewTyped, Session
  <1>4. ASSUME ResizeTimeout
        PROVE  rfb'.viewOnly = rfb.viewOnly /\ (rfb'.drag => rfb.drag)
    BY <1>4 DEF ResizeTimeout, ViewInv, ViewTyped, Session
  <1>5. ASSUME NEW width \in Sizes, NEW answer \in BOOLEAN,
               ExtendedDesktopSize(width, answer)
        PROVE  rfb'.viewOnly = rfb.viewOnly /\ (rfb'.drag => rfb.drag)
    BY <1>5 DEF ExtendedDesktopSize, ViewInv, ViewTyped, Session
  <1>6. ASSUME rfb' = rfb
        PROVE  rfb'.viewOnly = rfb.viewOnly /\ (rfb'.drag => rfb.drag)
    BY <1>6
  <1> QED BY <1>1, <1>2, <1>3, <1>4, <1>5, <1>6
          DEF ScreenNext, Modes, AnimationFrame, ResizeRefused, PaintUpdate, ImageLoaded

-----------------------------------------------------------------------------
(* The hands.                                                              *)

Mask == Buttons \cup {"left", "up", "down"}
PointerType == [mask : SUBSET Mask, dragging : BOOLEAN, moved : BOOLEAN, from : Int]

MouseType == [touchButton : Buttons \cup {"left"}, tapped : BOOLEAN,
              lastTouch : Int, wheel : Int, wheelTimer : BOOLEAN, pos : Int]

HandsTyped ==
  /\ mouse \in MouseType
  /\ pointer \in PointerType
  /\ hand \in [pressed : SUBSET Buttons, touching : BOOLEAN, at : Int]
  /\ capture \in BOOLEAN

\* The buttons that the page knows to be held.
Held == IF hand.touching THEN IF rfb.viewOnly THEN {} ELSE {mouse.touchButton}
        ELSE IF capture THEN hand.pressed ELSE {}

\* In drag mode what is held drags, and the guest knows of nothing; otherwise
\* the guest knows of what is held.
Told(p, mask, drag) ==
  /\ p.dragging = (drag /\ p.mask # {})
  /\ mask = IF p.dragging THEN {} ELSE p.mask

\* With none of the exceptions: one thing at a time is held, and it is what
\* the page thinks is held.
Orderly ==
  /\ hand.touching => (hand.pressed = {} /\ ~capture)
  /\ capture => (~rfb.viewOnly /\ \E b \in Buttons : hand.pressed = {b})
  /\ pointer.mask = Held
  /\ Told(pointer, guest.mask, rfb.drag)

HandsInv ==
  /\ HandsTyped
  /\ mouse.wheelTimer => ~rfb.viewOnly
  /\ why = {} => Orderly

HandsShape(h) ==
  DOMAIN h = {"pointer", "guest", "display"} /\ h.pointer \in PointerType

\* What one button event does.
Clicked(h, down, button, e) ==
  /\ HandsShape(e) /\ e.display = h.display
  /\ e.pointer.mask = IF down THEN h.pointer.mask \cup {button}
                      ELSE h.pointer.mask \ {button}
  /\ (rfb.drag /\ down /\ ~h.pointer.dragging) =>
       /\ e.pointer.dragging /\ ~e.pointer.moved
       /\ e.guest = h.guest
  /\ (rfb.drag /\ ~(down /\ ~h.pointer.dragging)) =>
       /\ ~e.pointer.dragging
       /\ IF h.pointer.moved \/ rfb.viewOnly THEN e.guest = h.guest
          ELSE e.guest.mask = e.pointer.mask
  /\ ~rfb.drag =>
       /\ e.pointer.dragging = h.pointer.dragging
       /\ IF rfb.viewOnly THEN e.guest = h.guest
          ELSE e.guest.mask = e.pointer.mask

\* RFB._handleMouseButton does what Clicked says.
LEMMA MouseButtonClicks ==
  ASSUME NEW h, HandsShape(h), NEW x \in Int, NEW down \in BOOLEAN, NEW button \in Mask
  PROVE  Clicked(h, down, button, MouseButton(h, x, down, button))
  <1> DEFINE mask == IF down THEN h.pointer.mask \cup {button}
                     ELSE h.pointer.mask \ {button}
             h1 == [h EXCEPT !.pointer.mask = mask]
             begun == [h1 EXCEPT !.pointer.dragging = TRUE, !.pointer.from = x,
                                 !.pointer.moved = FALSE]
             ended == [h1 EXCEPT !.pointer.dragging = FALSE]
  <1>1. mask \in SUBSET Mask
    BY DEF HandsShape, PointerType
  <1> HIDE DEF mask
  <1>2. /\ HandsShape(h1) /\ h1.display = h.display /\ h1.guest = h.guest
        /\ h1.pointer.mask = mask /\ h1.pointer.dragging = h.pointer.dragging
    BY <1>1 DEF HandsShape, PointerType
  <1>3. /\ HandsShape(begun) /\ begun.display = h.display /\ begun.guest = h.guest
        /\ begun.pointer.mask = mask /\ begun.pointer.dragging
        /\ ~begun.pointer.moved
    BY <1>1 DEF HandsShape, PointerType
  <1>4. /\ HandsShape(ended) /\ ended.display = h.display /\ ended.guest = h.guest
        /\ ended.pointer.mask = mask /\ ~ended.pointer.dragging
    BY <1>1 DEF HandsShape, PointerType
  <1> HIDE DEF h1, begun, ended
  <1>5. ASSUME NEW g, HandsShape(g), NEW m
        PROVE  LET e == PointerEvent(g, x, m)
               IN /\ HandsShape(e) /\ e.display = g.display /\ e.pointer = g.pointer
                  /\ IF rfb.viewOnly THEN e.guest = g.guest ELSE e.guest.mask = m
    BY <1>5 DEF PointerEvent, HandsShape
  <1>6. CASE rfb.drag /\ down /\ ~h.pointer.dragging
    <2>1. MouseButton(h, x, down, button) = begun
      BY <1>6 DEF MouseButton, begun, h1, mask
    <2> QED BY <1>3, <1>6, <2>1 DEF Clicked, mask
  <1>7. CASE rfb.drag /\ ~(down /\ ~h.pointer.dragging) /\ h.pointer.moved
    <2>1. MouseButton(h, x, down, button) = ended
      BY <1>7 DEF MouseButton, ended, h1, mask
    <2> QED BY <1>4, <1>7, <2>1 DEF Clicked, mask
  <1>8. CASE rfb.drag /\ ~(down /\ ~h.pointer.dragging) /\ ~h.pointer.moved
    <2> DEFINE g == PointerEvent(ended, x, {button})
               e == PointerEvent(g, x, mask)
    <2>1. MouseButton(h, x, down, button) = e
      BY <1>8 DEF MouseButton, ended, h1, mask
    <2>2. /\ HandsShape(g) /\ g.display = ended.display /\ g.pointer = ended.pointer
          /\ rfb.viewOnly => g.guest = ended.guest
      BY <1>4, <1>5
    <2> HIDE DEF g
    <2>3. /\ HandsShape(e) /\ e.display = g.display /\ e.pointer = g.pointer
          /\ IF rfb.viewOnly THEN e.guest = g.guest ELSE e.guest.mask = mask
      BY <1>5, <2>2
    <2> HIDE DEF e
    <2> QED BY <1>4, <1>8, <2>1, <2>2, <2>3 DEF Clicked, mask
  <1>9. CASE ~rfb.drag
    <2> DEFINE e == PointerEvent(h1, x, mask)
    <2>1. MouseButton(h, x, down, button) = e
      BY <1>9 DEF MouseButton, h1, mask
    <2>2. /\ HandsShape(e) /\ e.display = h1.display /\ e.pointer = h1.pointer
          /\ IF rfb.viewOnly THEN e.guest = h1.guest ELSE e.guest.mask = mask
      BY <1>2, <1>5
    <2> HIDE DEF e
    <2> QED BY <1>2, <1>9, <2>1, <2>2 DEF Clicked, mask
  <1> QED BY <1>6, <1>7, <1>8, <1>9
TellsTruth(h) == Told(h.pointer, h.guest.mask, rfb.drag)

\* A press with nothing held.
LEMMA PressTold ==
  ASSUME NEW h, HandsShape(h), TellsTruth(h), h.pointer.mask = {}, ~rfb.viewOnly,
         rfb.drag \in BOOLEAN, NEW x \in Int, NEW button \in Mask
  PROVE  LET e == MouseButton(h, x, TRUE, button)
         IN /\ HandsShape(e) /\ e.display = h.display /\ TellsTruth(e)
            /\ e.pointer.mask = {button}
            /\ rfb.drag => ~e.pointer.moved
  <1> DEFINE e == MouseButton(h, x, TRUE, button)
  <1>1. Clicked(h, TRUE, button, e)
    BY MouseButtonClicks
  <1> HIDE DEF e
  <1>2. ~h.pointer.dragging /\ h.guest.mask = {}
    BY DEF TellsTruth, Told
  <1>3. HandsShape(e) /\ e.display = h.display /\ e.pointer.mask = {button}
        /\ e.pointer.dragging \in BOOLEAN
    BY <1>1 DEF Clicked, HandsShape, PointerType
  <1>4. CASE rfb.drag
    BY <1>1, <1>2, <1>3, <1>4 DEF Clicked, TellsTruth, Told, e
  <1>5. CASE ~rfb.drag
    <2>1. ~e.pointer.dragging /\ e.guest.mask = e.pointer.mask
      BY <1>1, <1>2, <1>5 DEF Clicked
    <2> QED BY <1>3, <1>5, <2>1 DEF TellsTruth, Told, e
  <1> QED BY <1>4, <1>5

\* The release of the only button held.
LEMMA ReleaseTold ==
  ASSUME NEW h, HandsShape(h), TellsTruth(h), ~rfb.viewOnly, rfb.drag \in BOOLEAN,
         NEW x \in Int, NEW button \in Mask, h.pointer.mask \subseteq {button}
  PROVE  LET e == MouseButton(h, x, FALSE, button)
         IN /\ HandsShape(e) /\ e.display = h.display /\ TellsTruth(e)
            /\ e.pointer.mask = {}
  <1> DEFINE e == MouseButton(h, x, FALSE, button)
  <1>1. Clicked(h, FALSE, button, e)
    BY MouseButtonClicks
  <1> HIDE DEF e
  <1>2. HandsShape(e) /\ e.display = h.display /\ e.pointer.mask = {}
        /\ e.pointer.dragging \in BOOLEAN
    BY <1>1 DEF Clicked, HandsShape, PointerType
  <1>3. CASE rfb.drag
    <2>1. h.guest.mask = {}
      BY <1>3 DEF TellsTruth, Told
    <2>2. ~e.pointer.dragging /\ e.guest.mask = {}
      BY <1>1, <1>2, <1>3, <2>1 DEF Clicked
    <2> QED BY <1>2, <2>2 DEF TellsTruth, Told, e
  <1>4. CASE ~rfb.drag
    <2>1. ~h.pointer.dragging
      BY <1>4 DEF TellsTruth, Told
    <2>2. ~e.pointer.dragging /\ e.guest.mask = {}
      BY <1>1, <1>2, <1>4, <2>1 DEF Clicked
    <2> QED BY <1>2, <2>2 DEF TellsTruth, Told, e
  <1> QED BY <1>3, <1>4

\* A step of the wheel, unless there is a drag, leaves no trace.
LEMMA WheelTold ==
  ASSUME NEW h, HandsShape(h), ~rfb.viewOnly, rfb.drag \in BOOLEAN,
         NEW x \in Int, NEW delta \in Int
  PROVE  LET e == WheelStep(h, x, delta)
         IN /\ HandsShape(e) /\ e.display = h.display
            /\ (TellsTruth(h) /\ ~h.pointer.dragging
                  /\ h.pointer.mask \cap {"up", "down"} = {}) =>
                 TellsTruth(e) /\ e.pointer.mask = h.pointer.mask
  <1> DEFINE button == IF delta < 0 THEN "up" ELSE "down"
             g == MouseButton(h, x, TRUE, button)
             e == MouseButton(g, x, FALSE, button)
  <1>1. CASE delta = 0
    BY <1>1 DEF WheelStep
  <1>2. CASE delta # 0
    <2>1. WheelStep(h, x, delta) = e
      BY <1>2 DEF WheelStep
    <2>2. button \in Mask /\ button \in {"up", "down"}
      BY DEF Mask
    <2> HIDE DEF button
    <2>3. Clicked(h, TRUE, button, g)
      BY <2>2, MouseButtonClicks
    <2>4. HandsShape(g)
      BY <2>3 DEF Clicked
    <2>5. Clicked(g, FALSE, button, e)
      BY <2>2, <2>4, MouseButtonClicks
    <2>6. ASSUME TellsTruth(h), ~h.pointer.dragging,
                 h.pointer.mask \cap {"up", "down"} = {}
          PROVE  TellsTruth(e) /\ e.pointer.mask = h.pointer.mask
      <3>1. CASE rfb.drag
        <4>1. h.pointer.mask = {}
          BY <2>6, <3>1 DEF TellsTruth, Told
        <4>2. TellsTruth(g) /\ g.pointer.mask = {button}
          <5>1. PICK b \in Mask : b = button
            BY <2>2
          <5>2. /\ TellsTruth(MouseButton(h, x, TRUE, b))
                /\ MouseButton(h, x, TRUE, b).pointer.mask = {b}
            BY <2>6, <4>1, <5>1, PressTold
          <5>3. QED
            BY <5>1, <5>2
        <4> HIDE DEF g
        <4>3. TellsTruth(e) /\ e.pointer.mask = {}
          BY <2>2, <2>4, <4>2, ReleaseTold
        <4> QED BY <4>1, <4>3
      <3>2. CASE ~rfb.drag
        <4> HIDE DEF g, e
        <4>1. ~g.pointer.dragging /\ g.pointer.mask = h.pointer.mask \cup {button}
          BY <2>3, <2>6, <3>2 DEF Clicked
        <4>2. ~e.pointer.dragging /\ e.pointer.mask = g.pointer.mask \ {button}
                /\ e.guest.mask = e.pointer.mask
          BY <2>5, <3>2, <4>1 DEF Clicked
        <4>3. e.pointer.mask = h.pointer.mask
          BY <2>2, <2>6, <4>1, <4>2
        <4> QED BY <2>5, <3>2, <4>2, <4>3
                DEF TellsTruth, Told, Clicked, HandsShape, PointerType
      <3> QED BY <3>1, <3>2
    <2> HIDE DEF g, e
    <2> QED BY <2>1, <2>3, <2>5, <2>6 DEF Clicked
  <1> QED BY <1>1, <1>2

\* A move changes no button, and a drag leaves a sound display.
LEMMA MoveTold ==
  ASSUME NEW h, HandsShape(h), Sound(h.display), NEW x \in Int
  PROVE  LET e == HandleMouseMove(h, x)
         IN /\ HandsShape(e) /\ Sound(e.display) /\ SameView(h.display, e.display)
            /\ e.pointer.mask = h.pointer.mask
            /\ (TellsTruth(h) /\ ~rfb.viewOnly) => TellsTruth(e)
  <1> DEFINE d == ViewportChangePos(h.display, h.pointer.from - x)
             e == [h EXCEPT !.pointer.moved = TRUE, !.pointer.from = x,
                            !.display = d]
  <1>1. CASE ~h.pointer.dragging
    BY <1>1 DEF HandleMouseMove, PointerEvent, HandsShape, SameView, TellsTruth, Told
  <1>2. CASE h.pointer.dragging /\ HandleMouseMove(h, x) = h
    BY <1>2 DEF SameView
  <1>3. CASE h.pointer.dragging /\ HandleMouseMove(h, x) = e
    <2>1. Sound(d) /\ SameMode(h.display, d)
      <3>1. h.pointer.from - x \in Int
        BY DEF HandsShape, PointerType
      <3> QED BY <3>1, MoveSound
    <2> HIDE DEF d
    <2>2. /\ HandsShape(e) /\ e.display = d /\ e.guest = h.guest
          /\ e.pointer.mask = h.pointer.mask
          /\ e.pointer.dragging = h.pointer.dragging
      BY DEF HandsShape, PointerType
    <2> HIDE DEF e
    <2> QED BY <1>3, <2>1, <2>2 DEF SameView, SameMode, TellsTruth, Told
  <1> QED BY <1>1, <1>2, <1>3 DEF HandleMouseMove
PointerInv == ViewInv /\ HandsInv

\* A step that paints or moves, and leaves everything else of the view.
LEMMA ViewUndisturbed ==
  ASSUME ViewInv, Sound(display'), SameView(display, display'),
         UNCHANGED <<rfb, ui, window, server>>
  PROVE  ViewInv'
  <1>1. Aligned(display, rfb)' /\ (~window.frame => Fitted(display, rfb, window.size))'
    BY ViewKept DEF ViewInv
  <1> QED BY <1>1 DEF ViewInv, ViewTyped, InStep, Chosen, GuestAskedToFit

\* What the handlers find, and where they place the pointer.
LEMMA HandsAre ==
  ASSUME PointerInv
  PROVE  /\ HandsShape(Hands) /\ Hands.display = display /\ Hands.pointer = pointer
         /\ Hands.guest = guest /\ Sound(display)
         /\ rfb.drag \in BOOLEAN /\ rfb.viewOnly \in BOOLEAN
         /\ \A x \in Int : MousePosition(x) \in Int
         /\ hand.at \in Int
  <1>1. HandsShape(Hands) /\ Hands.display = display /\ Hands.pointer = pointer
          /\ Hands.guest = guest
    BY DEF PointerInv, HandsInv, HandsTyped, MouseType, HandsShape, Hands
  <1>2. Sound(display) /\ rfb.drag \in BOOLEAN /\ rfb.viewOnly \in BOOLEAN
    BY DEF PointerInv, ViewInv, ViewTyped, Session
  <1>3. \A x \in Int : MousePosition(x) \in Int
    <2>1. display.shown[1] \in Int /\ display.shown[2] \in Nat \ {0}
      BY <1>2 DEF Sound, Formed
    <2>2. display.shown[1] \div display.shown[2] \in Int
      BY <2>1
    <2> QED BY <2>2 DEF MousePosition
  <1>4. hand.at \in Int
    BY DEF PointerInv, HandsInv, HandsTyped, MouseType
  <1> QED BY <1>1, <1>2, <1>3, <1>4

\* An unchanged display is the same view.
LEMMA SameIsSame == ASSUME NEW d PROVE SameView(d, d)
  BY DEF SameView

\* A button goes down: the only one held, or an exception.
LEMMA MouseDownKeeps ==
  ASSUME PointerInv, NEW button \in Buttons, HandleMouseDown(button)
  PROVE  PointerInv'
  <1> DEFINE x == MousePosition(hand.at)
             e == MouseButton(Hands, x, TRUE, button)
  <1>1. /\ button \notin hand.pressed /\ ~hand.touching
        /\ hand' = [hand EXCEPT !.pressed = @ \cup {button}]
        /\ why' = IF hand.pressed # {} THEN why \cup {"two buttons"} ELSE why
        /\ mouse' = mouse /\ UNCHANGED <<rfb, ui, window, server>>
    BY DEF HandleMouseDown, Because, RestOfPage
  <1>2. x \in Int /\ button \in Mask
    BY HandsAre DEF Mask
  <1>3. /\ hand' \in [pressed : SUBSET Buttons, touching : BOOLEAN, at : Int]
        /\ hand'.touching = FALSE /\ hand'.pressed = hand.pressed \cup {button}
    BY <1>1 DEF PointerInv, HandsInv, HandsTyped, MouseType
  <1>4. CASE Inside(hand.at) /\ ~capture /\ ~rfb.viewOnly
    <2>1. /\ capture' = TRUE /\ pointer' = e.pointer /\ guest' = e.guest
          /\ display' = e.display
      BY <1>4 DEF HandleMouseDown, SetCapture, Handled
    <2>2. Clicked(Hands, TRUE, button, e)
      BY <1>2, HandsAre, MouseButtonClicks
    <2>3. HandsShape(e) /\ e.display = display
      BY <2>2, HandsAre DEF Clicked
    <2>4. ViewInv'
      BY <1>1, <2>1, <2>3, ViewUndisturbed, SameIsSame, HandsAre DEF PointerInv
    <2>5. ASSUME why' = {} PROVE Orderly'
      <3>1. hand.pressed = {} /\ why = {} /\ pointer.mask = {}
              /\ TellsTruth(Hands)
        <4>1. hand.pressed = {} /\ why = {}
          BY <1>1, <2>5
        <4> QED BY <1>1, <1>4, <4>1, HandsAre
                DEF PointerInv, HandsInv, Orderly, Held, TellsTruth
      <3>2. TellsTruth(e) /\ e.pointer.mask = {button}
        BY <1>2, <1>4, <3>1, HandsAre, PressTold
      <3> HIDE DEF e
      <3>3. hand'.pressed = {button}
        BY <1>3, <3>1
      <3> QED BY <1>1, <1>3, <1>4, <2>1, <3>2, <3>3 DEF Orderly, Held, TellsTruth
    <2> HIDE DEF e
    <2> QED BY <1>1, <1>3, <2>1, <2>3, <2>4, <2>5
            DEF PointerInv, HandsInv, HandsTyped, MouseType, HandsShape
  <1>5. CASE ~(Inside(hand.at) /\ ~capture /\ ~rfb.viewOnly)
    <2>1. UNCHANGED <<capture, pointer, guest, display>>
      BY <1>5 DEF HandleMouseDown
    <2>2. ViewInv'
      BY <1>1, <2>1, ViewUndisturbed, SameIsSame, HandsAre DEF PointerInv
    <2>3. ASSUME why' = {} PROVE Orderly'
      <3>1. hand.pressed = {} /\ why = {}
        BY <1>1, <2>3
      <3>2. Orderly /\ ~capture
        BY <3>1 DEF PointerInv, HandsInv, Orderly
      <3> QED BY <1>1, <1>3, <2>1, <3>2 DEF Orderly, Held
    <2> QED BY <1>1, <1>3, <2>1, <2>2, <2>3 DEF PointerInv, HandsInv, HandsTyped, MouseType
  <1> QED BY <1>4, <1>5

\* A button goes up, heard by the canvas, the capture element or nobody.
LEMMA MouseUpKeeps ==
  ASSUME PointerInv, NEW button \in Buttons, HandleMouseUp(button)
  PROVE  PointerInv'
  <1> DEFINE x == MousePosition(hand.at)
             e == MouseButton(Hands, x, FALSE, button)
  <1>1. /\ button \in hand.pressed /\ capture' = FALSE
        /\ hand' = [hand EXCEPT !.pressed = @ \ {button}]
        /\ UNCHANGED <<mouse, why, rfb, ui, window, server>>
    BY DEF HandleMouseUp, ReleaseCapture, RestOfPage
  <1>2. x \in Int /\ button \in Mask
    BY HandsAre DEF Mask
  <1>3. /\ hand' \in [pressed : SUBSET Buttons, touching : BOOLEAN, at : Int]
        /\ hand'.touching = hand.touching
    BY <1>1 DEF PointerInv, HandsInv, HandsTyped, MouseType
  <1>4. ASSUME why = {}
        PROVE  /\ ~hand.touching /\ pointer.mask \subseteq {button}
               /\ TellsTruth(Hands)
               /\ ~(CaptureProxy(hand.at) /\ ~rfb.viewOnly) => pointer.mask = {}
    BY <1>1, <1>4, HandsAre
       DEF PointerInv, HandsInv, Orderly, Held, TellsTruth, CaptureProxy
  <1>5. CASE CaptureProxy(hand.at) /\ ~rfb.viewOnly
    <2>1. pointer' = e.pointer /\ guest' = e.guest /\ display' = e.display
      BY <1>5 DEF HandleMouseUp, Handled
    <2>2. Clicked(Hands, FALSE, button, e)
      BY <1>2, HandsAre, MouseButtonClicks
    <2>3. HandsShape(e) /\ e.display = display
      BY <2>2, HandsAre DEF Clicked
    <2>4. ViewInv'
      BY <1>1, <2>1, <2>3, ViewUndisturbed, SameIsSame, HandsAre DEF PointerInv
    <2>5. ASSUME why' = {} PROVE Orderly'
      <3>1. TellsTruth(e) /\ e.pointer.mask = {}
        BY <1>1, <1>2, <1>4, <1>5, <2>5, HandsAre, ReleaseTold
      <3> HIDE DEF e
      <3> QED BY <1>1, <1>3, <1>4, <2>1, <2>5, <3>1 DEF Orderly, Held, TellsTruth
    <2> HIDE DEF e
    <2> QED BY <1>1, <1>3, <2>1, <2>3, <2>4, <2>5
            DEF PointerInv, HandsInv, HandsTyped, MouseType, HandsShape
  <1>6. CASE ~(CaptureProxy(hand.at) /\ ~rfb.viewOnly)
    <2>1. UNCHANGED <<pointer, guest, display>>
      BY <1>6 DEF HandleMouseUp
    <2>2. ViewInv'
      BY <1>1, <2>1, ViewUndisturbed, SameIsSame, HandsAre DEF PointerInv
    <2>3. ASSUME why' = {} PROVE Orderly'
      BY <1>1, <1>3, <1>4, <1>6, <2>1, <2>3, HandsAre DEF Orderly, Held, TellsTruth
    <2> QED BY <1>1, <1>3, <2>1, <2>2, <2>3 DEF PointerInv, HandsInv, HandsTyped, MouseType
  <1> QED BY <1>5, <1>6

\* Places are numbers, as there is a largest size.
LEMMA PlaceIsInt == ASSUME NEW x \in Places PROVE x \in Int
  <1> DEFINE n == CHOOSE n \in Sizes : \A m \in Sizes : m <= n
  <1>1. n \in Sizes
    BY LargestAssumption
  <1>2. n \in Nat
    BY <1>1, SizeIsNat
  <1> HIDE DEF n
  <1>3. x \in 0 .. n
    BY DEF Places, n
  <1> QED BY <1>2, <1>3

\* The pointer moves, perhaps dragging the viewport.
LEMMA MouseMovesKeeps ==
  ASSUME PointerInv, NEW x \in Places, MouseMoves(x) PROVE PointerInv'
  <1> DEFINE e == HandleMouseMove(Hands, MousePosition(x))
  <1>1. /\ hand' = [hand EXCEPT !.at = x]
        /\ UNCHANGED <<mouse, capture, why, rfb, ui, window, server>>
    BY DEF MouseMoves, RestOfPage
  <1>2. x \in Int /\ MousePosition(x) \in Int
    BY PlaceIsInt, HandsAre
  <1>3. /\ hand' \in [pressed : SUBSET Buttons, touching : BOOLEAN, at : Int]
        /\ hand'.touching = hand.touching /\ hand'.pressed = hand.pressed
    BY <1>1, <1>2 DEF PointerInv, HandsInv, HandsTyped, MouseType
  <1>4. CASE CaptureProxy(x) /\ ~rfb.viewOnly
    <2>1. pointer' = e.pointer /\ guest' = e.guest /\ display' = e.display
      BY <1>4 DEF MouseMoves, Handled
    <2>2. /\ HandsShape(e) /\ Sound(e.display) /\ SameView(display, e.display)
          /\ e.pointer.mask = pointer.mask
          /\ TellsTruth(Hands) => TellsTruth(e)
      BY <1>2, <1>4, HandsAre, MoveTold
    <2> HIDE DEF e
    <2>3. ViewInv'
      BY <1>1, <2>1, <2>2, ViewUndisturbed DEF PointerInv
    <2>4. ASSUME why' = {} PROVE Orderly'
      <3>1. Orderly /\ TellsTruth(Hands)
        BY <1>1, <2>4, HandsAre DEF PointerInv, HandsInv, Orderly, TellsTruth
      <3> QED BY <1>1, <1>3, <2>1, <2>2, <3>1 DEF Orderly, Held, TellsTruth
    <2> QED BY <1>1, <1>3, <2>1, <2>2, <2>3, <2>4
            DEF PointerInv, HandsInv, HandsTyped, MouseType, HandsShape
  <1>5. CASE ~(CaptureProxy(x) /\ ~rfb.viewOnly)
    <2>1. UNCHANGED <<pointer, guest, display>>
      BY <1>5 DEF MouseMoves
    <2>2. ViewInv'
      BY <1>1, <2>1, ViewUndisturbed, SameIsSame, HandsAre DEF PointerInv
    <2> QED BY <1>1, <1>3, <2>1, <2>2
            DEF PointerInv, HandsInv, HandsTyped, MouseType, Orderly, Held
  <1> QED BY <1>4, <1>5
\* A touch is a press of the touch button.
LEMMA TouchStartKeeps == ASSUME PointerInv, TouchStart PROVE PointerInv'
  <1> DEFINE x == MousePosition(hand.at)
             again == mouse.tapped /\ Near(mouse.lastTouch, x, 2 * DragThreshold)
             y == IF again THEN mouse.lastTouch ELSE x
             e == MouseButton(Hands, y, TRUE, mouse.touchButton)
  <1>1. /\ hand.pressed = {} /\ ~hand.touching
        /\ hand' = [hand EXCEPT !.touching = TRUE]
        /\ UNCHANGED <<capture, why, rfb, ui, window, server>>
    BY DEF TouchStart, RestOfPage
  <1>2. /\ y \in Int /\ x \in Int /\ mouse.touchButton \in Mask
        /\ mouse.touchButton \in Buttons \cup {"left"}
    BY HandsAre DEF Mask, PointerInv, HandsInv, HandsTyped, MouseType
  <1>3. /\ hand' \in [pressed : SUBSET Buttons, touching : BOOLEAN, at : Int]
        /\ hand'.touching /\ hand'.pressed = {}
    BY <1>1 DEF PointerInv, HandsInv, HandsTyped, MouseType
  <1>4. ASSUME why = {}
        PROVE  ~capture /\ pointer.mask = {} /\ TellsTruth(Hands)
    BY <1>1, <1>4, HandsAre DEF PointerInv, HandsInv, Orderly, Held, TellsTruth
  <1>5. CASE rfb.viewOnly
    <2>1. UNCHANGED <<mouse, pointer, guest, display>>
      BY <1>5 DEF TouchStart
    <2>2. ViewInv'
      BY <1>1, <2>1, ViewUndisturbed, SameIsSame, HandsAre DEF PointerInv
    <2>3. ASSUME why' = {} PROVE Orderly'
      BY <1>1, <1>3, <1>4, <1>5, <2>1, <2>3, HandsAre DEF Orderly, Held, TellsTruth
    <2> QED BY <1>1, <1>3, <2>1, <2>2, <2>3 DEF PointerInv, HandsInv, HandsTyped, MouseType
  <1>6. CASE ~rfb.viewOnly
    <2>1. /\ pointer' = e.pointer /\ guest' = e.guest /\ display' = e.display
          /\ mouse' = [mouse EXCEPT !.tapped = TRUE,
                         !.lastTouch = IF mouse.tapped THEN @ ELSE x]
      BY <1>6 DEF TouchStart, Handled
    <2>2. Clicked(Hands, TRUE, mouse.touchButton, e)
      BY <1>2, HandsAre, MouseButtonClicks
    <2>3. HandsShape(e) /\ e.display = display
      BY <2>2, HandsAre DEF Clicked
    <2>4. ViewInv'
      BY <1>1, <2>1, <2>3, ViewUndisturbed, SameIsSame, HandsAre DEF PointerInv
    <2>5. /\ mouse' \in MouseType
          /\ mouse'.touchButton = mouse.touchButton
          /\ mouse'.wheelTimer = mouse.wheelTimer
      BY <1>2, <2>1 DEF PointerInv, HandsInv, HandsTyped, MouseType
    <2>6. ASSUME why' = {} PROVE Orderly'
      <3> HIDE DEF y
      <3>0. HandsShape(Hands) /\ TellsTruth(Hands) /\ Hands.pointer.mask = {}
              /\ ~capture
        BY <1>1, <1>4, <2>6, HandsAre
      <3>1. TellsTruth(e) /\ e.pointer.mask = {mouse.touchButton}
        <4> DEFINE b == mouse.touchButton
        <4>1. b \in Mask
          BY <1>2
        <4>2. e = MouseButton(Hands, y, TRUE, b)
          OBVIOUS
        <4> HIDE DEF b, e
        <4>3. TellsTruth(MouseButton(Hands, y, TRUE, b))
                /\ MouseButton(Hands, y, TRUE, b).pointer.mask = {b}
          BY <1>2, <1>6, <3>0, <4>1, HandsAre, PressTold
        <4> QED BY <4>2, <4>3 DEF b
      <3> HIDE DEF e
      <3> QED BY <1>1, <1>3, <1>4, <1>6, <2>1, <2>5, <2>6, <3>1
              DEF Orderly, Held, TellsTruth
    <2> HIDE DEF e
    <2> QED BY <1>1, <1>3, <2>1, <2>3, <2>4, <2>5, <2>6
            DEF PointerInv, HandsInv, HandsTyped, MouseType, HandsShape
  <1> QED BY <1>5, <1>6

\* And its end the release.
LEMMA TouchEndKeeps == ASSUME PointerInv, TouchEnd PROVE PointerInv'
  <1> DEFINE e == MouseButton(Hands, MousePosition(hand.at), FALSE, mouse.touchButton)
  <1>1. /\ hand.touching /\ hand' = [hand EXCEPT !.touching = FALSE]
        /\ UNCHANGED <<mouse, capture, why, rfb, ui, window, server>>
    BY DEF TouchEnd, RestOfPage
  <1>2. MousePosition(hand.at) \in Int /\ mouse.touchButton \in Mask
    BY HandsAre DEF Mask, PointerInv, HandsInv, HandsTyped, MouseType
  <1>3. /\ hand' \in [pressed : SUBSET Buttons, touching : BOOLEAN, at : Int]
        /\ hand'.touching = FALSE /\ hand'.pressed = hand.pressed
    BY <1>1 DEF PointerInv, HandsInv, HandsTyped, MouseType
  <1>4. ASSUME why = {}
        PROVE  /\ ~capture /\ pointer.mask \subseteq {mouse.touchButton}
               /\ TellsTruth(Hands) /\ (rfb.viewOnly => pointer.mask = {})
    BY <1>1, <1>4, HandsAre DEF PointerInv, HandsInv, Orderly, Held, TellsTruth
  <1>5. CASE rfb.viewOnly
    <2>1. UNCHANGED <<pointer, guest, display>>
      BY <1>5 DEF TouchEnd
    <2>2. ViewInv'
      BY <1>1, <2>1, ViewUndisturbed, SameIsSame, HandsAre DEF PointerInv
    <2>3. ASSUME why' = {} PROVE Orderly'
      BY <1>1, <1>3, <1>4, <1>5, <2>1, <2>3, HandsAre DEF Orderly, Held, TellsTruth
    <2> QED BY <1>1, <1>3, <2>1, <2>2, <2>3 DEF PointerInv, HandsInv, HandsTyped, MouseType
  <1>6. CASE ~rfb.viewOnly
    <2>1. pointer' = e.pointer /\ guest' = e.guest /\ display' = e.display
      BY <1>6 DEF TouchEnd, Handled
    <2>2. Clicked(Hands, FALSE, mouse.touchButton, e)
      BY <1>2, HandsAre, MouseButtonClicks
    <2>3. HandsShape(e) /\ e.display = display
      BY <2>2, HandsAre DEF Clicked
    <2>4. ViewInv'
      BY <1>1, <2>1, <2>3, ViewUndisturbed, SameIsSame, HandsAre DEF PointerInv
    <2>5. ASSUME why' = {} PROVE Orderly'
      <3>1. TellsTruth(e) /\ e.pointer.mask = {}
        BY <1>1, <1>2, <1>4, <1>6, <2>5, HandsAre, ReleaseTold
      <3> HIDE DEF e
      <3> QED BY <1>1, <1>3, <1>4, <1>6, <2>1, <2>5, <3>1 DEF Orderly, Held, TellsTruth
    <2> HIDE DEF e
    <2> QED BY <1>1, <1>3, <2>1, <2>3, <2>4, <2>5
            DEF PointerInv, HandsInv, HandsTyped, MouseType, HandsShape
  <1> QED BY <1>5, <1>6

\* The time for a second touch is over.
LEMMA TapForgottenKeeps == ASSUME PointerInv, ResetDoubleClickTimer PROVE PointerInv'
  <1>1. /\ mouse' = [mouse EXCEPT !.tapped = FALSE]
        /\ UNCHANGED <<pointer, hand, capture, guest, why, display>>
        /\ UNCHANGED <<rfb, ui, window, server>>
    BY DEF ResetDoubleClickTimer, RestOfPage
  <1>2. ViewInv'
    BY <1>1, ViewUndisturbed, SameIsSame, HandsAre DEF PointerInv
  <1> QED BY <1>1, <1>2 DEF PointerInv, HandsInv, HandsTyped, MouseType, Orderly, Held

\* The fields of the wheel may be set.
LEMMA MouseSet ==
  ASSUME mouse \in MouseType, NEW n \in Int, NEW timer \in BOOLEAN, NEW x \in Int,
         \/ mouse' = [mouse EXCEPT !.wheel = n, !.wheelTimer = timer, !.pos = x]
         \/ mouse' = [mouse EXCEPT !.wheel = n, !.wheelTimer = timer]
  PROVE  /\ mouse' \in MouseType /\ mouse'.touchButton = mouse.touchButton
         /\ mouse'.wheelTimer = timer
  BY DEF MouseType

\* Both ways a step of the wheel is made.
LEMMA WheelKeeps ==
  ASSUME PointerInv, ~rfb.viewOnly, NEW x \in Int, NEW delta \in Int,
         LET e == WheelStep(Hands, x, delta)
         IN pointer' = e.pointer /\ guest' = e.guest /\ display' = e.display,
         why' = IF pointer.dragging THEN why \cup {"wheel"} ELSE why,
         UNCHANGED <<hand, capture, rfb, ui, window, server>>,
         mouse' \in MouseType,
         mouse'.touchButton = mouse.touchButton
  PROVE  PointerInv'
  <1> DEFINE e == WheelStep(Hands, x, delta)
  <1>1. /\ HandsShape(e) /\ e.display = display
        /\ (TellsTruth(Hands) /\ ~pointer.dragging
              /\ pointer.mask \cap {"up", "down"} = {}) =>
             TellsTruth(e) /\ e.pointer.mask = pointer.mask
    BY HandsAre, WheelTold
  <1>2. pointer' = e.pointer /\ guest' = e.guest /\ display' = e.display
    OBVIOUS
  <1> HIDE DEF e
  <1>3. ViewInv'
    BY <1>1, <1>2, ViewUndisturbed, SameIsSame, HandsAre DEF PointerInv
  <1>4. ASSUME why' = {} PROVE Orderly'
    <2>1. why = {} /\ ~pointer.dragging
      BY <1>4
    <2>2. Orderly /\ TellsTruth(Hands)
      BY <2>1, HandsAre DEF PointerInv, HandsInv, Orderly, TellsTruth
    <2>3. pointer.mask \subseteq Buttons \cup {"left"}
      BY <2>2 DEF Orderly, Held, PointerInv, HandsInv, HandsTyped, MouseType
    <2>4. pointer.mask \cap {"up", "down"} = {}
      BY <2>3, ButtonsAssumption
    <2>5. TellsTruth(e) /\ e.pointer.mask = pointer.mask
      BY <1>1, <2>1, <2>2, <2>4
    <2> QED BY <1>2, <2>2, <2>5 DEF Orderly, Held, TellsTruth
  <1> QED BY <1>1, <1>2, <1>3, <1>4
          DEF PointerInv, HandsInv, HandsTyped, MouseType, HandsShape

\* The wheel turns.
LEMMA MouseWheelKeeps ==
  ASSUME PointerInv, NEW delta \in {-1, 1}, HandleMouseWheel(delta)
  PROVE  PointerInv'
  <1> DEFINE sum == mouse.wheel + delta
             full == sum \notin {-1, 0, 1}
             x == MousePosition(hand.at)
  <1>1. /\ ~rfb.viewOnly
        /\ mouse' = [mouse EXCEPT !.wheel = IF full THEN 0 ELSE sum,
                                  !.wheelTimer = ~full, !.pos = x]
        /\ why' = IF pointer.dragging THEN why \cup {"wheel"} ELSE why
        /\ UNCHANGED <<hand, capture, rfb, ui, window, server>>
    BY DEF HandleMouseWheel, Because, RestOfPage
  <1>2. sum \in Int /\ x \in Int /\ full \in BOOLEAN
    BY HandsAre DEF PointerInv, HandsInv, HandsTyped, MouseType
  <1>3. CASE full
    <2>1. LET e == WheelStep(Hands, x, sum)
          IN pointer' = e.pointer /\ guest' = e.guest /\ display' = e.display
      BY <1>3 DEF HandleMouseWheel, Handled
    <2> HIDE DEF sum, full, x
    <2>2. /\ mouse' \in MouseType
          /\ mouse'.touchButton = mouse.touchButton
          /\ mouse'.wheelTimer => ~rfb.viewOnly
      <3> DEFINE n == IF full THEN 0 ELSE sum
                 timer == ~full
      <3>1. mouse \in MouseType
        BY DEF PointerInv, HandsInv, HandsTyped
      <3>2. mouse' = [mouse EXCEPT !.wheel = n, !.wheelTimer = timer, !.pos = x]
        BY <1>1
      <3>3. n \in Int /\ timer \in BOOLEAN
        BY <1>2
      <3> HIDE DEF n, timer
      <3> QED BY <1>1, <1>2, <3>1, <3>2, <3>3, MouseSet
    <2> QED BY <1>1, <1>2, <2>1, <2>2, WheelKeeps
  <1>4. CASE ~full
    <2>1. UNCHANGED <<pointer, guest, display>>
      BY <1>4 DEF HandleMouseWheel
    <2> HIDE DEF sum, full, x
    <2>2. /\ mouse' \in MouseType
          /\ mouse'.touchButton = mouse.touchButton
          /\ mouse'.wheelTimer => ~rfb.viewOnly
      <3> DEFINE n == IF full THEN 0 ELSE sum
                 timer == ~full
      <3>1. mouse \in MouseType
        BY DEF PointerInv, HandsInv, HandsTyped
      <3>2. mouse' = [mouse EXCEPT !.wheel = n, !.wheelTimer = timer, !.pos = x]
        BY <1>1
      <3>3. n \in Int /\ timer \in BOOLEAN
        BY <1>2
      <3> HIDE DEF n, timer
      <3> QED BY <1>1, <1>2, <3>1, <3>2, <3>3, MouseSet
    <2>3. ViewInv'
      BY <1>1, <2>1, ViewUndisturbed, SameIsSame, HandsAre DEF PointerInv
    <2> QED BY <1>1, <2>1, <2>2, <2>3
            DEF PointerInv, HandsInv, HandsTyped, MouseType, Orderly, Held
  <1> QED BY <1>3, <1>4

\* The delayed step of the wheel.
LEMMA WheelStepKeeps == ASSUME PointerInv, GenerateWheelStep PROVE PointerInv'
  <1>1. /\ mouse' = [mouse EXCEPT !.wheel = 0, !.wheelTimer = FALSE]
        /\ why' = IF pointer.dragging THEN why \cup {"wheel"} ELSE why
        /\ UNCHANGED <<hand, capture, rfb, ui, window, server>>
    BY DEF GenerateWheelStep, Because, RestOfPage
  <1>2. LET e == WheelStep(Hands, mouse.pos, mouse.wheel)
        IN pointer' = e.pointer /\ guest' = e.guest /\ display' = e.display
    BY DEF GenerateWheelStep, Handled
  <1>3. mouse.pos \in Int /\ mouse.wheel \in Int /\ ~rfb.viewOnly
    BY DEF GenerateWheelStep, PointerInv, HandsInv, HandsTyped, MouseType
  <1>4. /\ mouse' \in MouseType
        /\ mouse'.touchButton = mouse.touchButton
    <2> DEFINE n == 0
               timer == FALSE
    <2>1. mouse \in MouseType
      BY DEF PointerInv, HandsInv, HandsTyped
    <2>2. mouse' = [mouse EXCEPT !.wheel = n, !.wheelTimer = timer]
      BY <1>1
    <2>3. n \in Int /\ timer \in BOOLEAN
      OBVIOUS
    <2> HIDE DEF n, timer
    <2> QED BY <2>1, <2>2, <2>3, MouseSet
  <1> QED BY <1>1, <1>2, <1>3, <1>4, WheelKeeps
\* A change of the session's properties that the screen does not see.
LEMMA PropertyKeeps ==
  ASSUME ViewInv, rfb' \in Session, UNCHANGED <<display, ui, window, server>>,
         rfb'.clip = rfb.clip, rfb'.scale = rfb.scale, rfb'.resize = rfb.resize,
         rfb'.timer = rfb.timer, rfb'.drag => rfb.clip,
         rfb'.viewOnly => rfb'.beenViewOnly,
         rfb'.beenViewOnly \/ (rfb'.beenViewOnly = rfb.beenViewOnly)
  PROVE  ViewInv'
  BY DEF ViewInv, ViewTyped, InStep, Chosen, Aligned, Fitted, GuestAskedToFit, Session

\* Drag mode is switched with nothing held, or it is an exception.
LEMMA ViewDragKeeps == ASSUME PointerInv, ToggleViewDrag PROVE PointerInv'
  <1>1. /\ rfb' = [rfb EXCEPT !.drag = ~rfb.drag /\ rfb.clip]
        /\ why' = IF pointer.dragging \/ pointer.mask # {}
                    THEN why \cup {"drag mode"} ELSE why
        /\ UNCHANGED <<mouse, pointer, hand, capture, guest>>
        /\ UNCHANGED <<display, ui, window, server>>
    BY DEF ToggleViewDrag, Because
  <1>2. /\ rfb' \in Session /\ rfb'.clip = rfb.clip /\ rfb'.scale = rfb.scale
        /\ rfb'.resize = rfb.resize /\ rfb'.timer = rfb.timer
        /\ rfb'.viewOnly = rfb.viewOnly /\ rfb'.beenViewOnly = rfb.beenViewOnly
        /\ rfb'.drag => rfb.clip
    BY <1>1 DEF PointerInv, ViewInv, ViewTyped, Session
  <1>3. ViewInv'
    BY <1>1, <1>2, PropertyKeeps DEF PointerInv, ViewInv, InStep
  <1>4. ASSUME why' = {} PROVE Orderly'
    <2>1. why = {} /\ ~pointer.dragging /\ pointer.mask = {}
      BY <1>1, <1>4
    <2> QED BY <1>1, <1>2, <2>1 DEF PointerInv, HandsInv, Orderly, Held, Told
  <1> QED BY <1>1, <1>2, <1>3, <1>4 DEF PointerInv, HandsInv, HandsTyped

\* And so is view only.
LEMMA ViewOnlyKeeps == ASSUME PointerInv, UpdateViewOnly PROVE PointerInv'
  <1>1. /\ rfb' = [rfb EXCEPT !.viewOnly = ~@, !.beenViewOnly = TRUE]
        /\ mouse' = IF rfb.viewOnly THEN mouse
                    ELSE [mouse EXCEPT !.wheelTimer = FALSE]
        /\ why' = IF hand.touching \/ hand.pressed # {}
                    THEN why \cup {"view only"} ELSE why
        /\ UNCHANGED <<pointer, hand, capture, guest>>
        /\ UNCHANGED <<display, ui, window, server>>
    BY DEF UpdateViewOnly, Because
  <1>2. /\ rfb' \in Session /\ rfb'.clip = rfb.clip /\ rfb'.scale = rfb.scale
        /\ rfb'.resize = rfb.resize /\ rfb'.timer = rfb.timer
        /\ rfb'.drag = rfb.drag /\ rfb'.viewOnly = ~rfb.viewOnly
        /\ rfb'.beenViewOnly
    BY <1>1 DEF PointerInv, ViewInv, ViewTyped, Session
  <1>3. ViewInv'
    BY <1>1, <1>2, PropertyKeeps DEF PointerInv, ViewInv, InStep
  <1>4. mouse' \in MouseType /\ (mouse'.wheelTimer => rfb.viewOnly)
    BY <1>1 DEF PointerInv, HandsInv, HandsTyped, MouseType
  <1>5. ASSUME why' = {} PROVE Orderly'
    <2>1. why = {} /\ ~hand.touching /\ hand.pressed = {}
      BY <1>1, <1>5
    <2>2. Orderly /\ ~capture
      BY <2>1 DEF PointerInv, HandsInv, Orderly
    <2> QED BY <1>1, <1>2, <2>1, <2>2 DEF Orderly, Held
  <1> QED BY <1>1, <1>2, <1>3, <1>4, <1>5 DEF PointerInv, HandsInv, HandsTyped

\* And the choice of a touch button.
LEMMA TouchButtonKeeps ==
  ASSUME PointerInv, NEW button \in Buttons, SetMouseButton(button)
  PROVE  PointerInv'
  <1>1. /\ mouse' = [mouse EXCEPT !.touchButton = button]
        /\ why' = IF hand.touching THEN why \cup {"touch button"} ELSE why
        /\ UNCHANGED <<pointer, hand, capture, guest>>
        /\ UNCHANGED <<display, rfb, ui, window, server>>
    BY DEF SetMouseButton, Because
  <1>2. ViewInv'
    BY <1>1, ViewUndisturbed, SameIsSame, HandsAre DEF PointerInv
  <1>3. mouse' \in MouseType /\ mouse'.wheelTimer = mouse.wheelTimer
    BY <1>1 DEF PointerInv, HandsInv, HandsTyped, MouseType
  <1>4. ASSUME why' = {} PROVE Orderly'
    <2>1. why = {} /\ ~hand.touching
      BY <1>1, <1>4
    <2> QED BY <1>1, <2>1 DEF PointerInv, HandsInv, Orderly, Held
  <1> QED BY <1>1, <1>2, <1>3, <1>4 DEF PointerInv, HandsInv, HandsTyped

\* The screen changes, which may end the drag mode.
LEMMA ScreenActionKeeps == ASSUME PointerInv, Screen PROVE PointerInv'
  <1>1. /\ ScreenNext
        /\ why' = IF rfb.drag /\ ~rfb'.drag /\ pointer.dragging
                    THEN why \cup {"drag mode"} ELSE why
        /\ UNCHANGED <<mouse, pointer, hand, capture, guest>>
    BY DEF Screen
  <1>2. ViewInv' /\ rfb'.viewOnly = rfb.viewOnly /\ (rfb'.drag => rfb.drag)
    BY <1>1, ScreenKeeps, ScreenLeaves DEF PointerInv
  <1>3. rfb.drag \in BOOLEAN /\ rfb'.drag \in BOOLEAN
    BY <1>2 DEF PointerInv, ViewInv, ViewTyped, Session
  <1>4. ASSUME why' = {} PROVE Orderly'
    <2>1. why = {} /\ ~(rfb.drag /\ ~rfb'.drag /\ pointer.dragging)
      BY <1>1, <1>4
    <2>2. Orderly
      BY <2>1 DEF PointerInv, HandsInv
    <2>3. Told(pointer, guest.mask, rfb'.drag)
      BY <1>2, <1>3, <2>1, <2>2 DEF Orderly, Told
    <2> QED BY <1>1, <1>2, <2>2, <2>3 DEF Orderly, Held
  <1> QED BY <1>1, <1>2, <1>4 DEF PointerInv, HandsInv, HandsTyped

-----------------------------------------------------------------------------
(* The theorems.                                                           *)

\* The invariant holds at the start.
LEMMA InitInv == ScreenInit /\ PointerInit => PointerInv
  <1> SUFFICES ASSUME ScreenInit, PointerInit PROVE PointerInv
    OBVIOUS
  <1>1. ViewInv
    BY ScreenInitKeeps
  <1>2. HandsTyped /\ ~mouse.wheelTimer
    <2> DEFINE n == 0
               p == FALSE
    <2>1. n \in Int /\ p \in BOOLEAN /\ ~p
      OBVIOUS
    <2>2. mouse = [touchButton |-> "left", tapped |-> p, lastTouch |-> n,
                   wheel |-> n, wheelTimer |-> p, pos |-> n]
      BY DEF PointerInit
    <2>3. pointer = [mask |-> {}, dragging |-> p, moved |-> p, from |-> n]
      BY DEF PointerInit
    <2>4. hand = [pressed |-> {}, touching |-> p, at |-> n] /\ capture = p
      BY DEF PointerInit
    <2> HIDE DEF n, p
    <2>5. mouse \in MouseType /\ ~mouse.wheelTimer
      BY <2>1, <2>2 DEF MouseType
    <2>6. pointer \in PointerType
      BY <2>1, <2>3 DEF PointerType
    <2> QED BY <2>1, <2>4, <2>5, <2>6 DEF HandsTyped
  <1>3. Orderly
    <2>1. pointer.mask = {} /\ pointer.dragging = FALSE /\ guest.mask = {}
          /\ hand.touching = FALSE /\ hand.pressed = {} /\ capture = FALSE
      BY DEF PointerInit
    <2> QED BY <2>1 DEF Orderly, Held, Told
  <1> QED BY <1>1, <1>2, <1>3 DEF PointerInv, HandsInv

\* Every step keeps the invariant.
LEMMA StepInv ==
  PointerInv /\ [PointerNext]_<<screenVars, pointerVars>> => PointerInv'
  <1> SUFFICES ASSUME PointerInv, [PointerNext]_<<screenVars, pointerVars>>
               PROVE  PointerInv'
    OBVIOUS
  <1>1. ASSUME NEW button \in Buttons, HandleMouseDown(button) PROVE PointerInv'
    BY <1>1, MouseDownKeeps
  <1>2. ASSUME NEW button \in Buttons, HandleMouseUp(button) PROVE PointerInv'
    BY <1>2, MouseUpKeeps
  <1>3. ASSUME NEW x \in Places, MouseMoves(x) PROVE PointerInv'
    BY <1>3, MouseMovesKeeps
  <1>4. CASE TouchStart
    BY <1>4, TouchStartKeeps
  <1>5. CASE TouchEnd
    BY <1>5, TouchEndKeeps
  <1>6. CASE ResetDoubleClickTimer
    BY <1>6, TapForgottenKeeps
  <1>7. ASSUME NEW delta \in {-1, 1}, HandleMouseWheel(delta) PROVE PointerInv'
    BY <1>7, MouseWheelKeeps
  <1>8. CASE GenerateWheelStep
    BY <1>8, WheelStepKeeps
  <1>9. CASE ToggleViewDrag
    BY <1>9, ViewDragKeeps
  <1>10. CASE UpdateViewOnly
    BY <1>10, ViewOnlyKeeps
  <1>11. ASSUME NEW button \in Buttons, SetMouseButton(button) PROVE PointerInv'
    BY <1>11, TouchButtonKeeps
  <1>12. CASE Screen
    BY <1>12, ScreenActionKeeps
  <1>13. CASE UNCHANGED <<screenVars, pointerVars>>
    <2>1. UNCHANGED <<display, rfb, ui, window, server>>
          /\ UNCHANGED <<mouse, pointer, hand, capture, guest, why>>
      BY <1>13 DEF screenVars, pointerVars
    <2>2. ViewInv'
      BY <2>1, ViewUndisturbed, SameIsSame, HandsAre DEF PointerInv
    <2> QED BY <2>1, <2>2 DEF PointerInv, HandsInv, HandsTyped, Orderly, Held
  <1> QED BY <1>1, <1>2, <1>3, <1>4, <1>5, <1>6, <1>7, <1>8, <1>9, <1>10, <1>11,
             <1>12, <1>13 DEF PointerNext

\* The invariant always holds.
LEMMA Invariance == PointerSpec => []PointerInv
  BY InitInv, StepInv, PTL DEF PointerSpec

\* The viewport stays part of the guest's screen, and the canvas shows that
\* part as it is.
THEOREM ViewShownHolds == PointerSpec => []ViewShown
  <1>1. PointerInv => ViewShown
    BY ViewPromises DEF PointerInv
  <1> QED BY <1>1, Invariance, PTL

\* A session that resizes the guest has asked for the size the window has.
THEOREM GuestAskedToFitHolds == PointerSpec => []GuestAskedToFit
  <1>1. PointerInv => GuestAskedToFit
    BY DEF PointerInv, ViewInv
  <1> QED BY <1>1, Invariance, PTL

\* With nothing held, no button is down in the guest and no drag under way,
\* but for the exceptions.
THEOREM ButtonsReleasedHolds == PointerSpec => []ButtonsReleased
  <1>1. PointerInv => ButtonsReleased
    <2> SUFFICES ASSUME PointerInv, hand.pressed = {}, ~hand.touching, why = {}
                 PROVE  guest.mask = {} /\ pointer.mask = {} /\ ~pointer.dragging
      BY DEF ButtonsReleased
    <2>1. pointer.mask = {}
      BY DEF PointerInv, HandsInv, Orderly, Held
    <2>2. Told(pointer, guest.mask, rfb.drag)
      BY DEF PointerInv, HandsInv, Orderly
    <2> QED BY <2>1, <2>2 DEF Told
  <1> QED BY <1>1, Invariance, PTL

-----------------------------------------------------------------------------
(* The keyboard: keysyms and events.                                       *)

Codes == Chars \cup DOMAIN FixedKeys

\* A keysym that the page may have sent for the key c.
OwnSym(s, c) == /\ s # NoSym
                /\ \/ s[1] \in {c, MacSym(<<c, FALSE>>)[1]}
                   \/ c = "AltRight" /\ s = Level3

\* A keysym that an event names for the key c.
NamedSym(s, c) == OwnSym(s, c) /\ OwnSym(MacSym(s), c)

\* A character's keysym, and what a Mac makes of it, are its key's own.
LEMMA SymNamed ==
  ASSUME NEW c, NEW shift
  PROVE NamedSym(<<c, shift>>, c)
  <1>1. <<c, shift>> # NoSym /\ <<c, shift>>[1] = c
    BY DEF NoSym
  <1>2. MacSym(<<c, shift>>) = <<c, shift>> \/ shift = FALSE
    BY DEF MacSym
  <1>3. MacSym(<<c, FALSE>>) # NoSym
    BY DEF MacSym, Level3, NoSym
  <1>4. QED
    BY <1>1, <1>2, <1>3 DEF NamedSym, OwnSym

\* A browser without "key" and "code" does not name a printing key on the way
\* down.
Blind(c) == browser.legacy /\ c \in Chars

KeyEvents ==
  [type : {"keydown", "keyup", "keypress"}, code : Codes \cup {"", "OSLeft"},
   keyCode : DOMAIN Vkeys \cup {"charCode"}, shiftKey : BOOLEAN, location : {0, 2},
   key : {"", "Shift", "Control", "CapsLock", "Meta", "Alt"},
   char : SUBSET [key : Chars, shift : BOOLEAN]]

EventOK(e) ==
  CASE e.type = "blur" -> TRUE
    [] e.type = "keypress" ->
         browser.legacy /\ GetKeycode(e) = "Unidentified"
    [] OTHER -> /\ GetKeycode(e) \in Codes
                /\ IF Blind(GetKeycode(e))
                     THEN GetKeysym(e) = NoSym /\ e.keyCode = GetKeycode(e)
                     ELSE NamedSym(GetKeysym(e), GetKeycode(e))

Events == {e \in KeyEvents \cup {[type |-> "blur"]} : EventOK(e)}

\* The names of the tables, and that a printing key has none of them.
LEMMA FixedNames ==
  /\ DOMAIN FixedKeys = {"ShiftLeft", "ShiftRight", "ControlLeft", "CapsLock", "MetaLeft",
                         "AltRight"}
  /\ DOMAIN Vkeys = Chars \cup {"SHIFT", "CONTROL", "CAPITAL", "LWIN", "ALTGR"}
  /\ \A c \in Codes : c \notin {"", "OSLeft", "Unidentified"}
  /\ Chars \cap DOMAIN FixedKeys = {}
  BY KeysAssumption DEF FixedKeys, Vkeys, Codes

\* The virtual key of a key: the two Shifts have the same.
LEMMA VirtualKey ==
  ASSUME NEW k \in Codes
  PROVE LET c == IF k = "ShiftRight" THEN "ShiftLeft" ELSE k
            v == CHOOSE vk \in DOMAIN Vkeys : Vkeys[vk] = c
        IN  /\ v \in DOMAIN Vkeys /\ Vkeys[v] = c
            /\ k \in Chars => v = k
  <1> DEFINE c == IF k = "ShiftRight" THEN "ShiftLeft" ELSE k
             v == CHOOSE vk \in DOMAIN Vkeys : Vkeys[vk] = c
  <1>1. \A x \in Chars : Vkeys[x] = x
    BY KeysAssumption DEF Vkeys
  <1>2. /\ Vkeys["SHIFT"] = "ShiftLeft" /\ Vkeys["CONTROL"] = "ControlLeft"
        /\ Vkeys["CAPITAL"] = "CapsLock" /\ Vkeys["LWIN"] = "MetaLeft"
        /\ Vkeys["ALTGR"] = "AltRight"
    BY KeysAssumption DEF Vkeys
  <1>3. \E vk \in DOMAIN Vkeys : Vkeys[vk] = c
    BY <1>1, <1>2, FixedNames DEF Codes
  <1>4. v \in DOMAIN Vkeys /\ Vkeys[v] = c
    BY <1>3
  <1> HIDE DEF v
  <1>5. k \in Chars => v = k
    BY <1>1, <1>2, <1>4, FixedNames
  <1>6. QED
    BY <1>4, <1>5 DEF v

\* The fields of an event of the key k.
Says(e, type, k) ==
  /\ e \in KeyEvents /\ e.type = type
  /\ browser.legacy => e.code = ""
  /\ ~browser.legacy => e.code = IF k = "MetaLeft" THEN "OSLeft" ELSE k
  /\ type # "keypress" => /\ e.keyCode \in DOMAIN Vkeys
                          /\ Vkeys[e.keyCode] = IF k = "ShiftRight" THEN "ShiftLeft" ELSE k
                          /\ k \in Chars => e.keyCode = k
  /\ e.location = IF k \in {"ShiftRight", "AltRight"} THEN 2 ELSE 0
  /\ browser.legacy \/ k \in Chars => e.key = ""
  /\ ~browser.legacy /\ k \notin Chars => e.key = FixedKeys[k]
  /\ k \in Chars /\ (browser.legacy => type = "keypress")
       => e.char = {[key |-> k, shift |-> e.shiftKey]}
  /\ ~(k \in Chars /\ (browser.legacy => type = "keypress")) => e.char = {}

\* What the browser puts into the fields (the event of core/input/util.js).
LEMMA EventParts ==
  ASSUME NEW type \in {"keydown", "keyup", "keypress"}, NEW k \in Codes
  PROVE Says(Event(type, k), type, k)
  <1>1. PICK vk : vk = CHOOSE v \in DOMAIN Vkeys :
                         Vkeys[v] = IF k = "ShiftRight" THEN "ShiftLeft" ELSE k
    OBVIOUS
  <1>2. /\ vk \in DOMAIN Vkeys /\ Vkeys[vk] = IF k = "ShiftRight" THEN "ShiftLeft" ELSE k
        /\ k \in Chars => vk = k
    BY <1>1, VirtualKey
  <1>3. PICK shift \in BOOLEAN : shift = Shifted
    BY DEF Shifted
  <1>4. Event(type, k) =
          [type |-> type,
           code |-> IF browser.legacy THEN "" ELSE IF k = "MetaLeft" THEN "OSLeft" ELSE k,
           keyCode |-> IF type = "keypress" THEN "charCode" ELSE vk,
           shiftKey |-> shift,
           location |-> IF k \in {"ShiftRight", "AltRight"} THEN 2 ELSE 0,
           key |-> IF browser.legacy \/ k \in Chars THEN "" ELSE FixedKeys[k],
           char |-> IF k \in Chars /\ (browser.legacy => type = "keypress")
                      THEN {[key |-> k, shift |-> shift]} ELSE {}]
    BY <1>1, <1>3 DEF Event
  <1>5. k \notin Chars => FixedKeys[k] \in {"Shift", "Control", "CapsLock", "Meta", "Alt"}
    BY FixedNames DEF Codes, FixedKeys
  <1> DEFINE e == Event(type, k)
  <1> DEFINE code == IF browser.legacy THEN "" ELSE IF k = "MetaLeft" THEN "OSLeft" ELSE k
             key == IF browser.legacy \/ k \in Chars THEN "" ELSE FixedKeys[k]
             char == IF k \in Chars /\ (browser.legacy => type = "keypress")
                      THEN {[key |-> k, shift |-> shift]} ELSE {}
             keyCode == IF type = "keypress" THEN "charCode" ELSE vk
             location == IF k \in {"ShiftRight", "AltRight"} THEN 2 ELSE 0
  <1>6. /\ code \in Codes \cup {"", "OSLeft"} /\ keyCode \in DOMAIN Vkeys \cup {"charCode"}
        /\ key \in {"", "Shift", "Control", "CapsLock", "Meta", "Alt"}
        /\ location \in {0, 2}
    BY <1>2, <1>5
  <1>7. char \in SUBSET [key : Chars, shift : BOOLEAN]
    <2>1. CASE k \in Chars
      <3>1. [key |-> k, shift |-> shift] \in [key : Chars, shift : BOOLEAN]
        BY <2>1
      <3>2. char \in {{}, {[key |-> k, shift |-> shift]}}
        OBVIOUS
      <3>3. QED
        BY <3>1, <3>2
    <2>2. QED
      BY <2>1
  <1>8. e = [type |-> type, code |-> code, keyCode |-> keyCode, shiftKey |-> shift,
             location |-> location, key |-> key, char |-> char]
    BY <1>4
  <1> HIDE DEF e, code, key, char, keyCode, location
  <1>9. /\ e \in KeyEvents /\ e.type = type /\ e.code = code /\ e.key = key /\ e.char = char
        /\ e.keyCode = keyCode /\ e.location = location /\ e.shiftKey = shift
    BY <1>6, <1>7, <1>8 DEF KeyEvents
  <1>10. Says(e, type, k)
    BY <1>2, <1>9 DEF Says, code, key, char, keyCode, location
  <1>11. QED
    BY <1>10 DEF e

\* The code that an event says is that of its key.
LEMMA KeycodeSaid ==
  ASSUME NEW type \in {"keydown", "keyup"}, NEW k \in Codes
  PROVE GetKeycode(Event(type, k)) = k
  <1>1. PICK e : e = Event(type, k)
    OBVIOUS
  <1>2. Says(e, type, k)
    BY <1>1, EventParts
  <1>3. k \notin {"", "OSLeft"}
    BY FixedNames
  <1>4. CASE browser.legacy
    <2>1. e.code = "" /\ e.type # "keypress"
      BY <1>2, <1>4 DEF Says
    <2>2. GetKeycode(e) = IF e.location = 2 /\ Vkeys[e.keyCode] = "ShiftLeft"
                            THEN "ShiftRight" ELSE Vkeys[e.keyCode]
      BY <2>1 DEF GetKeycode
    <2>3. /\ Vkeys[e.keyCode] = IF k = "ShiftRight" THEN "ShiftLeft" ELSE k
          /\ e.location = IF k \in {"ShiftRight", "AltRight"} THEN 2 ELSE 0
      BY <1>2 DEF Says
    <2>4. GetKeycode(e) = k
      BY <2>2, <2>3
    <2>5. QED
      BY <1>1, <2>4
  <1>5. CASE ~browser.legacy
    <2>1. e.code = IF k = "MetaLeft" THEN "OSLeft" ELSE k
      BY <1>2, <1>5 DEF Says
    <2>2. GetKeycode(e) = k
      BY <1>3, <2>1 DEF GetKeycode
    <2>3. QED
      BY <1>1, <2>2
  <1>6. QED
    BY <1>4, <1>5

\* The keysym of a fixed key is its own, by its location.
LEMMA TableSym ==
  ASSUME NEW k \in DOMAIN FixedKeys
  PROVE /\ FixedKeys[k] \notin {"", "Unidentified"}
        /\ DOMKeyTable[FixedKeys[k]][IF k \in {"ShiftRight", "AltRight"} THEN 2 ELSE 0]
              = <<k, FALSE>>
  <1>1. /\ FixedKeys["ShiftLeft"] = "Shift" /\ FixedKeys["ShiftRight"] = "Shift"
        /\ FixedKeys["ControlLeft"] = "Control" /\ FixedKeys["CapsLock"] = "CapsLock"
        /\ FixedKeys["MetaLeft"] = "Meta" /\ FixedKeys["AltRight"] = "Alt"
    BY DEF FixedKeys
  <1>2. /\ DOMKeyTable["Shift"][0] = <<"ShiftLeft", FALSE>>
        /\ DOMKeyTable["Shift"][2] = <<"ShiftRight", FALSE>>
    <2>1. DOMKeyTable["Shift"] = [location \in {0, 1, 2, 3} |->
            <<IF location = 2 THEN "ShiftRight" ELSE "ShiftLeft", FALSE>>]
      BY DEF DOMKeyTable
    <2>2. DOMKeyTable["Shift"][0] = <<"ShiftLeft", FALSE>>
      <3>1. PICK side : side = IF 0 = 2 THEN "ShiftRight" ELSE "ShiftLeft"
        OBVIOUS
      <3>2. DOMKeyTable["Shift"][0] = <<side, FALSE>>
        BY <2>1, <3>1
      <3>3. side = "ShiftLeft"
        BY <3>1
      <3>4. QED
        BY <3>2, <3>3
    <2>3. DOMKeyTable["Shift"][2] = <<"ShiftRight", FALSE>>
      BY <2>1
    <2>4. QED
      BY <2>2, <2>3
  <1>3. DOMKeyTable["Control"][0] = <<"ControlLeft", FALSE>>
    BY DEF DOMKeyTable
  <1>4. DOMKeyTable["CapsLock"][0] = <<"CapsLock", FALSE>>
    BY DEF DOMKeyTable
  <1>5. DOMKeyTable["Meta"][0] = <<"MetaLeft", FALSE>>
    BY DEF DOMKeyTable
  <1>6. DOMKeyTable["Alt"][2] = <<"AltRight", FALSE>>
    BY DEF DOMKeyTable
  <1>7. QED
    BY <1>1, <1>2, <1>3, <1>4, <1>5, <1>6, FixedNames

\* Every event says what its key is, except that of a blind browser.
LEMMA EventSaid ==
  ASSUME NEW type \in {"keydown", "keyup"}, NEW k \in Codes
  PROVE Event(type, k) \in Events /\ Event(type, k).type = type
  <1>1. PICK e : e = Event(type, k)
    OBVIOUS
  <1>2. Says(e, type, k) /\ GetKeycode(e) = k
    BY <1>1, EventParts, KeycodeSaid
  <1>3. e \in KeyEvents /\ e.type = type /\ type \notin {"keypress", "blur"}
    BY <1>2 DEF Says
  <1>4. CASE k \notin Chars
    <2>1. e.char = {} /\ ~Blind(k) /\ k \in DOMAIN FixedKeys
      BY <1>2, <1>4 DEF Says, Codes, Blind
    <2>2. GetKey(e) = FixedKeys[k]
      <3>1. e.key = "" \/ e.key = FixedKeys[k]
        BY <1>2, <1>4 DEF Says
      <3>2. QED
        BY <1>2, <2>1, <3>1, TableSym DEF GetKey
    <2>3. e.location = IF k \in {"ShiftRight", "AltRight"} THEN 2 ELSE 0
      BY <1>2 DEF Says
    <2>4. GetKeysym(e) = <<k, FALSE>>
      BY <2>1, <2>2, <2>3, TableSym DEF GetKeysym
    <2>5. QED
      BY <1>1, <1>2, <1>3, <2>1, <2>4, SymNamed DEF Events, EventOK
  <1>5. CASE k \in Chars /\ browser.legacy
    <2>1. e.char = {} /\ e.key = "" /\ k \notin DOMAIN FixedKeys /\ e.keyCode = k
      BY <1>2, <1>3, <1>5, FixedNames DEF Says
    <2>2. GetKeysym(e) = NoSym
      BY <1>2, <2>1 DEF GetKeysym, GetKey
    <2>3. QED
      BY <1>1, <1>2, <1>3, <1>5, <2>1, <2>2 DEF Events, EventOK, Blind
  <1>6. CASE k \in Chars /\ ~browser.legacy
    <2>1. e.char = {[key |-> k, shift |-> e.shiftKey]}
      BY <1>2, <1>6 DEF Says
    <2>2. PICK c : c = CHOOSE char \in e.char : TRUE
      OBVIOUS
    <2>3. c = [key |-> k, shift |-> e.shiftKey]
      BY <2>1, <2>2
    <2>4. GetKeysym(e) = <<k, e.shiftKey>>
      <3>1. GetKeysym(e) = <<c.key, c.shift>>
        BY <2>1, <2>2 DEF GetKeysym, Lookup
      <3>2. QED
        BY <2>3, <3>1
    <2>5. QED
      BY <1>1, <1>2, <1>3, <1>6, <2>4, SymNamed DEF Events, EventOK, Blind
  <1>7. QED
    BY <1>4, <1>5, <1>6

\* The character of a printing key.
LEMMA CharacterSaid ==
  ASSUME NEW k, Blind(k)
  PROVE LET e == Event("keypress", k)
        IN e \in Events /\ e.type = "keypress" /\ OwnSym(GetKeysym(e), k)
  <1>1. PICK e : e = Event("keypress", k)
    OBVIOUS
  <1>2. k \in Chars /\ browser.legacy /\ k \in Codes
    BY DEF Blind, Codes
  <1>3. Says(e, "keypress", k)
    BY <1>1, <1>2, EventParts
  <1>4. /\ e \in KeyEvents /\ e.type = "keypress" /\ e.code = ""
        /\ e.char = {[key |-> k, shift |-> e.shiftKey]}
    BY <1>2, <1>3 DEF Says
  <1>5. PICK c : c = CHOOSE char \in e.char : TRUE
    OBVIOUS
  <1>6. c = [key |-> k, shift |-> e.shiftKey]
    BY <1>4, <1>5
  <1>7. GetKeysym(e) = <<k, e.shiftKey>>
    <2>1. GetKeysym(e) = <<c.key, c.shift>>
      BY <1>4, <1>5 DEF GetKeysym, Lookup
    <2>2. QED
      BY <1>6, <2>1
  <1>8. GetKeycode(e) = "Unidentified"
    BY <1>4 DEF GetKeycode
  <1>9. e \in Events
    BY <1>2, <1>4, <1>8 DEF Events, EventOK
  <1>10. QED
    BY <1>1, <1>4, <1>7, <1>9, SymNamed DEF NamedSym

-----------------------------------------------------------------------------
(* The keyboard: what the handlers change.                                 *)

KbFields == {"down", "pending", "timers", "armed", "fresh", "viewOnly"}

\* The key in the guest of a code that is in the list.
KeyOf(x, c) == IF browser.qemu THEN <<c>> ELSE x.kb.down[c]

\* Every key that is down in the guest is in the list, under its code.
Kept(x) ==
  /\ DOMAIN x = {"kb", "keysDown"} /\ DOMAIN x.kb = KbFields
  /\ DOMAIN x.kb.down \subseteq Codes
  /\ \A c \in DOMAIN x.kb.down : OwnSym(x.kb.down[c], c)
  /\ \A key \in x.keysDown : \E c \in DOMAIN x.kb.down : key = KeyOf(x, c)

\* Only the list and the guest's keys matter to it.
LEMMA KeptStays ==
  ASSUME NEW x, Kept(x), NEW y, DOMAIN y = {"kb", "keysDown"}, DOMAIN y.kb = KbFields,
         y.kb.down = x.kb.down, y.keysDown = x.keysDown
  PROVE Kept(y)
  <1>1. \A c \in DOMAIN x.kb.down : KeyOf(y, c) = KeyOf(x, c)
    BY DEF KeyOf
  <1>2. QED
    BY <1>1 DEF Kept

\* What SendKeyEvent leaves alone.
SameModes(x, y) ==
  /\ y.kb.pending = x.kb.pending /\ y.kb.timers = x.kb.timers
  /\ y.kb.armed = x.kb.armed /\ y.kb.fresh = x.kb.fresh
  /\ y.kb.viewOnly = x.kb.viewOnly

\* A key that goes down goes into the list with its keysym (_sendKeyEvent).
LEMMA SentDown ==
  ASSUME NEW x, Kept(x), ~x.kb.viewOnly, NEW c \in Codes, NEW s, OwnSym(s, c),
         c \in DOMAIN x.kb.down => s = x.kb.down[c]
  PROVE LET y == SendKeyEvent(x, s, c, TRUE)
        IN Kept(y) /\ SameModes(x, y) /\ DOMAIN y.kb.down = DOMAIN x.kb.down \cup {c}
  <1> DEFINE list == [d \in DOMAIN x.kb.down \cup {c} |-> IF d = c THEN s ELSE x.kb.down[d]]
             key == IF browser.qemu THEN <<c>> ELSE s
             y == [x EXCEPT !.kb.down = list, !.keysDown = @ \cup {key}]
  <1>1. c \notin {"Unidentified"} /\ s # NoSym /\ <<c>> # NoSym
    BY FixedNames DEF OwnSym, NoSym
  <1>2. SendKeyEvent(x, s, c, TRUE) = y
    <2>1. (IF browser.qemu /\ XtScancode(c) # {} THEN <<c>> ELSE s) = key
      BY <1>1 DEF XtScancode
    <2>2. key # NoSym
      BY <1>1
    <2>3. PICK z : z = [x EXCEPT !.kb.down = list]
      OBVIOUS
    <2>4. SendKeyEvent(x, s, c, TRUE) = SendKey(z, s, c, TRUE)
      BY <2>3 DEF SendKeyEvent
    <2>5. ~z.kb.viewOnly
      BY <2>3 DEF Kept, KbFields
    <2>6. SendKey(z, s, c, TRUE) = [z EXCEPT !.keysDown = @ \cup {key}]
      BY <2>1, <2>2, <2>5 DEF SendKey
    <2>7. [z EXCEPT !.keysDown = @ \cup {key}] = y
      BY <2>3 DEF Kept, KbFields
    <2>8. QED
      BY <2>4, <2>6, <2>7
  <1>3. /\ DOMAIN y = {"kb", "keysDown"} /\ DOMAIN y.kb = KbFields
        /\ y.kb.down = list /\ y.keysDown = x.keysDown \cup {key} /\ SameModes(x, y)
    BY DEF Kept, KbFields, SameModes
  <1> HIDE DEF y
  <1>4. /\ DOMAIN y.kb.down = DOMAIN x.kb.down \cup {c}
        /\ y.kb.down[c] = s /\ \A d \in DOMAIN x.kb.down : y.kb.down[d] = x.kb.down[d]
    BY <1>3
  <1> HIDE DEF list
  <1>5. KeyOf(y, c) = key /\ \A d \in DOMAIN x.kb.down : KeyOf(y, d) = KeyOf(x, d)
    BY <1>4 DEF KeyOf
  <1>6. Kept(y)
    BY <1>3, <1>4, <1>5 DEF Kept
  <1>7. QED
    BY <1>2, <1>3, <1>4, <1>6

\* A key that goes up has the keysym of the list, and leaves it.
LEMMA SentUp ==
  ASSUME NEW x, Kept(x), ~x.kb.viewOnly, NEW c \in DOMAIN x.kb.down
  PROVE LET y == SendKeyEvent(x, x.kb.down[c], c, FALSE)
        IN Kept(y) /\ SameModes(x, y) /\ DOMAIN y.kb.down = DOMAIN x.kb.down \ {c}
  <1> DEFINE s == x.kb.down[c]
             list == Restrict(x.kb.down, DOMAIN x.kb.down \ {c})
             key == IF browser.qemu THEN <<c>> ELSE s
             y == [x EXCEPT !.kb.down = list, !.keysDown = @ \ {key}]
  <1>1. c \in Codes /\ c \notin {"Unidentified"} /\ s # NoSym /\ <<c>> # NoSym
    BY FixedNames DEF OwnSym, NoSym, Kept
  <1>2. SendKeyEvent(x, s, c, FALSE) = y
    <2>1. (IF browser.qemu /\ XtScancode(c) # {} THEN <<c>> ELSE s) = key
      BY <1>1 DEF XtScancode
    <2>2. key # NoSym
      BY <1>1
    <2>3. PICK z : z = [x EXCEPT !.kb.down = list]
      OBVIOUS
    <2>4. SendKeyEvent(x, s, c, FALSE) = SendKey(z, s, c, FALSE)
      BY <2>3 DEF SendKeyEvent
    <2>5. ~z.kb.viewOnly
      BY <2>3 DEF Kept, KbFields
    <2>6. SendKey(z, s, c, FALSE) = [z EXCEPT !.keysDown = @ \ {key}]
      BY <2>1, <2>2, <2>5 DEF SendKey
    <2>7. [z EXCEPT !.keysDown = @ \ {key}] = y
      BY <2>3 DEF Kept, KbFields
    <2>8. QED
      BY <2>4, <2>6, <2>7
  <1>3. /\ DOMAIN y = {"kb", "keysDown"} /\ DOMAIN y.kb = KbFields
        /\ y.kb.down = list /\ y.keysDown = x.keysDown \ {key} /\ SameModes(x, y)
    BY DEF Kept, KbFields, SameModes
  <1> HIDE DEF y
  <1>4. /\ DOMAIN y.kb.down = DOMAIN x.kb.down \ {c}
        /\ \A d \in DOMAIN y.kb.down : y.kb.down[d] = x.kb.down[d]
    BY <1>3 DEF Restrict
  <1> HIDE DEF list
  <1>5. KeyOf(x, c) = key /\ \A d \in DOMAIN y.kb.down : KeyOf(y, d) = KeyOf(x, d)
    BY <1>4 DEF KeyOf
  <1>6. \A k \in y.keysDown : \E d \in DOMAIN y.kb.down : k = KeyOf(y, d)
    BY <1>3, <1>4, <1>5 DEF Kept
  <1>7. Kept(y)
    BY <1>3, <1>4, <1>6 DEF Kept
  <1>8. QED
    BY <1>2, <1>3, <1>4, <1>7

\* A key that is tapped is down no longer.
LEMMA Tapped ==
  ASSUME NEW x, Kept(x), ~x.kb.viewOnly, NEW c \in Codes, NEW s, OwnSym(s, c),
         c \notin DOMAIN x.kb.down
  PROVE LET y == Tap(x, s, c)
        IN Kept(y) /\ SameModes(x, y) /\ DOMAIN y.kb.down = DOMAIN x.kb.down
  <1>1. PICK z : z = SendKeyEvent(x, s, c, TRUE)
    OBVIOUS
  <1>2. Kept(z) /\ SameModes(x, z) /\ DOMAIN z.kb.down = DOMAIN x.kb.down \cup {c}
    BY <1>1, SentDown
  <1>3. z.kb.down[c] = s
    BY <1>1 DEF SendKeyEvent, SendKey, Kept, KbFields
  <1>4. PICK y : y = SendKeyEvent(z, s, c, FALSE)
    OBVIOUS
  <1>5. ~z.kb.viewOnly
    BY <1>2 DEF SameModes
  <1>6. Kept(y) /\ SameModes(z, y) /\ DOMAIN y.kb.down = DOMAIN z.kb.down \ {c}
    BY <1>2, <1>3, <1>4, <1>5, SentUp
  <1>7. Tap(x, s, c) = y
    BY <1>1, <1>4 DEF Tap
  <1>8. QED
    BY <1>2, <1>6, <1>7 DEF SameModes

\* The Control that was held back goes down, and is held back no more.
LEMMA ControlSent ==
  ASSUME NEW x, Kept(x), ~x.kb.viewOnly, x.kb.armed \in BOOLEAN,
         x.kb.armed => "ControlLeft" \notin DOMAIN x.kb.down
  PROVE LET y == ControlAfterAll(x)
        IN /\ Kept(y) /\ y.kb.armed = FALSE
           /\ y.kb.pending = x.kb.pending /\ y.kb.timers = x.kb.timers
           /\ y.kb.viewOnly = x.kb.viewOnly
           /\ DOMAIN y.kb.down = DOMAIN x.kb.down
                                  \cup (IF x.kb.armed THEN {"ControlLeft"} ELSE {})
  <1>1. CASE ~x.kb.armed
    BY <1>1 DEF ControlAfterAll
  <1>2. CASE x.kb.armed
    <2>1. PICK z : z = [x EXCEPT !.kb.armed = FALSE]
      OBVIOUS
    <2>2. /\ Kept(z) /\ z.kb.armed = FALSE /\ z.kb.down = x.kb.down
          /\ z.kb.pending = x.kb.pending /\ z.kb.timers = x.kb.timers
          /\ z.kb.viewOnly = x.kb.viewOnly
      BY <2>1 DEF Kept, KbFields, KeyOf
    <2>3. OwnSym(Control, "ControlLeft") /\ "ControlLeft" \in Codes
      BY FixedNames DEF OwnSym, Control, NoSym, Codes
    <2>4. PICK y : y = SendKeyEvent(z, Control, "ControlLeft", TRUE)
      OBVIOUS
    <2>5. Kept(y) /\ SameModes(z, y) /\ DOMAIN y.kb.down = DOMAIN z.kb.down \cup {"ControlLeft"}
      BY <1>2, <2>2, <2>3, <2>4, SentDown
    <2>6. ControlAfterAll(x) = y
      BY <1>2, <2>1, <2>4 DEF ControlAfterAll
    <2>7. QED
      BY <1>2, <2>2, <2>5, <2>6 DEF SameModes
  <1>3. QED
    BY <1>1, <1>2

\* The keyboard while it listens: a Control held back and a printing key that
\* waits for its character are not down yet, and a timer knows its key.
Ready(x) ==
  /\ Kept(x) /\ ~x.kb.viewOnly /\ x.kb.armed \in BOOLEAN
  /\ x.kb.armed => "ControlLeft" \notin DOMAIN x.kb.down
  /\ x.kb.pending # "" => Blind(x.kb.pending) /\ x.kb.pending \notin DOMAIN x.kb.down
  /\ browser.os = "mac" => "CapsLock" \notin DOMAIN x.kb.down
  /\ \A e \in x.kb.timers : Blind(e.keyCode) /\ GetKeycode(e) = e.keyCode

\* The codes that are down or may yet be without another press.
Underway(x) ==
  DOMAIN x.kb.down \cup (IF x.kb.armed THEN {"ControlLeft"} ELSE {})
                   \cup ({x.kb.pending} \ {""})

\* It was already under way.
LEMMA ControlReady ==
  ASSUME NEW x, Ready(x)
  PROVE LET y == ControlAfterAll(x)
        IN /\ Ready(y) /\ y.kb.armed = FALSE /\ y.kb.pending = x.kb.pending
           /\ Underway(y) = Underway(x)
  <1>1. PICK y : y = ControlAfterAll(x)
    OBVIOUS
  <1>2. /\ Kept(y) /\ y.kb.armed = FALSE
        /\ y.kb.pending = x.kb.pending /\ y.kb.timers = x.kb.timers
        /\ y.kb.viewOnly = x.kb.viewOnly
        /\ DOMAIN y.kb.down = DOMAIN x.kb.down
                               \cup (IF x.kb.armed THEN {"ControlLeft"} ELSE {})
    BY <1>1, ControlSent DEF Ready
  <1>3. Blind(x.kb.pending) => x.kb.pending # "ControlLeft"
    BY FixedNames DEF Blind
  <1>4. Ready(y)
    BY <1>2, <1>3 DEF Ready
  <1>5. Underway(y) = Underway(x)
    BY <1>2 DEF Underway
  <1>6. QED
    BY <1>1, <1>2, <1>4, <1>5

\* A keydown puts at most its own key under way (_handleKeyDown).
LEMMA DownHandled ==
  ASSUME NEW x, Ready(x), x.kb.pending = "", NEW e \in Events, e.type = "keydown"
  PROVE LET y == HandleKeyDown(x, e)
        IN /\ Ready(y) /\ Underway(y) \subseteq Underway(x) \cup {GetKeycode(e)}
           /\ y.kb.pending \in {"", GetKeycode(e)}
  <1> DEFINE code == GetKeycode(e)
             altGr == x.kb.armed /\ code = "AltRight" /\ x.kb.fresh
             y == IF altGr THEN [x EXCEPT !.kb.armed = FALSE] ELSE ControlAfterAll(x)
             here == IF altGr THEN Level3
                     ELSE IF browser.os = "mac" THEN MacSym(GetKeysym(e))
                     ELSE GetKeysym(e)
             sym == IF code \in DOMAIN y.kb.down THEN y.kb.down[code] ELSE here
  <1>1. /\ code \in Codes /\ code \notin {"", "Unidentified"}
        /\ Blind(code) => GetKeysym(e) = NoSym /\ e.keyCode = code
        /\ ~Blind(code) => OwnSym(GetKeysym(e), code) /\ OwnSym(MacSym(GetKeysym(e)), code)
    BY FixedNames DEF Events, EventOK, NamedSym
  <1>2. HandleKeyDown(x, e) =
           CASE code = "Unidentified" ->
                  IF GetKeysym(e) = NoSym THEN y ELSE Tap(y, GetKeysym(e), code)
             [] code = "CapsLock" /\ browser.os = "mac" -> Tap(y, <<"CapsLock", FALSE>>, code)
             [] sym = NoSym /\ browser.legacy ->
                  [y EXCEPT !.kb.pending = code, !.kb.timers = @ \cup {e}]
             [] code = "ControlLeft" /\ browser.os = "windows" /\ code \notin DOMAIN y.kb.down ->
                  [y EXCEPT !.kb.pending = "", !.kb.armed = TRUE, !.kb.fresh = TRUE]
             [] OTHER -> SendKeyEvent([y EXCEPT !.kb.pending = ""], sym, code, TRUE)
    BY DEF HandleKeyDown
  <1>3. altGr => code = "AltRight" /\ y = [x EXCEPT !.kb.armed = FALSE] /\ here = Level3
    OBVIOUS
  <1>4. ~altGr => y = ControlAfterAll(x) /\ here \in {MacSym(GetKeysym(e)), GetKeysym(e)}
    OBVIOUS
  <1>5. code \in DOMAIN y.kb.down => sym = y.kb.down[code]
    OBVIOUS
  <1>6. code \notin DOMAIN y.kb.down => sym = here
    OBVIOUS
  <1> HIDE DEF code, altGr, y, here, sym
  <1>7. Ready(y) /\ y.kb.armed = FALSE /\ y.kb.pending = "" /\ Underway(y) \subseteq Underway(x)
    <2>1. CASE altGr
      <3>1. DOMAIN x = {"kb", "keysDown"} /\ DOMAIN x.kb = KbFields
        BY DEF Ready, Kept
      <3>2. /\ DOMAIN y = {"kb", "keysDown"} /\ DOMAIN y.kb = KbFields
            /\ y.keysDown = x.keysDown /\ y.kb.down = x.kb.down /\ y.kb.armed = FALSE
            /\ y.kb.pending = x.kb.pending /\ y.kb.timers = x.kb.timers
            /\ y.kb.viewOnly = x.kb.viewOnly
        BY <1>3, <2>1, <3>1 DEF KbFields
      <3>3. Kept(y)
        BY <3>2, KeptStays DEF Ready
      <3>4. QED
        BY <3>2, <3>3 DEF Ready, Underway
    <2>2. CASE ~altGr
      BY <1>4, <2>2, ControlReady
    <2>3. QED
      BY <2>1, <2>2
  <1>8. /\ ~Blind(code) => OwnSym(here, code)
        /\ Blind(code) => here = NoSym
    <2>1. code = "AltRight" => OwnSym(Level3, code) /\ ~Blind(code)
      BY FixedNames DEF OwnSym, Level3, NoSym, Blind
    <2>2. MacSym(NoSym) = NoSym
      BY DEF MacSym, NoSym
    <2>3. QED
      BY <1>1, <1>3, <1>4, <2>1, <2>2
  <1>9. /\ code \in DOMAIN y.kb.down => OwnSym(sym, code)
        /\ sym = NoSym => Blind(code) /\ code \notin DOMAIN y.kb.down
        /\ sym # NoSym => OwnSym(sym, code)
    BY <1>5, <1>6, <1>7, <1>8 DEF Ready, Kept, OwnSym
  <1>10. Blind(code) => code \notin {"CapsLock", "ControlLeft"}
    BY FixedNames DEF Blind
  <1> DEFINE Good(z) == /\ Ready(z) /\ Underway(z) \subseteq Underway(x) \cup {code}
                        /\ z.kb.pending \in {"", code}
  <1>11. SUFFICES Good(HandleKeyDown(x, e))
    BY DEF code
  <1>12. CASE code = "CapsLock" /\ browser.os = "mac"
    <2>1. PICK z : z = Tap(y, <<"CapsLock", FALSE>>, code)
      OBVIOUS
    <2>2. OwnSym(<<"CapsLock", FALSE>>, code)
      BY <1>12, SymNamed DEF NamedSym
    <2>3. Kept(z) /\ SameModes(y, z) /\ DOMAIN z.kb.down = DOMAIN y.kb.down
      BY <1>1, <1>7, <1>12, <2>1, <2>2, Tapped DEF Ready
    <2>4. Good(z)
      BY <1>7, <2>3 DEF Ready, SameModes, Underway
    <2>5. HandleKeyDown(x, e) = z
      BY <1>1, <1>2, <1>9, <1>10, <1>12, <2>1
    <2>6. QED
      BY <2>4, <2>5
  <1>13. CASE sym = NoSym /\ browser.legacy
    <2>1. PICK z : z = [y EXCEPT !.kb.pending = code, !.kb.timers = @ \cup {e}]
      OBVIOUS
    <2>2. code \notin DOMAIN y.kb.down /\ Blind(code)
      BY <1>9, <1>13
    <2>3. /\ DOMAIN z = {"kb", "keysDown"} /\ DOMAIN z.kb = KbFields
          /\ z.keysDown = y.keysDown
          /\ z.kb.down = y.kb.down /\ z.kb.pending = code /\ z.kb.armed = y.kb.armed
          /\ z.kb.timers = y.kb.timers \cup {e} /\ z.kb.viewOnly = y.kb.viewOnly
      <3>1. DOMAIN y = {"kb", "keysDown"} /\ DOMAIN y.kb = KbFields
        BY <1>7 DEF Ready, Kept
      <3>2. QED
        BY <2>1, <3>1 DEF KbFields
    <2>4. Kept(z)
      BY <1>7, <2>3, KeptStays DEF Ready
    <2>5. Good(z)
      BY <1>1, <1>7, <2>2, <2>3, <2>4 DEF Ready, Underway, code
    <2>6. HandleKeyDown(x, e) = z
      BY <1>1, <1>2, <1>10, <1>13, <2>1, <2>2
    <2>7. QED
      BY <2>5, <2>6
  <1>14. CASE /\ ~(sym = NoSym /\ browser.legacy)
              /\ code = "ControlLeft" /\ browser.os = "windows" /\ code \notin DOMAIN y.kb.down
    <2>1. PICK z : z = [y EXCEPT !.kb.pending = "", !.kb.armed = TRUE, !.kb.fresh = TRUE]
      OBVIOUS
    <2>2. /\ DOMAIN z = {"kb", "keysDown"} /\ DOMAIN z.kb = KbFields
          /\ z.keysDown = y.keysDown
          /\ z.kb.down = y.kb.down /\ z.kb.pending = "" /\ z.kb.armed = TRUE
          /\ z.kb.timers = y.kb.timers /\ z.kb.viewOnly = y.kb.viewOnly
      <3>1. DOMAIN y = {"kb", "keysDown"} /\ DOMAIN y.kb = KbFields
        BY <1>7 DEF Ready, Kept
      <3>2. QED
        BY <2>1, <3>1 DEF KbFields
    <2>3. Kept(z)
      BY <1>7, <2>2, KeptStays DEF Ready
    <2>4. Good(z)
      BY <1>7, <1>14, <2>2, <2>3 DEF Ready, Underway
    <2>5. HandleKeyDown(x, e) = z
      BY <1>1, <1>2, <1>14, <2>1
    <2>6. QED
      BY <2>4, <2>5
  <1>15. CASE /\ ~(code = "CapsLock" /\ browser.os = "mac") /\ ~(sym = NoSym /\ browser.legacy)
              /\ ~(code = "ControlLeft" /\ browser.os = "windows" /\ code \notin DOMAIN y.kb.down)
    <2>1. PICK w : w = [y EXCEPT !.kb.pending = ""]
      OBVIOUS
    <2>2. /\ DOMAIN w = {"kb", "keysDown"} /\ DOMAIN w.kb = KbFields
          /\ w.keysDown = y.keysDown /\ w.kb.down = y.kb.down /\ SameModes(y, w)
      <3>1. DOMAIN y = {"kb", "keysDown"} /\ DOMAIN y.kb = KbFields /\ y.kb.pending = ""
        BY <1>7 DEF Ready, Kept
      <3>2. QED
        BY <2>1, <3>1 DEF KbFields, SameModes
    <2>3. Kept(w) /\ ~w.kb.viewOnly
      BY <1>7, <2>2, KeptStays DEF Ready, SameModes
    <2>4. OwnSym(sym, code)
      BY <1>8, <1>9, <1>15 DEF Blind
    <2>5. PICK z : z = SendKeyEvent(w, sym, code, TRUE)
      OBVIOUS
    <2>6. Kept(z) /\ SameModes(w, z) /\ DOMAIN z.kb.down = DOMAIN w.kb.down \cup {code}
      <3>1. code \in DOMAIN w.kb.down => sym = w.kb.down[code]
        BY <1>5, <2>2
      <3>2. code \in Codes
        BY <1>1
      <3>3. QED
        BY <2>3, <2>4, <2>5, <3>1, <3>2, SentDown
    <2>7. Good(z)
      BY <1>7, <1>15, <2>2, <2>6 DEF Ready, SameModes, Underway
    <2>8. HandleKeyDown(x, e) = z
      BY <1>1, <1>2, <1>15, <2>1, <2>5
    <2>9. QED
      BY <2>7, <2>8
  <1>16. QED
    BY <1>12, <1>13, <1>14, <1>15

\* The character that follows a printing key.
LEMMA PressHandled ==
  ASSUME NEW x, Ready(x), NEW e \in Events, e.type = "keypress",
         x.kb.pending # "" => OwnSym(GetKeysym(e), x.kb.pending)
  PROVE LET y == HandleKeyPress(x, e)
        IN Ready(y) /\ Underway(y) \subseteq Underway(x) /\ y.kb.pending = ""
  <1>1. GetKeycode(e) = "Unidentified"
    BY DEF Events, EventOK
  <1>2. CASE x.kb.pending = ""
    BY <1>2 DEF HandleKeyPress
  <1>3. CASE x.kb.pending # ""
    <2>1. PICK w : w = [x EXCEPT !.kb.pending = ""]
      OBVIOUS
    <2>2. /\ DOMAIN w = {"kb", "keysDown"} /\ DOMAIN w.kb = KbFields
          /\ w.keysDown = x.keysDown /\ w.kb.down = x.kb.down /\ w.kb.pending = ""
          /\ w.kb.armed = x.kb.armed /\ w.kb.timers = x.kb.timers
          /\ w.kb.viewOnly = x.kb.viewOnly
      <3>1. DOMAIN x = {"kb", "keysDown"} /\ DOMAIN x.kb = KbFields
        BY DEF Ready, Kept
      <3>2. QED
        BY <2>1, <3>1 DEF KbFields
    <2>3. Kept(w) /\ ~w.kb.viewOnly
      BY <2>2, KeptStays DEF Ready
    <2>4. PICK c : c = x.kb.pending
      OBVIOUS
    <2>5. /\ Blind(c) /\ c \notin DOMAIN x.kb.down /\ c # "" /\ c \in Codes
          /\ c \notin {"CapsLock", "ControlLeft"}
      BY <1>3, <2>4, FixedNames DEF Ready, Blind, Codes
    <2>6. OwnSym(GetKeysym(e), c) /\ c \notin DOMAIN w.kb.down
      BY <1>3, <2>2, <2>4, <2>5
    <2>7. PICK z : z = SendKeyEvent(w, GetKeysym(e), c, TRUE)
      OBVIOUS
    <2>8. Kept(z) /\ SameModes(w, z) /\ DOMAIN z.kb.down = DOMAIN w.kb.down \cup {c}
      BY <2>3, <2>5, <2>6, <2>7, SentDown
    <2>9. Ready(z) /\ Underway(z) \subseteq Underway(x) /\ z.kb.pending = ""
      BY <2>2, <2>4, <2>5, <2>8 DEF Ready, SameModes, Underway
    <2>10. HandleKeyPress(x, e) = z
      BY <1>1, <1>3, <2>1, <2>4, <2>7 DEF HandleKeyPress
    <2>11. QED
      BY <2>9, <2>10
  <1>4. QED
    BY <1>2, <1>3

\* The timer of the key that waits for its character, or of none.
LEMMA TimeoutHandled ==
  ASSUME NEW x, Ready(x), NEW e \in x.kb.timers, x.kb.pending \in {"", GetKeycode(e)}
  PROVE LET y == HandleKeyPressTimeout(x, e)
        IN Ready(y) /\ Underway(y) \subseteq Underway(x) /\ y.kb.pending = ""
  <1>1. PICK w : w = [x EXCEPT !.kb.timers = @ \ {e}, !.kb.pending = ""]
    OBVIOUS
  <1>2. /\ DOMAIN w = {"kb", "keysDown"} /\ DOMAIN w.kb = KbFields
        /\ w.keysDown = x.keysDown /\ w.kb.down = x.kb.down /\ w.kb.pending = ""
        /\ w.kb.armed = x.kb.armed /\ w.kb.timers = x.kb.timers \ {e}
        /\ w.kb.viewOnly = x.kb.viewOnly
    <2>1. DOMAIN x = {"kb", "keysDown"} /\ DOMAIN x.kb = KbFields
      BY DEF Ready, Kept
    <2>2. QED
      BY <1>1, <2>1 DEF KbFields
  <1>3. Kept(w) /\ ~w.kb.viewOnly
    BY <1>2, KeptStays DEF Ready
  <1>4. CASE x.kb.pending = ""
    <2>1. HandleKeyPressTimeout(x, e) = w
      BY <1>1, <1>4 DEF HandleKeyPressTimeout
    <2>2. Ready(w) /\ Underway(w) \subseteq Underway(x)
      BY <1>2, <1>3 DEF Ready, Underway
    <2>3. QED
      BY <1>2, <2>1, <2>2
  <1>5. CASE x.kb.pending # ""
    <2>1. PICK c : c = x.kb.pending
      OBVIOUS
    <2>2. /\ Blind(c) /\ c \notin DOMAIN x.kb.down /\ c # "" /\ c \in Codes
          /\ c \notin {"CapsLock", "ControlLeft"}
      BY <1>5, <2>1, FixedNames DEF Ready, Blind, Codes
    <2>3. e.keyCode = c /\ c \in Chars
      BY <1>5, <2>1, <2>2 DEF Ready, Blind
    <2>4. Lookup([key |-> e.keyCode, shift |-> e.shiftKey]) = <<c, e.shiftKey>>
      BY <2>3 DEF Lookup
    <2>5. OwnSym(<<c, e.shiftKey>>, c) /\ c \notin DOMAIN w.kb.down
      BY <1>2, <2>2, SymNamed DEF NamedSym
    <2>6. PICK z : z = SendKeyEvent(w, <<c, e.shiftKey>>, c, TRUE)
      OBVIOUS
    <2>7. Kept(z) /\ SameModes(w, z) /\ DOMAIN z.kb.down = DOMAIN w.kb.down \cup {c}
      BY <1>3, <2>2, <2>5, <2>6, SentDown
    <2>8. Ready(z) /\ Underway(z) \subseteq Underway(x) /\ z.kb.pending = ""
      BY <1>2, <2>1, <2>2, <2>7 DEF Ready, SameModes, Underway
    <2>9. HandleKeyPressTimeout(x, e) = z
      BY <1>1, <1>5, <2>1, <2>3, <2>4, <2>6 DEF HandleKeyPressTimeout
    <2>10. QED
      BY <2>8, <2>9
  <1>6. QED
    BY <1>4, <1>5

\* A key that is let go is not down, and will not be without another press.
LEMMA UpHandled ==
  ASSUME NEW x, Ready(x), x.kb.pending = "", NEW e \in Events, e.type = "keyup"
  PROVE LET y == HandleKeyUp(x, e)
        IN /\ Ready(y) /\ Underway(y) \subseteq Underway(x) \ {GetKeycode(e)}
           /\ y.kb.pending = ""
  <1>1. PICK code : code = GetKeycode(e)
    OBVIOUS
  <1>2. code \in Codes
    BY <1>1 DEF Events, EventOK
  <1>3. PICK y : y = ControlAfterAll(x)
    OBVIOUS
  <1>4. /\ Ready(y) /\ y.kb.armed = FALSE /\ y.kb.pending = "" /\ Underway(y) = Underway(x)
        /\ Kept(y) /\ ~y.kb.viewOnly
    BY <1>3, ControlReady DEF Ready
  <1>5. CASE code = "CapsLock" /\ browser.os = "mac"
    <2>1. PICK z : z = Tap(y, <<"CapsLock", FALSE>>, code)
      OBVIOUS
    <2>2. OwnSym(<<"CapsLock", FALSE>>, code) /\ code \notin DOMAIN y.kb.down
      BY <1>4, <1>5, SymNamed DEF NamedSym, Ready
    <2>3. Kept(z) /\ SameModes(y, z) /\ DOMAIN z.kb.down = DOMAIN y.kb.down
      BY <1>2, <1>4, <2>1, <2>2, Tapped
    <2>4. Ready(z) /\ Underway(z) \subseteq Underway(x) \ {code} /\ z.kb.pending = ""
      BY <1>4, <2>2, <2>3 DEF Ready, SameModes, Underway
    <2>5. HandleKeyUp(x, e) = z
      BY <1>1, <1>3, <1>5, <2>1 DEF HandleKeyUp
    <2>6. QED
      BY <1>1, <2>4, <2>5
  <1>6. CASE ~(code = "CapsLock" /\ browser.os = "mac") /\ code \notin DOMAIN y.kb.down
    <2>1. HandleKeyUp(x, e) = y
      BY <1>1, <1>3, <1>6 DEF HandleKeyUp
    <2>2. Underway(y) \subseteq Underway(x) \ {code}
      BY <1>4, <1>6 DEF Underway
    <2>3. QED
      BY <1>1, <1>4, <2>1, <2>2
  <1>7. CASE ~(code = "CapsLock" /\ browser.os = "mac") /\ code \in DOMAIN y.kb.down
    <2>1. PICK z : z = SendKeyEvent(y, y.kb.down[code], code, FALSE)
      OBVIOUS
    <2>2. Kept(z) /\ SameModes(y, z) /\ DOMAIN z.kb.down = DOMAIN y.kb.down \ {code}
      BY <1>4, <1>7, <2>1, SentUp
    <2>3. Ready(z) /\ Underway(z) \subseteq Underway(x) \ {code} /\ z.kb.pending = ""
      BY <1>4, <2>2 DEF Ready, SameModes, Underway
    <2>4. HandleKeyUp(x, e) = z
      BY <1>1, <1>3, <1>7, <2>1 DEF HandleKeyUp
    <2>5. QED
      BY <1>1, <2>3, <2>4
  <1>8. QED
    BY <1>5, <1>6, <1>7

\* An empty list is a function on nothing.
LEMMA NothingDown == DOMAIN <<>> = {}
  <1>1. <<>> \in Seq({}) /\ Len(<<>>) = 0
    BY EmptySeq
  <1>2. DOMAIN <<>> = 1 .. Len(<<>>)
    BY <1>1, LenProperties
  <1>3. QED
    BY <1>1, <1>2

\* Blur lets go of all that is in the list, which is all that is down.
LEMMA BlurHandled ==
  ASSUME NEW x, Ready(x), x.kb.armed = FALSE, x.kb.pending = ""
  PROVE LET y == AllKeysUp(x)
        IN Ready(y) /\ Underway(y) = {} /\ y.kb.pending = ""
  <1> DEFINE gone == IF browser.qemu THEN {<<c>> : c \in DOMAIN x.kb.down} ELSE Range(x.kb.down)
  <1>1. PICK y : y = [x EXCEPT !.kb.down = <<>>, !.keysDown = @ \ gone]
    OBVIOUS
  <1>2. AllKeysUp(x) = y
    BY <1>1 DEF AllKeysUp, Ready
  <1>3. DOMAIN x = {"kb", "keysDown"} /\ DOMAIN x.kb = KbFields
    BY DEF Ready, Kept
  <1>4. /\ DOMAIN y = {"kb", "keysDown"} /\ DOMAIN y.kb = KbFields
        /\ y.keysDown = x.keysDown \ gone /\ y.kb.down = <<>> /\ SameModes(x, y)
    BY <1>1, <1>3 DEF KbFields, SameModes
  <1>5. ASSUME NEW key \in x.keysDown
        PROVE  key \in gone
    <2>1. PICK c \in DOMAIN x.kb.down : key = KeyOf(x, c)
      BY DEF Ready, Kept
    <2>2. QED
      BY <2>1 DEF KeyOf, Range
  <1> HIDE DEF gone
  <1>6. y.keysDown = {} /\ DOMAIN y.kb.down = {}
    <2>1. y.keysDown = {}
      BY <1>4, <1>5
    <2>2. y.kb.down = <<>>
      BY <1>4
    <2>3. QED
      BY <2>1, <2>2, NothingDown
  <1>7. Kept(y)
    BY <1>4, <1>6 DEF Kept
  <1>8. Ready(y) /\ Underway(y) = {} /\ y.kb.pending = ""
    BY <1>4, <1>6, <1>7 DEF Ready, SameModes, Underway
  <1>9. QED
    BY <1>2, <1>8

-----------------------------------------------------------------------------
(* The keyboard: events on their way.                                      *)

Presses(e, c) == e.type = "keydown" /\ GetKeycode(e) = c
Ends(e, c) == e.type = "blur" \/ (e.type = "keyup" /\ GetKeycode(e) = c)

\* When the events of q are handled, and nothing else comes, c is not down.
Settled(q, underway, c) ==
  \/ c \notin underway /\ \A i \in 1 .. Len(q) : ~Presses(q[i], c)
  \/ \E i \in 1 .. Len(q) : /\ Ends(q[i], c)
                            /\ \A j \in 1 .. Len(q) : j > i => ~Presses(q[j], c)

\* The press of a printing key that has no name is followed by its character.
Paired(q) ==
  \A i \in 1 .. Len(q) :
    q[i].type = "keydown" /\ Blind(GetKeycode(q[i]))
      => /\ i + 1 \in 1 .. Len(q) /\ q[i + 1].type = "keypress"
         /\ OwnSym(GetKeysym(q[i + 1]), GetKeycode(q[i]))

\* Fewer keys under way, as many settled.
LEMMA SettledLess ==
  ASSUME NEW q, NEW U, NEW V, NEW c, Settled(q, U, c), c \in V => c \in U
  PROVE Settled(q, V, c)
  BY DEF Settled

\* Handling the head leaves a key settled if it does what it says.
LEMMA SettledTail ==
  ASSUME NEW q \in Seq(Events), q # <<>>, NEW U, NEW V, NEW c, Settled(q, U, c),
         c \in V => c \in U \/ Presses(Head(q), c),
         Ends(Head(q), c) => c \notin V
  PROVE Settled(Tail(q), V, c)
  <1>1. /\ Len(q) \in Nat \ {0} /\ Len(Tail(q)) = Len(q) - 1 /\ Head(q) = q[1]
        /\ \A i \in 1 .. Len(q) - 1 : Tail(q)[i] = q[i + 1]
    OBVIOUS
  <1>2. CASE c \notin U /\ \A i \in 1 .. Len(q) : ~Presses(q[i], c)
    <2>1. ~Presses(q[1], c)
      BY <1>1, <1>2
    <2>2. \A i \in 1 .. Len(q) - 1 : ~Presses(Tail(q)[i], c)
      BY <1>1, <1>2
    <2>3. QED
      BY <1>1, <1>2, <2>1, <2>2 DEF Settled
  <1>3. CASE \E i \in 1 .. Len(q) : /\ Ends(q[i], c)
                                    /\ \A j \in 1 .. Len(q) : j > i => ~Presses(q[j], c)
    <2>1. PICK i \in 1 .. Len(q) : /\ Ends(q[i], c)
                                   /\ \A j \in 1 .. Len(q) : j > i => ~Presses(q[j], c)
      BY <1>3
    <2>2. CASE i = 1
      <3>1. c \notin V
        BY <1>1, <2>1, <2>2
      <3>2. \A j \in 1 .. Len(q) - 1 : ~Presses(Tail(q)[j], c)
        BY <1>1, <2>1, <2>2
      <3>3. QED
        BY <1>1, <3>1, <3>2 DEF Settled
    <2>3. CASE i # 1
      <3>1. i - 1 \in 1 .. Len(q) - 1 /\ Ends(Tail(q)[i - 1], c)
        BY <1>1, <2>1, <2>3
      <3>2. \A j \in 1 .. Len(q) - 1 : j > i - 1 => ~Presses(Tail(q)[j], c)
        BY <1>1, <2>1
      <3>3. QED
        BY <1>1, <3>1, <3>2 DEF Settled
    <2>4. QED
      BY <2>2, <2>3
  <1>4. QED
    BY <1>2, <1>3 DEF Settled

\* The events of two queues, one behind the other.
LEMMA Joined ==
  ASSUME NEW q \in Seq(Events), NEW s \in Seq(Events)
  PROVE /\ q \o s \in Seq(Events)
        /\ Len(q) \in Nat /\ Len(s) \in Nat /\ Len(q \o s) = Len(q) + Len(s)
        /\ \A i \in 1 .. Len(q) : (q \o s)[i] = q[i]
        /\ \A i \in 1 .. Len(s) : (q \o s)[Len(q) + i] = s[i]
        /\ \A i \in 1 .. Len(q) + Len(s) :
             i \in 1 .. Len(q) \/ (i - Len(q) \in 1 .. Len(s) /\ (q \o s)[i] = s[i - Len(q)])
  OBVIOUS

\* More events that do not press a key leave it settled, or settle it.
LEMMA SettledJoined ==
  ASSUME NEW q \in Seq(Events), NEW s \in Seq(Events), NEW U, NEW c,
         \A i \in 1 .. Len(s) : ~Presses(s[i], c),
         \/ Settled(q, U, c)
         \/ \E i \in 1 .. Len(s) : Ends(s[i], c)
  PROVE Settled(q \o s, U, c)
  <1>1. PICK r : r = q \o s
    OBVIOUS
  <1>2. /\ Len(q) \in Nat /\ Len(s) \in Nat /\ Len(r) = Len(q) + Len(s)
        /\ \A i \in 1 .. Len(q) : r[i] = q[i]
        /\ \A i \in 1 .. Len(s) : r[Len(q) + i] = s[i]
        /\ \A i \in 1 .. Len(q) + Len(s) :
             i \in 1 .. Len(q) \/ (i - Len(q) \in 1 .. Len(s) /\ r[i] = s[i - Len(q)])
    BY <1>1, Joined
  <1>3. ASSUME NEW i \in 1 .. Len(r), i > Len(q)
        PROVE  ~Presses(r[i], c)
    <2>1. i - Len(q) \in 1 .. Len(s) /\ r[i] = s[i - Len(q)]
      BY <1>2, <1>3
    <2>2. QED
      BY <2>1
  <1>4. CASE c \notin U /\ \A i \in 1 .. Len(q) : ~Presses(q[i], c)
    <2>1. \A i \in 1 .. Len(r) : ~Presses(r[i], c)
      BY <1>2, <1>3, <1>4
    <2>2. QED
      BY <1>1, <1>4, <2>1 DEF Settled
  <1>5. CASE \E i \in 1 .. Len(q) : /\ Ends(q[i], c)
                                    /\ \A j \in 1 .. Len(q) : j > i => ~Presses(q[j], c)
    <2>1. PICK i \in 1 .. Len(q) : /\ Ends(q[i], c)
                                   /\ \A j \in 1 .. Len(q) : j > i => ~Presses(q[j], c)
      BY <1>5
    <2>2. i \in 1 .. Len(r) /\ Ends(r[i], c)
      BY <1>2, <2>1
    <2>3. \A j \in 1 .. Len(r) : j > i => ~Presses(r[j], c)
      BY <1>2, <1>3, <2>1
    <2>4. QED
      BY <1>1, <2>2, <2>3 DEF Settled
  <1>6. CASE \E i \in 1 .. Len(s) : Ends(s[i], c)
    <2>1. PICK i \in 1 .. Len(s) : Ends(s[i], c)
      BY <1>6
    <2>2. Len(q) + i \in 1 .. Len(r) /\ Ends(r[Len(q) + i], c)
      BY <1>2, <2>1
    <2>3. \A j \in 1 .. Len(r) : j > Len(q) + i => ~Presses(r[j], c)
      BY <1>2, <1>3, <2>1
    <2>4. QED
      BY <1>1, <2>2, <2>3 DEF Settled
  <1>7. QED
    BY <1>4, <1>5, <1>6 DEF Settled

\* A queue without its head still has every character.
LEMMA PairedTail ==
  ASSUME NEW q \in Seq(Events), q # <<>>, Paired(q)
  PROVE Paired(Tail(q))
  <1>1. /\ Len(q) \in Nat \ {0} /\ Len(Tail(q)) = Len(q) - 1
        /\ \A i \in 1 .. Len(q) - 1 : Tail(q)[i] = q[i + 1]
    OBVIOUS
  <1>2. QED
    BY <1>1 DEF Paired

\* So have two queues together.
LEMMA PairedJoined ==
  ASSUME NEW q \in Seq(Events), NEW s \in Seq(Events), Paired(q), Paired(s)
  PROVE Paired(q \o s)
  <1>1. PICK r : r = q \o s
    OBVIOUS
  <1>2. /\ Len(q) \in Nat /\ Len(s) \in Nat /\ Len(r) = Len(q) + Len(s)
        /\ \A i \in 1 .. Len(q) : r[i] = q[i]
        /\ \A i \in 1 .. Len(s) : r[Len(q) + i] = s[i]
        /\ \A i \in 1 .. Len(q) + Len(s) :
             i \in 1 .. Len(q) \/ (i - Len(q) \in 1 .. Len(s) /\ r[i] = s[i - Len(q)])
    BY <1>1, Joined
  <1>3. ASSUME NEW i \in 1 .. Len(r), r[i].type = "keydown", Blind(GetKeycode(r[i]))
        PROVE  /\ i + 1 \in 1 .. Len(r) /\ r[i + 1].type = "keypress"
               /\ OwnSym(GetKeysym(r[i + 1]), GetKeycode(r[i]))
    <2>1. CASE i \in 1 .. Len(q)
      <3>1. /\ i + 1 \in 1 .. Len(q) /\ q[i + 1].type = "keypress"
            /\ OwnSym(GetKeysym(q[i + 1]), GetKeycode(q[i]))
        BY <1>2, <1>3, <2>1 DEF Paired
      <3>2. QED
        BY <1>2, <2>1, <3>1
    <2>2. CASE i \notin 1 .. Len(q)
      <3>1. PICK j \in 1 .. Len(s) : i = Len(q) + j /\ r[i] = s[j]
        BY <1>2, <2>2
      <3>2. /\ j + 1 \in 1 .. Len(s) /\ s[j + 1].type = "keypress"
            /\ OwnSym(GetKeysym(s[j + 1]), GetKeycode(s[j]))
        BY <1>3, <3>1 DEF Paired
      <3>3. i + 1 \in 1 .. Len(r) /\ r[i + 1] = s[j + 1]
        <4>1. r[Len(q) + (j + 1)] = s[j + 1]
          BY <1>2, <3>2
        <4>2. Len(q) + (j + 1) = i + 1
          BY <1>2, <3>1
        <4>3. QED
          BY <1>2, <3>1, <3>2, <4>1, <4>2
      <3>4. QED
        BY <3>1, <3>2, <3>3
    <2>3. QED
      BY <2>1, <2>2
  <1>4. QED
    BY <1>1, <1>3 DEF Paired

\* The codes of the events that the browser sends for a key.
Sends(k) ==
  {k} \cup (IF k = "AltRight" /\ browser.os = "windows" THEN {"ControlLeft"} ELSE {})

\* The three forms of EventsOf: one event, or two.
LEMMA OneOrTwo ==
  ASSUME NEW a, NEW b
  PROVE /\ <<>> \o <<a>> \o <<>> = <<a>>
        /\ <<a>> \o <<b>> \o <<>> = <<a, b>>
        /\ <<>> \o <<a>> \o <<b>> = <<a, b>>
  <1>1. <<a>> \in Seq({a, b}) /\ <<a, b>> \in Seq({a, b}) /\ <<b>> \in Seq({a, b})
    OBVIOUS
  <1>2. <<>> \o <<a>> = <<a>> /\ <<a>> \o <<>> = <<a>> /\ <<a, b>> \o <<>> = <<a, b>>
    BY <1>1, ConcatEmptySeq
  <1>3. <<a>> \o <<b>> = <<a, b>>
    <2>1. Append(<<a>>, b) = <<a>> \o <<b>>
      BY <1>1, AppendIsConcat
    <2>2. Append(<<a>>, b) = <<a, b>>
      <3>1. PICK t : t = Append(<<a>>, b)
        OBVIOUS
      <3>2. <<a>> \in Seq({a, b}) /\ Len(<<a>>) = 1 /\ <<a>>[1] = a
        OBVIOUS
      <3>3. t \in Seq({a, b}) /\ Len(t) = 2 /\ t[1] = a /\ t[2] = b
        BY <3>1, <3>2, AppendProperties
      <3>4. PICK u : u = <<a, b>>
        OBVIOUS
      <3>5. u \in Seq({a, b}) /\ Len(u) = 2 /\ u[1] = a /\ u[2] = b
        BY <3>4
      <3>6. t = u
        BY <3>3, <3>5, SeqEqual
      <3>7. QED
        BY <3>1, <3>4, <3>6
    <2>3. QED
      BY <2>1, <2>2
  <1>4. QED
    BY <1>2, <1>3

\* What the browser sends for a key: its own codes, with their characters, and
\* for a release the end of each of them.
LEMMA EventsSent ==
  ASSUME NEW type \in {"keydown", "keyup"}, NEW k \in Codes
  PROVE LET s == EventsOf(type, k)
        IN /\ s \in Seq(Events) /\ Paired(s)
           /\ \A c : (\E i \in 1 .. Len(s) : Presses(s[i], c)) => type = "keydown" /\ c \in Sends(k)
           /\ type = "keyup" => \A c \in Sends(k) : \E i \in 1 .. Len(s) : Ends(s[i], c)
  <1>1. PICK e : e = Event(type, k)
    OBVIOUS
  <1>2. e \in Events /\ e.type = type /\ GetKeycode(e) = k
    BY <1>1, EventSaid, KeycodeSaid
  <1>3. CASE k = "AltRight" /\ browser.os = "windows"
    <2>1. PICK f : f = Event(type, "ControlLeft")
      OBVIOUS
    <2>2. "ControlLeft" \in Codes /\ ~Blind("ControlLeft") /\ ~Blind(k) /\ k \notin Chars
      BY <1>3, FixedNames DEF Codes, Blind
    <2>3. f \in Events /\ f.type = type /\ GetKeycode(f) = "ControlLeft"
      BY <2>1, <2>2, EventSaid, KeycodeSaid
    <2>4. EventsOf(type, k) = <<f, e>>
      <3>1. (IF k = "AltRight" /\ browser.os = "windows"
               THEN <<Event(type, "ControlLeft")>> ELSE <<>>) = <<f>>
        BY <1>3, <2>1, <2>2
      <3>2. (IF type = "keydown" /\ browser.legacy /\ k \in Chars
               THEN <<Event("keypress", k)>> ELSE <<>>) = <<>>
        BY <1>3, <2>1, <2>2 DEF Blind
      <3>3. EventsOf(type, k) = <<f>> \o <<e>> \o <<>>
        BY <1>1, <3>1, <3>2 DEF EventsOf
      <3>4. QED
        BY <3>3, OneOrTwo
    <2>5. PICK s : s = <<f, e>>
      OBVIOUS
    <2>6. s \in Seq(Events) /\ Len(s) = 2 /\ s[1] = f /\ s[2] = e
      BY <1>2, <2>3, <2>5
    <2>7. \A i \in 1 .. Len(s) : i \in {1, 2}
      BY <2>6
    <2>8. Paired(s)
      BY <1>2, <2>2, <2>3, <2>6, <2>7 DEF Paired
    <2>9. Sends(k) = {k, "ControlLeft"}
      BY <1>3 DEF Sends
    <2>10. \A c : (\E i \in 1 .. Len(s) : Presses(s[i], c)) => type = "keydown" /\ c \in Sends(k)
      BY <1>2, <2>3, <2>6, <2>7, <2>9 DEF Presses
    <2>11. type = "keyup" => \A c \in Sends(k) : \E i \in 1 .. Len(s) : Ends(s[i], c)
      BY <1>2, <2>3, <2>6, <2>9 DEF Ends
    <2>12. QED
      BY <2>4, <2>5, <2>6, <2>8, <2>10, <2>11
  <1>4. CASE ~(k = "AltRight" /\ browser.os = "windows") /\ type = "keydown" /\ Blind(k)
    <2>1. PICK f : f = Event("keypress", k)
      OBVIOUS
    <2>2. f \in Events /\ f.type = "keypress" /\ OwnSym(GetKeysym(f), k)
      BY <1>4, <2>1, CharacterSaid
    <2>3. EventsOf(type, k) = <<e, f>>
      <3>1. (IF k = "AltRight" /\ browser.os = "windows"
               THEN <<Event(type, "ControlLeft")>> ELSE <<>>) = <<>>
        BY <1>4, <2>1
      <3>2. (IF type = "keydown" /\ browser.legacy /\ k \in Chars
               THEN <<Event("keypress", k)>> ELSE <<>>) = <<f>>
        BY <1>4, <2>1 DEF Blind
      <3>3. EventsOf(type, k) = <<>> \o <<e>> \o <<f>>
        BY <1>1, <3>1, <3>2 DEF EventsOf
      <3>4. QED
        BY <3>3, OneOrTwo
    <2>4. PICK s : s = <<e, f>>
      OBVIOUS
    <2>5. s \in Seq(Events) /\ Len(s) = 2 /\ s[1] = e /\ s[2] = f
      BY <1>2, <2>2, <2>4
    <2>6. \A i \in 1 .. Len(s) : i \in {1, 2}
      BY <2>5
    <2>7. Paired(s)
      BY <1>2, <2>2, <2>5, <2>6 DEF Paired
    <2>8. \A c : (\E i \in 1 .. Len(s) : Presses(s[i], c)) => type = "keydown" /\ c \in Sends(k)
      BY <1>2, <1>4, <2>2, <2>5, <2>6 DEF Presses, Sends
    <2>9. QED
      BY <1>4, <2>3, <2>4, <2>5, <2>7, <2>8
  <1>5. CASE ~(k = "AltRight" /\ browser.os = "windows") /\ ~(type = "keydown" /\ Blind(k))
    <2>1. EventsOf(type, k) = <<e>>
      <3>1. (IF k = "AltRight" /\ browser.os = "windows"
               THEN <<Event(type, "ControlLeft")>> ELSE <<>>) = <<>>
        BY <1>5
      <3>2. (IF type = "keydown" /\ browser.legacy /\ k \in Chars
               THEN <<Event("keypress", k)>> ELSE <<>>) = <<>>
        BY <1>5 DEF Blind
      <3>3. EventsOf(type, k) = <<>> \o <<e>> \o <<>>
        BY <1>1, <3>1, <3>2 DEF EventsOf
      <3>4. QED
        BY <3>3, OneOrTwo
    <2>2. PICK s : s = <<e>>
      OBVIOUS
    <2>3. s \in Seq(Events) /\ Len(s) = 1 /\ s[1] = e
      BY <1>2, <2>2
    <2>4. Sends(k) = {k}
      BY <1>5 DEF Sends
    <2>5. Paired(s)
      BY <1>2, <1>5, <2>3 DEF Paired
    <2>6. \A c : (\E i \in 1 .. Len(s) : Presses(s[i], c)) => type = "keydown" /\ c \in Sends(k)
      BY <1>2, <2>3, <2>4 DEF Presses
    <2>7. type = "keyup" => \A c \in Sends(k) : \E i \in 1 .. Len(s) : Ends(s[i], c)
      BY <1>2, <2>3, <2>4 DEF Ends
    <2>8. QED
      BY <2>1, <2>2, <2>3, <2>5, <2>6, <2>7
  <1>6. QED
    BY <1>3, <1>4, <1>5

-----------------------------------------------------------------------------
(* The keyboard: the invariant.                                            *)

\* The keyboard of a session that only views: nothing is down.
Idle(x) == /\ Kept(x) /\ x.kb.viewOnly = TRUE /\ x.kb.armed = FALSE
           /\ Underway(x) = {}
           /\ \A e \in x.kb.timers : Blind(e.keyCode) /\ GetKeycode(e) = e.keyCode

WantedBy(h, c) == \E k \in h : c \in Sends(k)

\* With the keys h held and the focus at f, every key that will be down when
\* the events of q are handled is one that the user holds; none while the page
\* is away.  A key that waits for its character has it at the head of q.
Awaited(q, c) == q # <<>> /\ Head(q).type = "keypress" /\ OwnSym(GetKeysym(Head(q)), c)
Explained(x, q, h, f) ==
  /\ Ready(x) \/ Idle(x)
  /\ q \in Seq(Events) /\ Paired(q)
  /\ x.kb.pending # "" => Awaited(q, x.kb.pending)
  /\ \A c \in Codes : Settled(q, Underway(x), c) \/ (f # "away" /\ WantedBy(h, c))

KeysInv == /\ held \subseteq Chars \cup Others /\ focus \in {"canvas", "page", "away"}
           /\ loose = {} => Explained(Keys, queue, held, focus)

\* The browser does not change, and what was found of the next state is so then.
LEMMA ExplainedNext ==
  ASSUME NEW x, NEW q, NEW h, NEW f, Explained(x, q, h, f), browser' = browser,
         kb' = x.kb, keysDown' = x.keysDown, queue' = q, held' = h, focus' = f
  PROVE Explained(Keys, queue, held, focus)'
  <1>1. Keys' = [kb |-> x.kb, keysDown |-> x.keysDown]
    BY DEF Keys
  <1>2. \A c : Blind(c)' <=> Blind(c)
    BY DEF Blind
  <1>3. Kept(x) => Kept(Keys)'
    BY <1>1 DEF Kept, KeyOf
  <1>4. Ready(x) => Ready(Keys)'
    BY <1>1, <1>3 DEF Ready, Blind
  <1>5. Underway(Keys)' = Underway(x)
    BY <1>1 DEF Underway
  <1>6. Idle(x) => Idle(Keys)'
    BY <1>1, <1>3, <1>5 DEF Idle, Blind
  <1>7. Events' = Events
    BY DEF Events, EventOK, Blind
  <1>8. Paired(q) => Paired(queue)'
    BY DEF Paired, Blind
  <1>9. (x.kb.pending # "" => Awaited(q, x.kb.pending)) =>
          (Keys.kb.pending # "" => Awaited(queue, Keys.kb.pending))'
    BY <1>1 DEF Awaited
  <1>10. \A c : Settled(q, Underway(x), c) => Settled(queue, Underway(Keys), c)'
    BY <1>5 DEF Settled
  <1>11. \A c : WantedBy(h, c) => WantedBy(held, c)'
    BY DEF WantedBy, Sends
  <1>12. QED
    BY <1>4, <1>6, <1>7, <1>8, <1>9, <1>10, <1>11 DEF Explained

\* The keys of the keyboard have codes.
LEMMA KeysCoded == Chars \cup Others \subseteq Codes
  BY KeysAssumption DEF Codes

\* More events leave the character that is awaited at the head.
LEMMA HeadJoined ==
  ASSUME NEW q \in Seq(Events), NEW s \in Seq(Events), NEW c, Awaited(q, c)
  PROVE Awaited(q \o s, c)
  BY DEF Awaited

\* A press adds events of codes that the user then holds.
LEMMA PressExplained ==
  ASSUME KeysInv, loose = {}, NEW k \in Chars \cup Others, Press(k)
  PROVE KeysInv'
  <1>1. k \in Codes
    BY KeysCoded
  <1>2. PICK s : s = EventsOf("keydown", k)
    OBVIOUS
  <1>3. /\ s \in Seq(Events) /\ Paired(s)
        /\ \A c : (\E i \in 1 .. Len(s) : Presses(s[i], c)) => c \in Sends(k)
    BY <1>1, <1>2, EventsSent
  <1>4. PICK x, q, h, f : x = Keys /\ q = queue /\ h = held /\ f = focus
    OBVIOUS
  <1>5. PICK p : p = IF f = "canvas" THEN q \o s ELSE q
    OBVIOUS
  <1>6. Explained(x, q, h, f)
    BY <1>4 DEF KeysInv
  <1>7. Explained(x, p, h \cup {k}, f)
    <2>1. p \in Seq(Events) /\ Paired(p)
      BY <1>3, <1>5, <1>6, Joined, PairedJoined DEF Explained
    <2>2. x.kb.pending # "" => Awaited(p, x.kb.pending)
      BY <1>3, <1>5, <1>6, HeadJoined DEF Explained
    <2>3. ASSUME NEW c \in Codes
          PROVE  Settled(p, Underway(x), c) \/ (f # "away" /\ WantedBy(h \cup {k}, c))
      <3>1. CASE f # "canvas"
        BY <1>5, <1>6, <3>1 DEF Explained, WantedBy
      <3>2. CASE f = "canvas" /\ c \in Sends(k)
        BY <3>2 DEF WantedBy
      <3>3. CASE f = "canvas" /\ c \notin Sends(k)
        <4>1. \A i \in 1 .. Len(s) : ~Presses(s[i], c)
          BY <1>3, <3>3
        <4>2. Settled(q, Underway(x), c) => Settled(p, Underway(x), c)
          BY <1>3, <1>5, <1>6, <3>3, <4>1, SettledJoined DEF Explained
        <4>3. WantedBy(h, c) => WantedBy(h \cup {k}, c)
          BY DEF WantedBy
        <4>4. QED
          BY <1>6, <4>2, <4>3 DEF Explained
      <3>4. QED
        BY <3>1, <3>2, <3>3
    <2>4. QED
      BY <1>6, <2>1, <2>2, <2>3 DEF Explained
  <1>8. /\ browser' = browser /\ kb' = x.kb /\ keysDown' = x.keysDown /\ queue' = p
        /\ held' = h \cup {k} /\ focus' = f
    BY <1>2, <1>4, <1>5 DEF Press, Deliver, Keys
  <1>9. Explained(Keys, queue, held, focus)'
    BY <1>7, <1>8, ExplainedNext
  <1>10. QED
    BY <1>9 DEF KeysInv, Press

\* A release ends each code of its key, except that it is noted on the page.
LEMMA ReleaseExplained ==
  ASSUME KeysInv, loose = {}, NEW k \in Chars \cup Others, Release(k)
  PROVE KeysInv'
  <1>1. k \in Codes
    BY KeysCoded
  <1>2. PICK s : s = EventsOf("keyup", k)
    OBVIOUS
  <1>3. /\ s \in Seq(Events) /\ Paired(s)
        /\ \A c : \A i \in 1 .. Len(s) : ~Presses(s[i], c)
        /\ \A c \in Sends(k) : \E i \in 1 .. Len(s) : Ends(s[i], c)
    BY <1>1, <1>2, EventsSent
  <1>4. PICK x, q, h, f : x = Keys /\ q = queue /\ h = held /\ f = focus
    OBVIOUS
  <1>5. PICK p : p = IF f = "canvas" THEN q \o s ELSE q
    OBVIOUS
  <1>6. Explained(x, q, h, f)
    BY <1>4 DEF KeysInv
  <1>7. ASSUME f # "page"
        PROVE  Explained(x, p, h \ {k}, f)
    <2>1. p \in Seq(Events) /\ Paired(p)
      BY <1>3, <1>5, <1>6, Joined, PairedJoined DEF Explained
    <2>2. x.kb.pending # "" => Awaited(p, x.kb.pending)
      BY <1>3, <1>5, <1>6, HeadJoined DEF Explained
    <2>3. ASSUME NEW c \in Codes
          PROVE  Settled(p, Underway(x), c) \/ (f # "away" /\ WantedBy(h \ {k}, c))
      <3>1. CASE f = "away"
        BY <1>5, <1>6, <3>1 DEF Explained
      <3>2. CASE f = "canvas" /\ (c \in Sends(k) \/ Settled(q, Underway(x), c))
        BY <1>3, <1>5, <1>6, <3>2, SettledJoined DEF Explained
      <3>3. CASE f = "canvas" /\ c \notin Sends(k) /\ ~Settled(q, Underway(x), c)
        BY <1>6, <3>3 DEF Explained, WantedBy
      <3>4. QED
        BY <1>4, <1>7, <3>1, <3>2, <3>3 DEF KeysInv
    <2>4. QED
      BY <1>6, <2>1, <2>2, <2>3 DEF Explained
  <1>8. /\ browser' = browser /\ kb' = x.kb /\ keysDown' = x.keysDown /\ queue' = p
        /\ held' = h \ {k} /\ focus' = f
    BY <1>2, <1>4, <1>5 DEF Release, Deliver, Keys
  <1>9. loose' = {} => f # "page"
    BY <1>4 DEF Release
  <1>10. loose' = {} => Explained(Keys, queue, held, focus)'
    BY <1>7, <1>8, <1>9, ExplainedNext
  <1>11. QED
    BY <1>10 DEF KeysInv, Release

\* A blur on its way settles every key.
LEMMA LeaveExplained ==
  ASSUME KeysInv, loose = {}, Leave
  PROVE KeysInv'
  <1>1. PICK e : e = [type |-> "blur"]
    OBVIOUS
  <1>2. PICK s : s = <<e>>
    OBVIOUS
  <1>3. e \in Events /\ e.type = "blur"
    BY <1>1 DEF Events, EventOK
  <1>4. s \in Seq(Events) /\ Len(s) = 1 /\ s[1] = e
    BY <1>2, <1>3
  <1>5. Paired(s) /\ \A c : ~Presses(s[1], c) /\ Ends(s[1], c)
    BY <1>3, <1>4 DEF Paired, Presses, Ends
  <1>6. PICK x, q, h : x = Keys /\ q = queue /\ h = held
    OBVIOUS
  <1>7. Explained(x, q, h, focus)
    BY <1>6 DEF KeysInv
  <1>8. PICK p : p = q \o s
    OBVIOUS
  <1>9. Append(q, e) = p
    BY <1>2, <1>3, <1>7, <1>8, AppendIsConcat DEF Explained
  <1>10. Explained(x, p, h, "away")
    <2>1. p \in Seq(Events) /\ Paired(p)
      BY <1>4, <1>5, <1>7, <1>8, Joined, PairedJoined DEF Explained
    <2>2. x.kb.pending # "" => Awaited(p, x.kb.pending)
      BY <1>4, <1>7, <1>8, HeadJoined DEF Explained
    <2>3. \A c : \A i \in 1 .. Len(s) : ~Presses(s[i], c)
      BY <1>4, <1>5
    <2>4. \A c : \E i \in 1 .. Len(s) : Ends(s[i], c)
      BY <1>4, <1>5
    <2>5. \A c \in Codes : Settled(p, Underway(x), c)
      BY <1>4, <1>7, <1>8, <2>3, <2>4, SettledJoined DEF Explained
    <2>6. QED
      BY <1>7, <2>1, <2>2, <2>5 DEF Explained
  <1>11. /\ browser' = browser /\ kb' = x.kb /\ keysDown' = x.keysDown /\ queue' = p
         /\ held' = h /\ focus' = "away"
    BY <1>1, <1>6, <1>9 DEF Leave, Keys
  <1>12. Explained(Keys, queue, held, focus)'
    BY <1>10, <1>11, ExplainedNext
  <1>13. QED
    BY <1>12 DEF KeysInv, Leave

\* With the focus back the user may hold keys again.
LEMMA MoveFocusExplained ==
  ASSUME KeysInv, loose = {}, NEW place \in {"canvas", "page"}, MoveFocus(place)
  PROVE KeysInv'
  <1>1. PICK x, q, h : x = Keys /\ q = queue /\ h = held
    OBVIOUS
  <1>2. Explained(x, q, h, place)
    BY <1>1 DEF KeysInv, Explained
  <1>3. /\ browser' = browser /\ kb' = x.kb /\ keysDown' = x.keysDown /\ queue' = q
        /\ held' = h /\ focus' = place
    BY <1>1 DEF MoveFocus, Keys
  <1>4. Explained(Keys, queue, held, focus)'
    BY <1>2, <1>3, ExplainedNext
  <1>5. QED
    BY <1>4 DEF KeysInv, MoveFocus

\* View only with something under way is noted; else all is up.
LEMMA ToggleExplained ==
  ASSUME KeysInv, loose = {}, ToggleViewOnly
  PROVE KeysInv'
  <1>1. PICK x, q, h, f : x = Keys /\ q = queue /\ h = held /\ f = focus
    OBVIOUS
  <1>2. Explained(x, q, h, f)
    BY <1>1 DEF KeysInv
  <1>3. x.kb = kb /\ x.keysDown = keysDown
    BY <1>1 DEF Keys
  <1>4. PICK w : w = [x EXCEPT !.kb.viewOnly = ~@]
    OBVIOUS
  <1>5. Kept(x) /\ DOMAIN x = {"kb", "keysDown"} /\ DOMAIN x.kb = KbFields
    BY <1>2 DEF Explained, Ready, Idle, Kept
  <1>6. /\ DOMAIN w = {"kb", "keysDown"} /\ DOMAIN w.kb = KbFields
        /\ w.keysDown = x.keysDown /\ w.kb.down = x.kb.down /\ w.kb.pending = x.kb.pending
        /\ w.kb.armed = x.kb.armed /\ w.kb.timers = x.kb.timers
        /\ w.kb.viewOnly = ~x.kb.viewOnly
    BY <1>4, <1>5 DEF KbFields
  <1>7. Kept(w)
    BY <1>5, <1>6, KeptStays
  <1>8. CASE kb.viewOnly
    <2>1. Idle(x)
      BY <1>2, <1>3, <1>8 DEF Explained, Ready
    <2>2. Ready(w) /\ Underway(w) = Underway(x)
      BY <1>6, <1>7, <2>1 DEF Ready, Idle, Underway
    <2>3. Explained(w, q, h, f)
      BY <1>2, <1>6, <2>2 DEF Explained
    <2>4. /\ browser' = browser /\ kb' = w.kb /\ keysDown' = w.keysDown /\ queue' = q
          /\ held' = h /\ focus' = f
      BY <1>1, <1>4, <1>8 DEF ToggleViewOnly, Typed
    <2>5. Explained(Keys, queue, held, focus)'
      BY <2>3, <2>4, ExplainedNext
    <2>6. QED
      BY <2>5 DEF KeysInv, ToggleViewOnly
  <1>9. CASE ~kb.viewOnly
    <2>1. Ready(x)
      BY <1>2, <1>3, <1>9 DEF Explained, Idle
    <2>2. PICK z : z = AllKeysUp(w)
      OBVIOUS
    <2>3. z = [w EXCEPT !.kb.down = <<>>, !.keysDown = @ \ {}]
      BY <1>3, <1>6, <1>9, <2>2 DEF AllKeysUp
    <2>4. /\ DOMAIN z = {"kb", "keysDown"} /\ DOMAIN z.kb = KbFields
          /\ z.keysDown = w.keysDown /\ z.kb.down = <<>> /\ z.kb.pending = w.kb.pending
          /\ z.kb.armed = w.kb.armed /\ z.kb.timers = w.kb.timers
          /\ z.kb.viewOnly = w.kb.viewOnly
      BY <1>6, <2>3 DEF KbFields
    <2>5. ASSUME loose' = {}
          PROVE  Explained(z, q, h, f)
      <3>1. kb.down = <<>> /\ ~kb.armed /\ kb.pending = ""
        BY <2>5 DEF ToggleViewOnly
      <3>2. z.kb.down = x.kb.down
        BY <1>3, <2>4, <3>1
      <3>3. Kept(z)
        BY <1>5, <1>6, <2>4, <3>2, KeptStays
      <3>4. x.kb.armed = FALSE /\ x.kb.pending = "" /\ DOMAIN x.kb.down = {}
        BY <1>3, <2>1, <3>1, NothingDown DEF Ready
      <3>5. Underway(z) = {}
        BY <1>6, <2>4, <3>2, <3>4 DEF Underway
      <3>6. z.kb.viewOnly = TRUE
        BY <1>3, <1>6, <1>9, <2>4
      <3>7. Idle(z)
        BY <1>6, <2>1, <2>4, <3>3, <3>4, <3>5, <3>6 DEF Idle, Ready
      <3>8. \A c \in Codes : Settled(q, Underway(x), c) => Settled(q, Underway(z), c)
        BY <3>5, SettledLess
      <3>9. QED
        BY <1>2, <1>6, <2>4, <3>4, <3>7, <3>8 DEF Explained
    <2>6. /\ browser' = browser /\ kb' = z.kb /\ keysDown' = z.keysDown /\ queue' = q
          /\ held' = h /\ focus' = f
      BY <1>1, <1>4, <1>9, <2>2 DEF ToggleViewOnly, Typed
    <2>7. loose' = {} => Explained(Keys, queue, held, focus)'
      BY <2>5, <2>6, ExplainedNext
    <2>8. QED
      BY <2>7 DEF KeysInv, ToggleViewOnly
  <1>10. QED
    BY <1>8, <1>9

\* The event at the head of the queue does to its key what the queue says.
LEMMA HeadHandled ==
  ASSUME NEW x, NEW q, NEW h, NEW f, Explained(x, q, h, f), q # <<>>, NEW y,
         Ready(y) \/ Idle(y),
         \A c \in Codes : c \in Underway(y) => c \in Underway(x) \/ Presses(Head(q), c),
         \A c \in Codes : Ends(Head(q), c) => c \notin Underway(y),
         y.kb.pending # "" => Awaited(Tail(q), y.kb.pending)
  PROVE Explained(y, Tail(q), h, f)
  <1>1. q \in Seq(Events) /\ Tail(q) \in Seq(Events) /\ Paired(Tail(q))
    <2>1. q \in Seq(Events) /\ Paired(q)
      BY DEF Explained
    <2>2. Tail(q) \in Seq(Events)
      BY <2>1, HeadTailProperties
    <2>3. Paired(Tail(q))
      BY <2>1, PairedTail
    <2>4. QED
      BY <2>1, <2>2, <2>3
  <1>2. \A c \in Codes : Settled(q, Underway(x), c) => Settled(Tail(q), Underway(y), c)
    BY <1>1, SettledTail
  <1>3. QED
    BY <1>1, <1>2 DEF Explained

\* The handlers of the page (keydown, keypress, keyup, blur).
LEMMA EventExplained ==
  ASSUME KeysInv, loose = {}, HandleEvent
  PROVE KeysInv'
  <1>1. PICK x, q, h, f : x = Keys /\ q = queue /\ h = held /\ f = focus
    OBVIOUS
  <1>2. Explained(x, q, h, f) /\ q \in Seq(Events) /\ q # <<>>
    BY <1>1 DEF KeysInv, Explained, HandleEvent
  <1>3. x.kb = kb /\ x.keysDown = keysDown
    BY <1>1 DEF Keys
  <1>4. PICK e : e = Head(q)
    OBVIOUS
  <1>5. e \in Events /\ e.type \in {"keydown", "keypress", "keyup", "blur"}
    <2>1. e \in Events
      BY <1>2, <1>4
    <2>2. e \in KeyEvents \/ e = [type |-> "blur"]
      BY <2>1 DEF Events
    <2>3. QED
      <3>1. CASE e = [type |-> "blur"]
        BY <2>1, <3>1
      <3>2. CASE e \in KeyEvents
        BY <2>1, <3>2 DEF KeyEvents
      <3>3. QED
        BY <2>2, <3>1, <3>2
  <1>6. SUFFICES ASSUME loose' = {}
                 PROVE  \E y : /\ Explained(y, Tail(q), h, f)
                               /\ kb' = y.kb /\ keysDown' = y.keysDown
    <2>1. \A y : Explained(y, Tail(q), h, f) /\ kb' = y.kb /\ keysDown' = y.keysDown
                   => Explained(Keys, queue, held, focus)'
      <3>1. /\ browser' = browser /\ queue' = Tail(q) /\ held' = h /\ focus' = f
        BY <1>1 DEF HandleEvent
      <3>2. PICK p : p = Tail(q)
        OBVIOUS
      <3>3. QED
        BY <3>1, <3>2, ExplainedNext
    <2>2. QED
      BY <1>6, <2>1 DEF KeysInv, HandleEvent
  <1>7. CASE kb.viewOnly
    <2>1. Idle(x) /\ x.kb.pending = ""
      BY <1>2, <1>3, <1>7 DEF Explained, Ready, Idle, Underway
    <2>2. Explained(x, Tail(q), h, f)
      BY <1>2, <2>1, HeadHandled DEF Idle
    <2>3. kb' = x.kb /\ keysDown' = x.keysDown
      BY <1>1, <1>3, <1>7 DEF HandleEvent
    <2>4. QED
      BY <2>2, <2>3
  <1>8. CASE ~kb.viewOnly
    <2>1. Ready(x)
      BY <1>2, <1>3, <1>8 DEF Explained, Idle
    <2>2. PICK y : y = CASE e.type = "keydown" -> HandleKeyDown(x, e)
                         [] e.type = "keypress" -> HandleKeyPress(x, e)
                         [] e.type = "keyup" -> HandleKeyUp(x, e)
                         [] e.type = "blur" -> AllKeysUp(x)
      OBVIOUS
    <2>3. kb' = y.kb /\ keysDown' = y.keysDown
      BY <1>1, <1>4, <1>8, <2>2 DEF HandleEvent, Typed
    <2>4. e.type # "keypress" => x.kb.pending = ""
      BY <1>2, <1>4 DEF Explained, Awaited
    <2>5. CASE e.type = "keydown"
      <3>1. y = HandleKeyDown(x, e)
        BY <2>2, <2>5
      <3>2. /\ Ready(y) /\ Underway(y) \subseteq Underway(x) \cup {GetKeycode(e)}
            /\ y.kb.pending \in {"", GetKeycode(e)}
        BY <1>5, <2>1, <2>4, <2>5, <3>1, DownHandled
      <3>3. \A c : (c \in Underway(y) => c \in Underway(x) \/ Presses(e, c)) /\ ~Ends(e, c)
        BY <2>5, <3>2 DEF Presses, Ends
      <3>4. ASSUME y.kb.pending # ""
            PROVE  Awaited(Tail(q), y.kb.pending)
        <4>1. y.kb.pending = GetKeycode(e) /\ Blind(GetKeycode(e))
          BY <3>2, <3>4 DEF Ready
        <4>2. /\ Len(q) \in Nat \ {0} /\ Head(q) = q[1] /\ 1 \in 1 .. Len(q)
              /\ Len(Tail(q)) = Len(q) - 1 /\ Tail(q) \in Seq(Events)
          BY <1>2
        <4>3. /\ 2 \in 1 .. Len(q) /\ q[2].type = "keypress"
              /\ OwnSym(GetKeysym(q[2]), GetKeycode(e))
          <5>1. q[1] = e /\ Paired(q)
            BY <1>2, <1>4, <4>2 DEF Explained
          <5>2. /\ 1 + 1 \in 1 .. Len(q) /\ q[1 + 1].type = "keypress"
                /\ OwnSym(GetKeysym(q[1 + 1]), GetKeycode(q[1]))
            BY <2>5, <4>1, <4>2, <5>1 DEF Paired
          <5>3. 1 + 1 = 2
            OBVIOUS
          <5>4. QED
            BY <5>1, <5>2, <5>3
        <4>4. Tail(q) # <<>> /\ Head(Tail(q)) = q[2]
          <5>1. Len(Tail(q)) > 0 /\ 1 \in 1 .. Len(q) - 1
            BY <4>2, <4>3
          <5>2. Tail(q) # <<>>
            BY <5>1, EmptySeq
          <5>3. Head(Tail(q)) = Tail(q)[1]
            BY <4>2, <5>2
          <5>4. Tail(q)[1] = q[1 + 1]
            BY <1>2, <5>1
          <5>5. QED
            BY <5>2, <5>3, <5>4
        <4>5. QED
          BY <4>1, <4>3, <4>4 DEF Awaited
      <3>5. Explained(y, Tail(q), h, f)
        BY <1>2, <1>4, <3>2, <3>3, <3>4, HeadHandled
      <3>6. QED
        BY <2>3, <3>5
    <2>6. CASE e.type = "keypress"
      <3>1. y = HandleKeyPress(x, e)
        BY <2>2, <2>6
      <3>2. x.kb.pending # "" => OwnSym(GetKeysym(e), x.kb.pending)
        BY <1>2, <1>4 DEF Explained, Awaited
      <3>3. Ready(y) /\ Underway(y) \subseteq Underway(x) /\ y.kb.pending = ""
        BY <1>5, <2>1, <2>6, <3>1, <3>2, PressHandled
      <3>4. \A c : ~Ends(e, c)
        BY <2>6 DEF Ends
      <3>5. Explained(y, Tail(q), h, f)
        BY <1>2, <1>4, <3>3, <3>4, HeadHandled
      <3>6. QED
        BY <2>3, <3>5
    <2>7. CASE e.type = "keyup"
      <3>1. y = HandleKeyUp(x, e)
        BY <2>2, <2>7
      <3>2. /\ Ready(y) /\ Underway(y) \subseteq Underway(x) \ {GetKeycode(e)}
            /\ y.kb.pending = ""
        BY <1>5, <2>1, <2>4, <2>7, <3>1, UpHandled
      <3>3. \A c : Ends(e, c) => c \notin Underway(y)
        BY <2>7, <3>2 DEF Ends
      <3>4. Explained(y, Tail(q), h, f)
        BY <1>2, <1>4, <3>2, <3>3, HeadHandled
      <3>5. QED
        BY <2>3, <3>4
    <2>8. CASE e.type = "blur"
      <3>1. y = AllKeysUp(x)
        BY <2>2, <2>8
      <3>2. ~kb.armed /\ kb.pending = ""
        BY <1>1, <1>4, <1>6, <2>8 DEF HandleEvent
      <3>3. x.kb.armed = FALSE
        BY <1>3, <2>1, <3>2 DEF Ready
      <3>4. Ready(y) /\ Underway(y) = {} /\ y.kb.pending = ""
        BY <2>1, <2>4, <2>8, <3>1, <3>3, BlurHandled
      <3>5. Explained(y, Tail(q), h, f)
        BY <1>2, <3>4, HeadHandled
      <3>6. QED
        BY <2>3, <3>5
    <2>9. QED
      BY <1>5, <2>5, <2>6, <2>7, <2>8
  <1>9. QED
    BY <1>7, <1>8

\* The age of a Control held back matters to the next keydown only.
LEMMA TimePassesExplained ==
  ASSUME KeysInv, loose = {}, TimePasses
  PROVE KeysInv'
  <1>1. PICK x, q, h, f : x = Keys /\ q = queue /\ h = held /\ f = focus
    OBVIOUS
  <1>2. Explained(x, q, h, f)
    BY <1>1 DEF KeysInv
  <1>3. PICK y : y = [x EXCEPT !.kb.fresh = FALSE]
    OBVIOUS
  <1>4. x.kb = kb /\ x.keysDown = keysDown
    BY <1>1 DEF Keys
  <1>5. Kept(x) /\ DOMAIN x = {"kb", "keysDown"} /\ DOMAIN x.kb = KbFields
    BY <1>2 DEF Explained, Ready, Idle, Kept
  <1>6. /\ DOMAIN y = {"kb", "keysDown"} /\ DOMAIN y.kb = KbFields
        /\ y.keysDown = x.keysDown /\ y.kb.down = x.kb.down /\ y.kb.pending = x.kb.pending
        /\ y.kb.armed = x.kb.armed /\ y.kb.timers = x.kb.timers
        /\ y.kb.viewOnly = x.kb.viewOnly /\ y.kb = [x.kb EXCEPT !.fresh = FALSE]
    BY <1>3, <1>5 DEF KbFields
  <1>7. Kept(y) /\ Underway(y) = Underway(x)
    BY <1>5, <1>6, KeptStays DEF Underway
  <1>8. Explained(y, q, h, f)
    BY <1>2, <1>6, <1>7 DEF Explained, Ready, Idle
  <1>9. /\ browser' = browser /\ kb' = y.kb /\ keysDown' = y.keysDown /\ queue' = q
        /\ held' = h /\ focus' = f
    BY <1>1, <1>4, <1>6 DEF TimePasses
  <1>10. Explained(Keys, queue, held, focus)'
    BY <1>8, <1>9, ExplainedNext
  <1>11. QED
    BY <1>10 DEF KeysInv, TimePasses

\* The timer of an AltGr that did not come (_handleAltGrTimeout).
LEMMA AltGrTimeoutExplained ==
  ASSUME KeysInv, loose = {}, HandleAltGrTimeout
  PROVE KeysInv'
  <1>1. PICK x, q, h, f : x = Keys /\ q = queue /\ h = held /\ f = focus
    OBVIOUS
  <1>2. Explained(x, q, h, f) /\ x.kb = kb
    BY <1>1 DEF KeysInv, Keys
  <1>3. Ready(x)
    BY <1>2 DEF Explained, Idle, HandleAltGrTimeout
  <1>4. PICK y : y = ControlAfterAll(x)
    OBVIOUS
  <1>5. Ready(y) /\ y.kb.pending = x.kb.pending /\ Underway(y) = Underway(x)
    BY <1>3, <1>4, ControlReady
  <1>6. Explained(y, q, h, f)
    BY <1>2, <1>5 DEF Explained
  <1>7. /\ browser' = browser /\ kb' = y.kb /\ keysDown' = y.keysDown /\ queue' = q
        /\ held' = h /\ focus' = f
    BY <1>1, <1>4 DEF HandleAltGrTimeout, Typed
  <1>8. Explained(Keys, queue, held, focus)'
    BY <1>6, <1>7, ExplainedNext
  <1>9. QED
    BY <1>8 DEF KeysInv, HandleAltGrTimeout

\* The timer of a character (_handleKeyPressTimeout), unless it is a stale one.
LEMMA PressTimeoutExplained ==
  ASSUME KeysInv, loose = {}, KeyPressTimeout
  PROVE KeysInv'
  <1>1. PICK x, q, h, f : x = Keys /\ q = queue /\ h = held /\ f = focus
    OBVIOUS
  <1>2. Explained(x, q, h, f) /\ x.kb = kb
    BY <1>1 DEF KeysInv, Keys
  <1>3. PICK e \in kb.timers : /\ Typed(HandleKeyPressTimeout(Keys, e))
                               /\ loose' = IF kb.pending \notin {"", GetKeycode(e)}
                                             THEN loose \cup {"stale"} ELSE loose
    BY DEF KeyPressTimeout
  <1>4. PICK y : y = HandleKeyPressTimeout(x, e)
    OBVIOUS
  <1>5. ASSUME loose' = {}
        PROVE  Explained(y, q, h, f)
    <2>1. x.kb.pending \in {"", GetKeycode(e)}
      BY <1>2, <1>3, <1>5
    <2>2. CASE Ready(x)
      <3>1. Ready(y) /\ Underway(y) \subseteq Underway(x) /\ y.kb.pending = ""
        BY <1>2, <1>4, <2>1, <2>2, TimeoutHandled
      <3>2. \A c \in Codes : Settled(q, Underway(x), c) => Settled(q, Underway(y), c)
        BY <3>1, SettledLess
      <3>3. QED
        BY <1>2, <3>1, <3>2 DEF Explained
    <2>3. CASE Idle(x)
      <3>1. x.kb.pending = "" /\ DOMAIN x = {"kb", "keysDown"} /\ DOMAIN x.kb = KbFields
        BY <2>3 DEF Idle, Underway, Kept
      <3>2. y = [x EXCEPT !.kb.timers = @ \ {e}, !.kb.pending = ""]
        BY <1>4, <3>1 DEF HandleKeyPressTimeout
      <3>3. /\ DOMAIN y = {"kb", "keysDown"} /\ DOMAIN y.kb = KbFields
            /\ y.keysDown = x.keysDown /\ y.kb.down = x.kb.down /\ y.kb.pending = ""
            /\ y.kb.armed = x.kb.armed /\ y.kb.timers = x.kb.timers \ {e}
            /\ y.kb.viewOnly = x.kb.viewOnly
        BY <3>1, <3>2 DEF KbFields
      <3>4. Kept(y)
        BY <2>3, <3>3, KeptStays DEF Idle
      <3>5. Underway(y) = Underway(x)
        BY <3>1, <3>3 DEF Underway
      <3>6. Idle(y)
        BY <2>3, <3>3, <3>4, <3>5 DEF Idle
      <3>7. QED
        BY <1>2, <3>3, <3>5, <3>6 DEF Explained
    <2>4. QED
      BY <1>2, <2>2, <2>3 DEF Explained
  <1>6. /\ browser' = browser /\ kb' = y.kb /\ keysDown' = y.keysDown /\ queue' = q
        /\ held' = h /\ focus' = f
    BY <1>1, <1>3, <1>4 DEF KeyPressTimeout, Typed
  <1>7. loose' = {} => Explained(Keys, queue, held, focus)'
    BY <1>5, <1>6, ExplainedNext
  <1>8. QED
    BY <1>7 DEF KeysInv, KeyPressTimeout

\* At first nothing is down and nothing on its way.
LEMMA KeysBegin == KeyInit => KeysInv
  <1> SUFFICES ASSUME KeyInit PROVE KeysInv
    OBVIOUS
  <1>1. PICK x : x = Keys
    OBVIOUS
  <1>2. /\ DOMAIN x = {"kb", "keysDown"} /\ DOMAIN x.kb = KbFields
        /\ x.keysDown = {} /\ x.kb.down = <<>> /\ x.kb.pending = "" /\ x.kb.armed = FALSE
        /\ x.kb.timers = {} /\ x.kb.viewOnly = FALSE
    BY <1>1 DEF KeyInit, Keys, KbFields
  <1>3. DOMAIN x.kb.down = {}
    BY <1>2, NothingDown
  <1>4. Kept(x) /\ Underway(x) = {}
    BY <1>2, <1>3 DEF Kept, Underway
  <1>5. Ready(x)
    BY <1>2, <1>3, <1>4 DEF Ready
  <1>6. queue \in Seq(Events) /\ Paired(queue) /\ \A c : Settled(queue, {}, c)
    <2>1. <<>> \in Seq(Events) /\ Len(<<>>) = 0 /\ queue = <<>>
      BY EmptySeq DEF KeyInit
    <2>2. QED
      BY <2>1 DEF Paired, Settled
  <1>7. Explained(x, queue, held, focus)
    BY <1>2, <1>4, <1>5, <1>6 DEF Explained
  <1>8. QED
    BY <1>1, <1>7 DEF KeysInv, KeyInit

\* What is in "loose" stays there, so that the invariant has to be kept only
\* while it is empty.
LEMMA KeysKept == KeysInv /\ [KeyNext]_keyVars => KeysInv'
  <1> SUFFICES ASSUME KeysInv, [KeyNext]_keyVars PROVE KeysInv'
    OBVIOUS
  <1>1. ASSUME loose # {}
        PROVE  KeysInv'
    <2>1. ASSUME KeyNext
          PROVE  /\ loose' # {}
                 /\ held' \subseteq Chars \cup Others /\ focus' \in {"canvas", "page", "away"}
      <3>1. CASE \E k \in Chars \cup Others : Press(k)
        BY <1>1, <3>1 DEF Press, KeysInv
      <3>2. CASE \E k \in Chars \cup Others : Release(k)
        BY <1>1, <3>2 DEF Release, KeysInv
      <3>3. CASE Leave
        BY <1>1, <3>3 DEF Leave, KeysInv
      <3>4. CASE \E place \in {"canvas", "page"} : MoveFocus(place)
        BY <1>1, <3>4 DEF MoveFocus, KeysInv
      <3>5. CASE ToggleViewOnly
        BY <1>1, <3>5 DEF ToggleViewOnly, KeysInv
      <3>6. CASE HandleEvent
        BY <1>1, <3>6 DEF HandleEvent, KeysInv
      <3>7. CASE TimePasses
        BY <1>1, <3>7 DEF TimePasses, KeysInv
      <3>8. CASE HandleAltGrTimeout
        BY <1>1, <3>8 DEF HandleAltGrTimeout, KeysInv
      <3>9. CASE KeyPressTimeout
        BY <1>1, <3>9 DEF KeyPressTimeout, KeysInv
      <3>10. QED
        BY <2>1, <3>1, <3>2, <3>3, <3>4, <3>5, <3>6, <3>7, <3>8, <3>9 DEF KeyNext
    <2>2. CASE UNCHANGED keyVars
      BY <1>1, <2>2 DEF keyVars, KeysInv
    <2>3. QED
      BY <2>1, <2>2 DEF KeysInv
  <1>2. CASE loose = {} /\ KeyNext
    BY <1>2, PressExplained, ReleaseExplained, LeaveExplained, MoveFocusExplained,
       ToggleExplained, EventExplained, TimePassesExplained, AltGrTimeoutExplained,
       PressTimeoutExplained DEF KeyNext
  <1>3. CASE loose = {} /\ UNCHANGED keyVars
    <2>1. PICK x, q, h, f : x = Keys /\ q = queue /\ h = held /\ f = focus
      OBVIOUS
    <2>2. Explained(x, q, h, f)
      BY <1>3, <2>1 DEF KeysInv
    <2>3. /\ browser' = browser /\ kb' = x.kb /\ keysDown' = x.keysDown /\ queue' = q
          /\ held' = h /\ focus' = f
      BY <1>3, <2>1 DEF keyVars, Keys
    <2>4. Explained(Keys, queue, held, focus)'
      BY <2>2, <2>3, ExplainedNext
    <2>5. QED
      BY <1>3, <2>4 DEF KeysInv, keyVars
  <1>4. QED
    BY <1>1, <1>2, <1>3

\* What the invariant says once every event is handled.
LEMMA KeysReleasedThen == KeysInv => KeysReleased
  <1> SUFFICES ASSUME KeysInv, queue = <<>>, loose = {}, NEW key \in keysDown
               PROVE  HeldKey(key)
    BY DEF KeysReleased
  <1>1. PICK x : x = Keys
    OBVIOUS
  <1>2. Explained(x, queue, held, focus) /\ Kept(x) /\ key \in x.keysDown
    BY <1>1 DEF KeysInv, Explained, Ready, Idle, Keys
  <1>3. PICK c \in DOMAIN x.kb.down : key = KeyOf(x, c)
    BY <1>2 DEF Kept
  <1>4. OwnSym(x.kb.down[c], c) /\ c \in Codes
    BY <1>2 DEF Kept
  <1>5. Len(queue) = 0
    BY EmptySeq
  <1>6. ~Settled(queue, Underway(x), c)
    <2>1. c \in Underway(x)
      BY DEF Underway
    <2>2. \A i \in 1 .. Len(queue) : FALSE
      BY <1>5
    <2>3. QED
      BY <2>1, <2>2 DEF Settled
  <1>7. PICK k \in held : c \in Sends(k)
    BY <1>2, <1>4, <1>6 DEF Explained, WantedBy
  <1>8. key[1] \in {c, MacSym(<<c, FALSE>>)[1]} \/ (c = "AltRight" /\ key = Level3)
    BY <1>3, <1>4 DEF KeyOf, OwnSym
  <1>9. CASE c = k
    BY <1>8, <1>9 DEF HeldKey
  <1>10. CASE c # k
    <2>1. k = "AltRight" /\ browser.os = "windows" /\ c = "ControlLeft"
      BY <1>7, <1>10 DEF Sends
    <2>2. MacSym(<<"ControlLeft", FALSE>>) = <<"ControlLeft", FALSE>>
      BY DEF MacSym
    <2>3. key[1] = "ControlLeft"
      BY <1>8, <2>1, <2>2
    <2>4. QED
      BY <2>1, <2>3 DEF HeldKey
  <1>11. QED
    BY <1>9, <1>10

\* Once every event is handled, no key is down in the guest that the user does
\* not hold, but for the exceptions.
THEOREM KeysReleasedHolds == KeySpec => []KeysReleased
  <1>1. KeySpec => []KeysInv
    BY KeysBegin, KeysKept, PTL DEF KeySpec
  <1>2. QED
    BY <1>1, KeysReleasedThen, PTL

-----------------------------------------------------------------------------
(* What the user types at the console terminal.                            *)

\* The timeouts of CompositionHelper.
Timers == [do : {"end"}] \cup [do : {"send"}, start : Int, end : Int]
            \cup [do : {"diff"}, old : Seq(Int)]

TypingFields == {"area", "marked", "composing", "sending", "start", "end", "timers",
                 "sent", "view"}

Textarea(k) ==
  /\ DOMAIN k = TypingFields
  /\ k.area \in Seq(Int) /\ k.sent \in Seq(Int) /\ k.timers \in Seq(Timers)
  /\ k.marked \in BOOLEAN /\ k.composing \in BOOLEAN /\ k.sending \in BOOLEAN
  /\ k.start \in Int /\ k.end \in Int

\* No number of the text has yet to come.
Known(text, n) == \A i \in 1 .. Len(text) : text[i] <= n

TypingTyped ==
  /\ Textarea(typing)
  /\ ime \in [on : BOOLEAN, base : Seq(Int), text : Seq(Int)]
  /\ meant \in Seq(Int)
  /\ acted \in [acts : Int, n : Nat]
  /\ typing.composing = ime.on
  /\ Known(typing.area, acted.n) /\ Known(ime.base, acted.n) /\ Known(ime.text, acted.n)

SendsIn(ts) == {i \in 1 .. Len(ts) : ts[i].do = "send"}
DiffsIn(ts) == {i \in 1 .. Len(ts) : ts[i].do = "diff"}
FirstSend(ts, i) == i \in SendsIn(ts) /\ \A j \in SendsIn(ts) : i <= j
LastSend(ts, i) == i \in SendsIn(ts) /\ \A j \in SendsIn(ts) : j <= i

\* The text after a position.
From(text, a) == SubSeq(text, a + 1, Len(text))

\* What was meant is sent but for the text after a position.
SentFrom(m, sent, text, a) == a \in 0 .. Len(text) /\ m = sent \o From(text, a)

\* No composition is under way or to be sent.
Neither(k, m) ==
  /\ ~k.composing /\ ~k.sending
  /\ DiffsIn(k.timers) = {} => m = k.sent
  /\ \A i \in DiffsIn(k.timers) : m = k.sent \o Difference(k.area, k.timers[i].old)

\* One is composed over the text b.
Composing(k, b, m) ==
  /\ k.composing /\ ~k.marked /\ k.start = Len(b)
  /\ IF k.sending THEN SendsIn(k.timers) # {} /\ DiffsIn(k.timers) = {} ELSE m = k.sent
  /\ \A i \in DiffsIn(k.timers) : k.timers[i].old = b
  /\ \A i \in SendsIn(k.timers) :
       /\ k.timers[i].end = Len(b)
       /\ IF FirstSend(k.timers, i) /\ k.sending
            THEN SentFrom(m, k.sent, b, k.timers[i].start)
            ELSE k.timers[i].start = Len(b)

\* The last one has ended and is to be sent.
Ended(k, m) ==
  /\ ~k.composing /\ k.sending /\ ~k.marked /\ SendsIn(k.timers) # {}
  /\ \A i \in SendsIn(k.timers) : FirstSend(k.timers, i) =>
       /\ SentFrom(m, k.sent, k.area, k.timers[i].start)
       /\ DiffsIn(k.timers) # {} => k.timers[i].start = Len(k.area)
  /\ \A i, j \in SendsIn(k.timers) : i < j => k.timers[j].start = k.timers[i].end
  /\ \A i \in SendsIn(k.timers) : LastSend(k.timers, i) => k.timers[i].start = k.start
  /\ \A i \in DiffsIn(k.timers) : k.timers[i].old = k.area

TypingHolds(k, h, m) ==
  /\ \A i, j \in DiffsIn(k.timers) : i = j
  /\ IF h.on THEN Composing(k, h.base, m) /\ k.area = h.base \o h.text
     ELSE Neither(k, m) \/ Ended(k, m)

TypingInv == spoilt = {} => TypingHolds(typing, ime, meant)

-----------------------------------------------------------------------------
(* Texts.                                                                  *)

\* The text after a position is a text.
LEMMA FromIsText ==
  ASSUME NEW s \in Seq(Int), NEW a \in 0 .. Len(s)
  PROVE  /\ From(s, a) \in Seq(Int) /\ Len(From(s, a)) = Len(s) - a
         /\ \A i \in 1 .. Len(s) - a : From(s, a)[i] = s[a + i]
<1>1. \A i \in a + 1 .. Len(s) : s[i] \in Int
  OBVIOUS
<1>2. /\ From(s, a) \in Seq(Int)
      /\ Len(From(s, a)) = IF a + 1 <= Len(s) THEN Len(s) - (a + 1) + 1 ELSE 0
      /\ \A i \in 1 .. Len(s) - (a + 1) + 1 : From(s, a)[i] = s[a + 1 + i - 1]
  <2>1. PICK m, n : m = a + 1 /\ n = Len(s)
    OBVIOUS
  <2>2. m \in Int /\ n \in Int /\ \A i \in m .. n : s[i] \in Int
    BY <1>1, <2>1
  <2>3. /\ SubSeq(s, m, n) \in Seq(Int)
        /\ Len(SubSeq(s, m, n)) = IF m <= n THEN n - m + 1 ELSE 0
        /\ \A i \in 1 .. n - m + 1 : SubSeq(s, m, n)[i] = s[m + i - 1]
    BY <2>2, SubSeqProperties
  <2> QED BY <2>1, <2>3 DEF From
<1> QED BY <1>2

\* Nothing is after the end.
LEMMA FromTheEnd ==
  ASSUME NEW s \in Seq(Int)
  PROVE  From(s, Len(s)) = <<>>
<1>1. From(s, Len(s)) \in Seq(Int) /\ Len(From(s, Len(s))) = 0
  BY FromIsText
<1> QED BY <1>1, EmptySeq

\* What is added to a text is after every position of it.
LEMMA FromLonger ==
  ASSUME NEW s \in Seq(Int), NEW u \in Seq(Int), NEW a \in 0 .. Len(s)
  PROVE  From(s \o u, a) = From(s, a) \o u
<1> DEFINE x == s \o u
           y == From(s, a)
<1>1. /\ x \in Seq(Int) /\ Len(x) = Len(s) + Len(u)
      /\ \A i \in 1 .. Len(s) + Len(u) : x[i] = IF i <= Len(s) THEN s[i] ELSE u[i - Len(s)]
  BY ConcatProperties
<1>2. y \in Seq(Int) /\ Len(y) = Len(s) - a /\ \A i \in 1 .. Len(s) - a : y[i] = s[a + i]
  BY FromIsText
<1> HIDE DEF x, y
<1>3. a \in 0 .. Len(x)
  BY <1>1
<1>4. /\ From(x, a) \in Seq(Int) /\ Len(From(x, a)) = Len(x) - a
      /\ \A i \in 1 .. Len(x) - a : From(x, a)[i] = x[a + i]
  BY <1>1, <1>3, FromIsText
<1>5. /\ y \o u \in Seq(Int) /\ Len(y \o u) = Len(y) + Len(u)
      /\ \A i \in 1 .. Len(y) + Len(u) : (y \o u)[i] = IF i <= Len(y) THEN y[i] ELSE u[i - Len(y)]
  BY <1>2, ConcatProperties
<1>6. Len(From(x, a)) = Len(y \o u)
  BY <1>1, <1>2, <1>4, <1>5
<1>7. ASSUME NEW i \in 1 .. Len(From(x, a)) PROVE From(x, a)[i] = (y \o u)[i]
  <2>1. From(x, a)[i] = x[a + i] /\ a + i \in 1 .. Len(s) + Len(u) /\ i \in 1 .. Len(y) + Len(u)
    BY <1>1, <1>2, <1>4
  <2>2. CASE i <= Len(y)
    <3>1. i \in 1 .. Len(s) - a /\ a + i <= Len(s)
      BY <2>2, <1>2
    <3>2. x[a + i] = s[a + i]
      BY <2>1, <3>1, <1>1
    <3>3. (y \o u)[i] = y[i] /\ y[i] = s[a + i]
      BY <2>1, <2>2, <3>1, <1>2, <1>5
    <3> QED BY <2>1, <3>2, <3>3
  <2>3. CASE ~(i <= Len(y))
    <3>1. ~(a + i <= Len(s)) /\ a + i - Len(s) = i - Len(y)
      BY <2>3, <1>2
    <3>2. x[a + i] = u[a + i - Len(s)]
      <4>1. PICK j : j = a + i
        OBVIOUS
      <4>2. j \in 1 .. Len(s) + Len(u) /\ ~(j <= Len(s))
        BY <2>1, <3>1, <4>1
      <4>3. x[j] = u[j - Len(s)]
        BY <4>2, <1>1
      <4> QED BY <4>1, <4>3
    <3>3. (y \o u)[i] = u[i - Len(y)]
      BY <2>1, <2>3, <1>5
    <3> QED BY <2>1, <3>1, <3>2, <3>3
  <2> QED BY <2>2, <2>3
<1> QED BY <1>4, <1>5, <1>6, <1>7, SeqEqual DEF x, y

\* Whatever the positions are, also one never noted, substring returns a text.
LEMMA SubstringIsText ==
  ASSUME NEW s \in Seq(Int), NEW a \in Int, NEW b \in Int
  PROVE  Substring(s, a, b) \in Seq(Int)
<1> DEFINE Place(n) == IF n < 0 THEN 0 ELSE IF n > Len(s) THEN Len(s) ELSE n
<1>1. ASSUME NEW n \in Int PROVE Place(n) \in 0 .. Len(s)
  BY LenProperties
<1>2. PICK x \in 0 .. Len(s), y \in 0 .. Len(s) : x = Place(a) /\ y = Place(b)
  BY <1>1
<1>3. Substring(s, a, b) = SubSeq(s, (IF x < y THEN x ELSE y) + 1, IF x < y THEN y ELSE x)
  BY <1>2 DEF Substring
<1>4. ASSUME NEW u \in 0 .. Len(s), NEW v \in 0 .. Len(s) PROVE SubSeq(s, u + 1, v) \in Seq(Int)
  OBVIOUS
<1> QED BY <1>3, <1>4

\* A composition is read from the textarea up to what another one added.
LEMMA SubstringIs ==
  ASSUME NEW s \in Seq(Int), NEW u \in Seq(Int), NEW a \in 0 .. Len(s)
  PROVE  Substring(s \o u, a, Len(s)) = From(s, a)
<1>1. Len(s) \in Nat /\ Len(s \o u) = Len(s) + Len(u) /\ s \o u \in Seq(Int)
  BY ConcatProperties
<1>2. Substring(s \o u, a, Len(s)) = SubSeq(s \o u, a + 1, Len(s))
  <2>1. PICK x, n : x = s \o u /\ n = Len(s)
    OBVIOUS
  <2>2. n \in Nat /\ a \in 0 .. n /\ Len(x) \in Nat /\ n <= Len(x)
    BY <1>1, <2>1
  <2>3. /\ ~(a < 0) /\ ~(a > Len(x)) /\ ~(n < 0) /\ ~(n > Len(x))
        /\ (IF a < n THEN a ELSE n) = a /\ (IF a < n THEN n ELSE a) = n
    BY <2>2
  <2> QED BY <2>1, <2>3 DEF Substring
<1>3. \A i \in a + 1 .. Len(s) : (s \o u)[i] = s[i] /\ s[i] \in Int
  BY ConcatProperties
<1>4. SubSeq(s \o u, a + 1, Len(s)) = SubSeq(s, a + 1, Len(s))
  BY <1>1, <1>3
<1> QED BY <1>2, <1>4 DEF From

\* A composition is read up to the end.
LEMMA SubstringToEnd ==
  ASSUME NEW s \in Seq(Int), NEW a \in 0 .. Len(s)
  PROVE  Substring(s, a, Len(s)) = From(s, a)
<1>1. s \o <<>> = s /\ <<>> \in Seq(Int)
  BY ConcatEmptySeq
<1> QED BY <1>1, SubstringIs

\* One more item.
LEMMA SingleText ==
  ASSUME NEW s \in Seq(Int), NEW a \in Int
  PROVE  s \o <<a>> \in Seq(Int) /\ Len(s \o <<a>>) = Len(s) + 1
  BY ConcatProperties

-----------------------------------------------------------------------------
(* What Difference finds.                                                  *)

\* A text that was only continued.
LEMMA DifferenceIsNew ==
  ASSUME NEW s \in Seq(Int), NEW u \in Seq(Int)
  PROVE  Difference(s \o u, s) = u
<1> DEFINE t == s \o u
           Found(i) == /\ s \in SubSeqs(SubSeq(t, 1, i))
                       /\ \A j \in 0 .. i - 1 : s \notin SubSeqs(SubSeq(t, 1, j))
<1>1. CASE s = <<>>
  BY <1>1, ConcatEmptySeq DEF Difference
<1>2. CASE s # <<>>
  <2>1. /\ t \in Seq(Int) /\ Len(t) = Len(s) + Len(u) /\ Len(s) \in Nat /\ Len(s) > 0
        /\ \A i \in 1 .. Len(s) : t[i] = s[i]
        /\ \A i \in 1 .. Len(u) : t[Len(s) + i] = u[i]
    BY <1>2, ConcatProperties, EmptySeq
  <2>2. ASSUME NEW j \in 0 .. Len(t)
        PROVE  SubSeq(t, 1, j) \in Seq(Int) /\ Len(SubSeq(t, 1, j)) = j
    BY <2>1
  <2>3. ASSUME NEW j \in 0 .. Len(s) - 1
        PROVE  s \notin SubSeqs(SubSeq(t, 1, j))
    <3>1. PICK v : v = SubSeq(t, 1, j)
      OBVIOUS
    <3>2. v \in Seq(Int) /\ Len(v) = j
      BY <2>1, <2>2, <3>1
    <3>3. ASSUME NEW a \in 0 .. Len(v), NEW b \in 0 .. Len(v) PROVE Len(SubSeq(v, a + 1, b)) <= j
      BY <3>2
    <3> QED BY <2>1, <3>1, <3>2, <3>3 DEF SubSeqs
  <2>4. SubSeq(t, 1, Len(s)) = s
    <3>1. SubSeq(t, 1, Len(s)) \in Seq(Int) /\ Len(SubSeq(t, 1, Len(s))) = Len(s)
      BY <2>1, <2>2
    <3>2. \A i \in 1 .. Len(s) : SubSeq(t, 1, Len(s))[i] = s[i]
      BY <2>1
    <3> QED BY <3>1, <3>2, SeqEqual
  <2>5. s \in SubSeqs(s)
    <3>1. SubSeq(s, 0 + 1, Len(s)) = s /\ 0 \in 0 .. Len(s) /\ Len(s) \in 0 .. Len(s)
      BY <2>1, SubSeqFull
    <3> QED BY <3>1 DEF SubSeqs
  <2>6. Found(Len(s)) /\ Len(s) \in 0 .. Len(t)
    <3>1. s \in SubSeqs(SubSeq(t, 1, Len(s)))
      BY <2>4, <2>5
    <3>2. Len(u) \in Nat
      OBVIOUS
    <3> QED BY <2>1, <2>3, <3>1, <3>2
  <2>7. ASSUME NEW i \in 0 .. Len(t), Found(i) PROVE i = Len(s)
    <3>1. ~(i < Len(s))
      BY <2>1, <2>3, <2>7
    <3>2. ~(Len(s) < i)
      BY <2>1, <2>6, <2>7
    <3> QED BY <2>1, <3>1, <3>2
  <2>8. (CHOOSE i \in 0 .. Len(t) : Found(i)) = Len(s)
    <3> HIDE DEF Found
    <3> QED BY <2>6, <2>7
  <2>9. IndexFirstSubSeq(s, t) = 1
    <3>1. Len(s) - (Len(s) - 1) = 1
      BY <2>1
    <3> QED BY <2>8, <3>1 DEF IndexFirstSubSeq
  <2>10. s \in SubSeqs(t)
    <3>1. PICK x : x = t
      OBVIOUS
    <3>2. 0 \in 0 .. Len(x) /\ Len(s) \in 0 .. Len(x) /\ SubSeq(x, 0 + 1, Len(s)) = s
      BY <2>1, <2>4, <2>6, <3>1
    <3>3. s \in SubSeqs(x)
      BY <3>2 DEF SubSeqs
    <3> QED BY <3>1, <3>3
  <2>11. SubSeq(t, 1, 1 - 1) = <<>>
    BY SubSeqEmpty
  <2>12. SubSeq(t, 1 + Len(s), Len(t)) = u
    <3>1. From(t, Len(s)) = From(s, Len(s)) \o u
      BY <2>1, FromLonger
    <3>2. From(t, Len(s)) = u
      BY <3>1, FromTheEnd, ConcatEmptySeq
    <3>3. 1 + Len(s) = Len(s) + 1
      BY <2>1
    <3> QED BY <3>2, <3>3 DEF From
  <2>13. ReplaceFirstSubSeq(<<>>, s, t) = <<>> \o <<>> \o u
    BY <2>9, <2>10, <2>11, <2>12 DEF ReplaceFirstSubSeq, ReplaceSubSeqAt
  <2>14. <<>> \o <<>> \o u = u
    BY ConcatEmptySeq
  <2> QED BY <1>2, <2>13, <2>14 DEF Difference
<1> QED BY <1>1, <1>2

\* A text that was put over the other one.
LEMMA DifferenceIsAll ==
  ASSUME NEW s \in Seq(Int), NEW a \in Int, \A i \in 1 .. Len(s) : s[i] # a
  PROVE  Difference(<<a>>, s) = <<a>>
<1>1. CASE s = <<>>
  BY <1>1 DEF Difference
<1>2. CASE s # <<>>
  <2>1. Len(s) \in Nat /\ Len(s) > 0
    BY <1>2, EmptySeq
  <2>2. ASSUME s \in SubSeqs(<<a>>) PROVE FALSE
    <3>1. PICK i \in 0 .. 1, j \in 0 .. 1 : s = SubSeq(<<a>>, i + 1, j)
      BY <2>2 DEF SubSeqs
    <3>2. i = 0 /\ j = 1
      BY <2>1, <3>1
    <3>3. s[1] = a
      BY <3>1, <3>2
    <3> QED BY <2>1, <3>3
  <2> QED BY <1>2, <2>2 DEF Difference, ReplaceFirstSubSeq
<1> QED BY <1>1, <1>2

\* In an emptied textarea, and in one that did not change, there is nothing new.
LEMMA DifferenceIsNone ==
  ASSUME NEW s \in Seq(Int)
  PROVE  Difference(<<>>, s) = <<>> /\ Difference(s, s) = <<>>
<1>1. Difference(s, s) = <<>>
  <2>1. s \o <<>> = s /\ <<>> \in Seq(Int)
    BY ConcatEmptySeq
  <2> QED BY <2>1, DifferenceIsNew
<1>2. CASE s = <<>>
  BY <1>1, <1>2 DEF Difference
<1>3. CASE s # <<>>
  <2>1. ASSUME s \in SubSeqs(<<>>) PROVE FALSE
    <3>1. PICK i \in 0 .. 0, j \in 0 .. 0 : s = SubSeq(<<>>, i + 1, j)
      BY <2>1 DEF SubSeqs
    <3>2. SubSeq(<<>>, i + 1, j) = <<>>
      BY <3>1, SubSeqEmpty
    <3> QED BY <1>3, <3>1, <3>2
  <2>2. PICK x : x = <<>>
    OBVIOUS
  <2>3. s # x /\ s \notin SubSeqs(x)
    BY <1>3, <2>1, <2>2
  <2>4. ReplaceFirstSubSeq(x, s, x) = x
    BY <2>3 DEF ReplaceFirstSubSeq
  <2> QED BY <1>1, <1>3, <2>2, <2>4 DEF Difference
<1> QED BY <1>1, <1>2, <1>3
\* Whatever was in the textarea, the difference is a text.
LEMMA DifferenceIsText ==
  ASSUME NEW t \in Seq(Int), NEW s \in Seq(Int)
  PROVE  Difference(t, s) \in Seq(Int)
<1> DEFINE Found(i) == /\ s \in SubSeqs(SubSeq(t, 1, i))
                       /\ \A j \in 0 .. i - 1 : s \notin SubSeqs(SubSeq(t, 1, j))
<1>1. CASE s = <<>> \/ s \notin SubSeqs(t)
  BY <1>1 DEF Difference, ReplaceFirstSubSeq
<1>2. CASE s # <<>> /\ s \in SubSeqs(t)
  <2>1. Len(t) \in Nat /\ Len(s) \in Nat
    OBVIOUS
  <2>2. \E i \in 0 .. Len(t) : Found(i)
    <3> DEFINE T == {i \in 0 .. Len(t) : s \in SubSeqs(SubSeq(t, 1, i))}
    <3>1. SubSeq(t, 1, Len(t)) = t /\ Len(t) \in 0 .. Len(t)
      BY <2>1, SubSeqFull
    <3>2. T \in SUBSET Nat /\ Len(t) \in T
      <4>1. s \in SubSeqs(SubSeq(t, 1, Len(t)))
        BY <1>2, <3>1
      <4>2. T \in SUBSET Nat
        BY <2>1
      <4> QED BY <3>1, <4>1, <4>2
    <3> HIDE DEF T
    <3>3. PICK n \in T : \A m \in T : n <= m
      BY <3>2, Numbers!LeastNumber
    <3>4. n \in 0 .. Len(t) /\ s \in SubSeqs(SubSeq(t, 1, n))
      BY <3>3 DEF T
    <3>5. ASSUME NEW j \in 0 .. n - 1 PROVE s \notin SubSeqs(SubSeq(t, 1, j))
      <4>1. j \in 0 .. Len(t) /\ ~(n <= j)
        BY <2>1, <3>4
      <4>2. j \notin T
        BY <3>3, <4>1
      <4> QED BY <4>1, <4>2 DEF T
    <3> QED BY <3>4, <3>5
  <2>3. PICK n : n = CHOOSE i \in 0 .. Len(t) : Found(i)
    OBVIOUS
  <2>4. n \in 0 .. Len(t) /\ Found(n)
    <3> HIDE DEF Found
    <3> QED BY <2>2, <2>3
  <2>5. Len(s) <= n
    <3>1. PICK v : v = SubSeq(t, 1, n)
      OBVIOUS
    <3>2. v \in Seq(Int) /\ Len(v) = n
      BY <2>1, <2>4, <3>1
    <3>3. ASSUME NEW a \in 0 .. Len(v), NEW b \in 0 .. Len(v) PROVE Len(SubSeq(v, a + 1, b)) <= n
      BY <3>2
    <3> QED BY <2>4, <3>1, <3>3 DEF SubSeqs
  <2>6. IndexFirstSubSeq(s, t) = n - (Len(s) - 1)
    BY <2>3 DEF IndexFirstSubSeq
  <2>7. SubSeq(t, 1, (n - (Len(s) - 1)) - 1) \in Seq(Int)
    BY <2>1, <2>4, <2>5
  <2>8. SubSeq(t, (n - (Len(s) - 1)) + Len(s), Len(t)) \in Seq(Int)
    BY <2>1, <2>4, <2>5
  <2>9. ReplaceSubSeqAt(n - (Len(s) - 1), <<>>, s, t) \in Seq(Int)
    <3>1. \A a, b \in Seq(Int) : a \o <<>> \o b \in Seq(Int)
      BY ConcatProperties, ConcatEmptySeq
    <3> QED BY <2>7, <2>8, <3>1 DEF ReplaceSubSeqAt
  <2> QED BY <1>2, <2>6, <2>9 DEF Difference, ReplaceFirstSubSeq
<1> QED BY <1>1, <1>2

-----------------------------------------------------------------------------
(* Timeouts.                                                               *)

\* The fields of a timeout.
LEMMA TimerKinds ==
  /\ [do |-> "end"] \in Timers
  /\ \A a, b \in Int : [do |-> "send", start |-> a, end |-> b] \in Timers
  /\ \A q \in Seq(Int) : [do |-> "diff", old |-> q] \in Timers
  /\ \A t \in Timers : /\ t.do \in {"end", "send", "diff"}
                       /\ t.do = "send" => t.start \in Int /\ t.end \in Int
                       /\ t.do = "diff" => t.old \in Seq(Int)
  BY DEF Timers

\* A timeout is started.
LEMMA TimerAdded ==
  ASSUME NEW ts \in Seq(Timers), NEW t \in Timers
  PROVE  /\ Append(ts, t) \in Seq(Timers)
         /\ SendsIn(Append(ts, t)) = SendsIn(ts) \cup (IF t.do = "send" THEN {Len(ts) + 1} ELSE {})
         /\ DiffsIn(Append(ts, t)) = DiffsIn(ts) \cup (IF t.do = "diff" THEN {Len(ts) + 1} ELSE {})
         /\ \A i \in SendsIn(ts) \cup DiffsIn(ts) :
              Append(ts, t)[i] = ts[i] /\ i \in Nat /\ i <= Len(ts)
         /\ Append(ts, t)[Len(ts) + 1] = t
         /\ Len(ts) \in Nat
<1>1. /\ Append(ts, t) \in Seq(Timers) /\ Len(Append(ts, t)) = Len(ts) + 1 /\ Len(ts) \in Nat
      /\ \A i \in 1 .. Len(ts) : Append(ts, t)[i] = ts[i]
      /\ Append(ts, t)[Len(ts) + 1] = t
  BY AppendProperties
<1>2. \A i : i \in 1 .. Len(ts) + 1 <=> i \in 1 .. Len(ts) \/ i = Len(ts) + 1
  BY <1>1
<1>3. \A i : i \in SendsIn(Append(ts, t)) <=>
               i \in SendsIn(ts) \/ (i = Len(ts) + 1 /\ t.do = "send")
  BY <1>1, <1>2 DEF SendsIn
<1>4. \A i : i \in DiffsIn(Append(ts, t)) <=>
               i \in DiffsIn(ts) \/ (i = Len(ts) + 1 /\ t.do = "diff")
  BY <1>1, <1>2 DEF DiffsIn
<1>5. \A i \in SendsIn(ts) \cup DiffsIn(ts) : i \in 1 .. Len(ts)
  BY DEF SendsIn, DiffsIn
<1> QED BY <1>1, <1>3, <1>4, <1>5

\* The oldest timeout is gone, the others have moved up.
LEMMA TimerCame ==
  ASSUME NEW ts \in Seq(Timers), ts # <<>>
  PROVE  /\ Tail(ts) \in Seq(Timers) /\ Head(ts) = ts[1] /\ Head(ts) \in Timers
         /\ 1 \in SendsIn(ts) <=> Head(ts).do = "send"
         /\ 1 \in DiffsIn(ts) <=> Head(ts).do = "diff"
         /\ \A i \in SendsIn(Tail(ts)) :
              i \in Nat /\ i > 0 /\ i + 1 \in SendsIn(ts) /\ Tail(ts)[i] = ts[i + 1]
         /\ \A i \in DiffsIn(Tail(ts)) :
              i \in Nat /\ i > 0 /\ i + 1 \in DiffsIn(ts) /\ Tail(ts)[i] = ts[i + 1]
         /\ \A i \in SendsIn(ts) : i \in Nat /\ i > 0 /\ (i # 1 => i - 1 \in SendsIn(Tail(ts)))
         /\ \A i \in DiffsIn(ts) : i \in Nat /\ i > 0 /\ (i # 1 => i - 1 \in DiffsIn(Tail(ts)))
<1>1. /\ Tail(ts) \in Seq(Timers) /\ Len(Tail(ts)) = Len(ts) - 1 /\ Head(ts) \in Timers
      /\ \A i \in 1 .. Len(ts) - 1 : Tail(ts)[i] = ts[i + 1]
      /\ Len(ts) \in Nat /\ Len(ts) > 0 /\ Head(ts) = ts[1]
  BY HeadTailProperties, EmptySeq
<1>2. ASSUME NEW i \in 1 .. Len(ts) - 1 PROVE i \in Nat /\ i > 0 /\ i + 1 \in 1 .. Len(ts)
  BY <1>1
<1>3. ASSUME NEW i \in 1 .. Len(ts), i # 1
      PROVE  i - 1 \in 1 .. Len(ts) - 1 /\ Tail(ts)[i - 1] = ts[i]
  <2>1. i - 1 \in 1 .. Len(ts) - 1 /\ (i - 1) + 1 = i
    BY <1>1, <1>3
  <2> QED BY <2>1, <1>1
<1>4. 1 \in 1 .. Len(ts)
  BY <1>1
<1>5. \A i \in 1 .. Len(ts) : i \in Nat /\ i > 0
  BY <1>1
<1> QED BY <1>1, <1>2, <1>3, <1>4, <1>5 DEF SendsIn, DiffsIn

\* The compositions to be sent, the texts to be read, are the same ones.
SameSends(ts, us) == SendsIn(us) = SendsIn(ts) /\ \A i \in SendsIn(ts) : us[i] = ts[i]
SameDiffs(ts, us) == DiffsIn(us) = DiffsIn(ts) /\ \A i \in DiffsIn(ts) : us[i] = ts[i]

\* A timeout that only notes the end of a composition.
LEMMA EndAdded ==
  ASSUME NEW ts \in Seq(Timers), NEW t \in Timers, t.do = "end"
  PROVE  LET us == Append(ts, t)
         IN  us \in Seq(Timers) /\ SameSends(ts, us) /\ SameDiffs(ts, us)
<1>1. /\ Append(ts, t) \in Seq(Timers)
      /\ SendsIn(Append(ts, t)) = SendsIn(ts) \cup {}
      /\ DiffsIn(Append(ts, t)) = DiffsIn(ts) \cup {}
      /\ \A i \in SendsIn(ts) \cup DiffsIn(ts) : Append(ts, t)[i] = ts[i]
  BY TimerAdded
<1> QED BY <1>1 DEF SameSends, SameDiffs

\* A text is to be read.
LEMMA DiffAdded ==
  ASSUME NEW ts \in Seq(Timers), DiffsIn(ts) = {}, NEW t \in Timers, t.do = "diff"
  PROVE  LET us == Append(ts, t)
         IN  /\ us \in Seq(Timers) /\ SameSends(ts, us)
             /\ \A i, j \in DiffsIn(us) : i = j
             /\ \A i \in DiffsIn(us) : us[i] = t
<1>1. /\ Append(ts, t) \in Seq(Timers)
      /\ SendsIn(Append(ts, t)) = SendsIn(ts) \cup {}
      /\ DiffsIn(Append(ts, t)) = DiffsIn(ts) \cup {Len(ts) + 1}
      /\ \A i \in SendsIn(ts) \cup DiffsIn(ts) : Append(ts, t)[i] = ts[i]
      /\ Append(ts, t)[Len(ts) + 1] = t
  BY TimerAdded
<1> QED BY <1>1 DEF SameSends

\* A composition is to be sent.
LEMMA SendAdded ==
  ASSUME NEW ts \in Seq(Timers), NEW t \in Timers, t.do = "send"
  PROVE  LET us == Append(ts, t)
             n == Len(ts) + 1
         IN  /\ SendsIn(us) = SendsIn(ts) \cup {n} /\ DiffsIn(us) = DiffsIn(ts) /\ us[n] = t
             /\ \A i \in SendsIn(ts) \cup DiffsIn(ts) : us[i] = ts[i] /\ i \in Nat /\ i <= Len(ts)
             /\ Len(ts) \in Nat /\ n \in Nat /\ us \in Seq(Timers)
<1>1. DiffsIn(Append(ts, t)) = DiffsIn(ts) \cup {}
  BY TimerAdded
<1> QED BY <1>1, TimerAdded

\* What waits, as the invariant says it.
LEMMA WaitingSends ==
  ASSUME NEW k, Textarea(k)
  PROVE  /\ Waits(k, "send") <=> SendsIn(k.timers) # {}
         /\ Waits(k, "diff") <=> DiffsIn(k.timers) # {}
<1>1. k.timers \in Seq(Timers)
  BY DEF Textarea, TypingFields
<1> QED BY <1>1 DEF Waits, SendsIn, DiffsIn
-----------------------------------------------------------------------------
(* What the handlers leave.                                                *)

DiffOf(k) == [do |-> "diff", old |-> k.area]

\* A key of the input method only has the text read later, if that is not underway.
LEMMA ImeKeyIs ==
  ASSUME Textarea(typing)
  PROVE  /\ Textarea(ImeKey)
         /\ ImeKey.area = typing.area /\ ImeKey.marked = typing.marked
         /\ ImeKey.composing = typing.composing /\ ImeKey.sending = typing.sending
         /\ ImeKey.start = typing.start /\ ImeKey.end = typing.end /\ ImeKey.sent = typing.sent
         /\ ImeKey.timers = IF typing.composing \/ typing.sending THEN typing.timers
                            ELSE Append(typing.timers, DiffOf(typing))
<1> DEFINE e == [key |-> "ime"]
           k == Same(typing)
<1>1. Textarea(k) /\ k = [typing EXCEPT !.view = "same"]
  BY DEF Same, Textarea, TypingFields
<1>2. HelperKeyDown(k, "ime").go = FALSE
  BY DEF HelperKeyDown
<1>3. HelperKeyDown(k, "ime").k = IF typing.composing \/ typing.sending THEN k
                                  ELSE [k EXCEPT !.timers = Append(@, DiffOf(typing))]
  BY <1>1 DEF HelperKeyDown, Later, Textarea, TypingFields, DiffOf
<1>4. ImeKey = [HelperKeyDown(k, "ime").k EXCEPT !.view = "bottom"]
  BY <1>2 DEF ImeKey, KeyDown
<1>5. DiffOf(typing) \in Timers
  BY TimerKinds DEF DiffOf, Textarea, TypingFields
<1>6. Append(typing.timers, DiffOf(typing)) \in Seq(Timers)
  BY <1>5 DEF Textarea, TypingFields
<1> HIDE DEF k
<1>7. CASE typing.composing \/ typing.sending
  BY <1>1, <1>3, <1>4, <1>7 DEF Textarea, TypingFields
<1>8. CASE ~(typing.composing \/ typing.sending)
  BY <1>1, <1>3, <1>4, <1>6, <1>8 DEF Textarea, TypingFields
<1> QED BY <1>7, <1>8

\* A key that ends a composition sends it.
LEMMA FinalizeNowIs ==
  ASSUME NEW k, Textarea(k)
  PROVE  LET f == FinalizeNow(k)
         IN  /\ Textarea(f)
             /\ f.area = k.area /\ f.marked = k.marked /\ f.timers = k.timers
             /\ f.composing = FALSE /\ f.sending = FALSE
             /\ f.sent = k.sent \o Substring(k.area, k.start, k.end)
<1>1. Substring(k.area, k.start, k.end) \in Seq(Int)
  BY SubstringIsText DEF Textarea
<1>2. k.sent \o Substring(k.area, k.start, k.end) \in Seq(Int)
  BY <1>1, ConcatProperties DEF Textarea, TypingFields
<1> QED BY <1>2 DEF FinalizeNow, SendItems, Textarea, TypingFields

\* A character is sent and stays in the textarea.
LEMMA KeyPressIs ==
  ASSUME NEW k, Textarea(k), NEW e, e.n \in Int, Types(e)
  PROVE  LET f == KeyPress(k, e)
         IN  /\ Textarea(f)
             /\ f.area = (IF k.marked THEN <<e.n>> ELSE k.area \o <<e.n>>) /\ f.marked = FALSE
             /\ f.timers = k.timers /\ f.composing = k.composing /\ f.sending = k.sending
             /\ f.start = k.start /\ f.sent = k.sent \o <<e.n>>
<1>1. KeyPress(k, e) = Insert(SendItems(k, <<e.n>>), <<e.n>>)
  BY DEF KeyPress, Types
<1>2. k.sent \o <<e.n>> \in Seq(Int) /\ k.area \o <<e.n>> \in Seq(Int) /\ <<e.n>> \in Seq(Int)
  BY ConcatProperties DEF Textarea, TypingFields
<1> QED BY <1>1, <1>2 DEF SendItems, Insert, Textarea, TypingFields

\* A key goes through the helper, which may have to send a composition before it.
LEMMA HelperKeyDownIs ==
  ASSUME Textarea(typing), ~typing.composing, NEW keyKind,
         HelperKeyDown(Same(typing), keyKind).go
  PROVE  LET f == HelperKeyDown(Same(typing), keyKind).k
         IN  /\ Textarea(f)
             /\ f.area = typing.area /\ f.timers = typing.timers
             /\ f.composing = FALSE /\ f.sending = FALSE
             /\ f.sent = IF typing.sending
                           THEN typing.sent \o Substring(typing.area, typing.start, typing.end)
                           ELSE typing.sent
<1> DEFINE k == Same(typing)
<1>1. /\ Textarea(k) /\ k.area = typing.area /\ k.timers = typing.timers /\ ~k.composing
      /\ k.sending = typing.sending /\ k.sent = typing.sent /\ k.start = typing.start
      /\ k.end = typing.end
  BY DEF Same, Textarea, TypingFields
<1> HIDE DEF k
<1>2. keyKind # "ime" /\ (keyKind = "other" \/ ~k.sending)
  BY <1>1 DEF HelperKeyDown, k
<1>3. HelperKeyDown(k, keyKind).k = IF k.sending THEN FinalizeNow(k) ELSE k
  BY <1>1, <1>2 DEF HelperKeyDown
<1>4. CASE k.sending
  <2>1. PICK f : f = FinalizeNow(k)
    OBVIOUS
  <2>2. /\ Textarea(f) /\ f.area = k.area /\ f.timers = k.timers
        /\ f.composing = FALSE /\ f.sending = FALSE
        /\ f.sent = k.sent \o Substring(k.area, k.start, k.end)
    BY <1>1, <2>1, FinalizeNowIs
  <2>3. HelperKeyDown(k, keyKind).k = f
    BY <1>3, <1>4, <2>1
  <2> QED BY <1>1, <1>4, <2>2, <2>3 DEF k
<1>5. CASE ~k.sending
  <2>1. k.sending = FALSE /\ k.composing = FALSE
    BY <1>1, <1>5 DEF Textarea
  <2> QED BY <1>1, <1>3, <1>5, <2>1 DEF k
<1> QED BY <1>4, <1>5

\* The helper keeps a key: nothing is sent, and what an idle one may have typed
\* is read later.
KeyKept(e) ==
  /\ typing'.area = typing.area /\ typing'.marked = typing.marked
  /\ typing'.composing = typing.composing /\ typing'.sending = typing.sending
  /\ typing'.start = typing.start /\ typing'.sent = typing.sent
  /\ \/ typing'.timers = typing.timers
     \/ ~typing.sending /\ typing'.timers = Append(typing.timers, DiffOf(typing))
  /\ meant' = meant

\* A key goes through, and finishes a composition that is to be sent.
Passed(e, items) ==
  /\ ~typing'.composing /\ ~typing'.sending /\ typing'.timers = typing.timers
  /\ typing'.sent = (IF typing.sending
                       THEN typing.sent \o Substring(typing.area, typing.start, typing.end)
                       ELSE typing.sent) \o items
  /\ \/ typing'.area = typing.area
     \/ items = <<e.n>> /\ typing'.area \in {typing.area \o <<e.n>>, <<e.n>>}
  /\ meant' = meant \o items

\* A key press is kept by the helper or goes through it.
LEMMA PressKeyIs ==
  ASSUME Textarea(typing), meant \in Seq(Int), ~typing.composing, NEW e, e.n \in Int, PressKey(e)
  PROVE  Textarea(typing') /\ (KeyKept(e) \/ \E items \in {<<>>, <<e.n>>} : Passed(e, items))
<1> DEFINE k == Same(typing)
           keyKind == IF e.key \in {"ime"} THEN "ime"
                   ELSE IF e.key = "modifier" THEN "modifier" ELSE "other"
           h == HelperKeyDown(k, keyKind)
           f == h.k
           d == KeyDown(k, e)
<1>1. /\ typing' = IF d.goes /\ Types(e) THEN KeyPress(d.k, e) ELSE d.k
      /\ meant' = meant \o (IF Types(e) \/ (Evaluates(e) /\ ~LeftAlone(e)) THEN <<e.n>> ELSE <<>>)
  BY DEF PressKey, Meant
<1>2. meant \o <<>> = meant /\ \A q \in Seq(Int) : q \o <<>> = q
  BY ConcatEmptySeq
<1>3. CASE ~h.go
  <2>1. e.key \in {"ime", "modifier"}
    BY <1>3 DEF HelperKeyDown
  <2>2. ~Types(e) /\ ~Evaluates(e)
    BY <2>1 DEF Types, Text, Evaluates, EvaluatesFixed, EvaluatesFunction, EvaluatesText
  <2>3. d.k = [f EXCEPT !.view = "bottom"]
    BY <1>3 DEF KeyDown
  <2>4. meant' = meant /\ typing' = [f EXCEPT !.view = "bottom"]
    BY <1>1, <1>2, <2>2, <2>3
  <2>5. f = IF keyKind = "ime" /\ ~typing.sending
              THEN [k EXCEPT !.timers = Append(@, DiffOf(typing))] ELSE k
    BY <2>1 DEF HelperKeyDown, Later, Same, Textarea, TypingFields, DiffOf
  <2>6. Append(typing.timers, DiffOf(typing)) \in Seq(Timers)
    BY TimerKinds DEF DiffOf, Textarea
  <2>7. CASE keyKind = "ime" /\ ~typing.sending
    BY <2>4, <2>5, <2>6, <2>7 DEF Same, Textarea, TypingFields, KeyKept
  <2>8. CASE ~(keyKind = "ime" /\ ~typing.sending)
    <3>1. f = [typing EXCEPT !.view = "same"]
      BY <2>5, <2>8 DEF Same
    <3> HIDE DEF f
    <3> QED BY <2>4, <3>1 DEF Textarea, TypingFields, KeyKept
  <2> QED BY <2>7, <2>8
<1>4. CASE h.go
  <2>1. /\ Textarea(f) /\ f.area = typing.area /\ f.timers = typing.timers
        /\ f.composing = FALSE /\ f.sending = FALSE
        /\ f.sent = IF typing.sending
                      THEN typing.sent \o Substring(typing.area, typing.start, typing.end)
                      ELSE typing.sent
    BY <1>4, HelperKeyDownIs
  <2>2. d = IF e.key = "page" /\ e.shift
              THEN [k |-> [f EXCEPT !.view = "page"], goes |-> FALSE]
            ELSE IF LeftAlone(e) THEN [k |-> f, goes |-> TRUE]
            ELSE IF SelectsAll(e)
              THEN [k |-> [f EXCEPT !.view = "all", !.marked = f.area # <<>>], goes |-> TRUE]
            ELSE IF Evaluates(e) THEN [k |-> SendItems(f, <<e.n>>), goes |-> FALSE]
            ELSE [k |-> f, goes |-> TRUE]
    BY <1>4 DEF KeyDown
  <2> HIDE DEF d, f, h, k
  <2>3. /\ e.key = "page" /\ e.shift => ~Types(e) /\ ~Evaluates(e)
        /\ SelectsAll(e) => ~Types(e) /\ ~Evaluates(e)
    BY DEF Types, Text, Evaluates, EvaluatesFixed, EvaluatesFunction, EvaluatesText, SelectsAll,
           Modified
  <2>4. CASE Types(e) /\ d.goes
    <3>1. d.k = f
      BY <2>2, <2>3, <2>4
    <3>2. typing' = KeyPress(f, e) /\ meant' = meant \o <<e.n>>
      BY <1>1, <2>4, <3>1
    <3>3. /\ Textarea(typing') /\ typing'.timers = f.timers
          /\ typing'.area = (IF f.marked THEN <<e.n>> ELSE f.area \o <<e.n>>)
          /\ typing'.composing = f.composing /\ typing'.sending = f.sending
          /\ typing'.sent = f.sent \o <<e.n>>
      BY <2>1, <2>4, <3>2, KeyPressIs
    <3>4. Passed(e, <<e.n>>)
      BY <2>1, <3>2, <3>3 DEF Passed
    <3> QED BY <3>3, <3>4
  <2>5. CASE ~(Types(e) /\ d.goes)
    <3>1. typing' = d.k
      BY <1>1, <2>5
    <3>2. CASE Evaluates(e) /\ ~LeftAlone(e)
      <4>1. typing' = SendItems(f, <<e.n>>) /\ meant' = meant \o <<e.n>>
        BY <1>1, <2>2, <2>3, <3>1, <3>2
      <4>2. f.sent \o <<e.n>> \in Seq(Int)
        BY <2>1, SingleText DEF Textarea
      <4>3. Textarea(typing') /\ Passed(e, <<e.n>>)
        BY <2>1, <4>1, <4>2 DEF SendItems, Textarea, TypingFields, Passed
      <4> QED BY <4>3
    <3>3. CASE ~(Evaluates(e) /\ ~LeftAlone(e))
      <4>1. ~Types(e)
        BY <2>2, <2>3, <2>5, <3>3
      <4>2. meant' = meant \o <<>>
        BY <1>1, <3>3, <4>1
      <4>3. \/ typing' = [f EXCEPT !.view = "page"]
            \/ typing' = f
            \/ typing' = [f EXCEPT !.view = "all", !.marked = f.area # <<>>]
        BY <2>2, <3>1, <3>3
      <4>4. /\ Textarea(typing') /\ typing'.sent = f.sent /\ typing'.area = f.area
            /\ typing'.timers = f.timers /\ ~typing'.composing /\ ~typing'.sending
        BY <2>1, <4>3 DEF Textarea, TypingFields
      <4>5. f.sent \o <<>> = f.sent
        BY <1>2, <2>1 DEF Textarea
      <4> QED BY <2>1, <4>2, <4>4, <4>5 DEF Passed
    <3> QED BY <3>2, <3>3
  <2> QED BY <2>4, <2>5
<1> QED BY <1>3, <1>4

-----------------------------------------------------------------------------
(* The steps.                                                              *)

\* Nothing was spoilt before, nor now.
LEMMA NoReason ==
  ASSUME NEW S, NEW c, NEW r
  PROVE  S \cup Reason(c, r) = {} <=> S = {} /\ ~c
  BY DEF Reason

\* Another number is given.
LEMMA KnownLater ==
  ASSUME NEW q \in Seq(Int), NEW n \in Nat, Known(q, n)
  PROVE  /\ Known(q, n + 1)
         /\ q \o <<n + 1>> \in Seq(Int) /\ Known(q \o <<n + 1>>, n + 1)
         /\ <<n + 1>> \in Seq(Int) /\ Known(<<n + 1>>, n + 1)
         /\ <<>> \in Seq(Int) /\ Known(<<>>, n + 1)
<1>1. \A i \in 1 .. Len(q) : q[i] \in Int /\ q[i] <= n
  BY DEF Known
<1>2. Known(q, n + 1)
  BY <1>1 DEF Known
<1>3. /\ q \o <<n + 1>> \in Seq(Int) /\ Len(q \o <<n + 1>>) = Len(q) + 1
      /\ \A i \in 1 .. Len(q) + 1 : (q \o <<n + 1>>)[i] = IF i <= Len(q) THEN q[i] ELSE n + 1
  BY ConcatProperties
<1>4. Known(q \o <<n + 1>>, n + 1)
  <2>1. SUFFICES ASSUME NEW i \in 1 .. Len(q) + 1
                 PROVE  (q \o <<n + 1>>)[i] <= n + 1
    BY <1>3 DEF Known
  <2>2. CASE i <= Len(q)
    BY <1>1, <1>3, <2>2
  <2>3. CASE ~(i <= Len(q))
    BY <1>3, <2>3
  <2> QED BY <2>2, <2>3
<1> QED BY <1>2, <1>3, <1>4 DEF Known

\* Of two texts together no number has yet to come.
LEMMA KnownTogether ==
  ASSUME NEW q \in Seq(Int), NEW r \in Seq(Int), NEW n \in Nat, Known(q, n), Known(r, n)
  PROVE  q \o r \in Seq(Int) /\ Known(q \o r, n)
<1>1. /\ q \o r \in Seq(Int) /\ Len(q \o r) = Len(q) + Len(r) /\ Len(q) \in Nat /\ Len(r) \in Nat
      /\ \A i \in 1 .. Len(q) + Len(r) : (q \o r)[i] = IF i <= Len(q) THEN q[i] ELSE r[i - Len(q)]
  BY ConcatProperties
<1>2. ASSUME NEW i \in 1 .. Len(q) + Len(r) PROVE (q \o r)[i] <= n
  <2>1. CASE i <= Len(q)
    BY <1>1, <2>1 DEF Known
  <2>2. CASE ~(i <= Len(q))
    BY <1>1, <2>2 DEF Known
  <2> QED BY <2>1, <2>2
<1> QED BY <1>1, <1>2 DEF Known

\* A text without its last item.
LEMMA FrontIsText ==
  ASSUME NEW q \in Seq(Int)
  PROVE  /\ Front(q) \in Seq(Int) /\ \A n \in Nat : Known(q, n) => Known(Front(q), n + 1)
         /\ Len(q) <= 1 => Front(q) = <<>>
<1>1. Len(q) \in Nat /\ \A i \in 1 .. Len(q) - 1 : q[i] \in Int /\ i \in 1 .. Len(q)
  OBVIOUS
<1>2. /\ Front(q) \in Seq(Int) /\ Len(Front(q)) = (IF 1 <= Len(q) - 1 THEN Len(q) - 1 ELSE 0)
      /\ \A i \in 1 .. Len(q) - 1 : Front(q)[i] = q[i]
  BY <1>1, SubSeqProperties DEF Front
<1>3. \A i \in 1 .. Len(Front(q)) : Front(q)[i] = q[i] /\ i \in 1 .. Len(q)
  BY <1>1, <1>2
<1>4. ASSUME NEW n \in Nat, Known(q, n) PROVE Known(Front(q), n + 1)
  BY <1>1, <1>2, <1>3, <1>4, KnownLater DEF Known
<1>5. Len(q) <= 1 => Len(Front(q)) = 0
  BY <1>1, <1>2
<1> QED BY <1>2, <1>4, <1>5, EmptySeq

\* Another act has a number of its own.
LEMMA TypingActsIs ==
  ASSUME TypingTyped, TypingActs
  PROVE  /\ acted' \in [acts : Int, n : Nat] /\ acted'.n = acted.n + 1
         /\ acted.n \in Nat /\ Now = acted.n + 1
  BY DEF TypingTyped, TypingActs, Now

\* The one that is to be sent after an end is its text from its start on.
LEMMA LastIsSent ==
  ASSUME NEW k, Textarea(k), NEW m \in Seq(Int), Ended(k, m), ~Early(k)
  PROVE  m = k.sent \o Substring(k.area, k.start, k.end)
<1>1. k.end = Len(k.area)
  BY DEF Early, Ended
<1>2. \A i, j \in SendsIn(k.timers) : i = j
  BY DEF Early, Ended, SendsIn, Textarea
<1>3. PICK i : i \in SendsIn(k.timers)
  BY DEF Ended
<1>4. FirstSend(k.timers, i) /\ LastSend(k.timers, i)
  <2>1. i \in Nat
    BY <1>3 DEF SendsIn
  <2> QED BY <1>2, <1>3, <2>1 DEF FirstSend, LastSend
<1>5. /\ k.start \in 0 .. Len(k.area) /\ m = k.sent \o From(k.area, k.start)
  BY <1>3, <1>4 DEF Ended, SentFrom
<1> QED BY <1>1, <1>5, SubstringToEnd DEF Textarea

\* A key is pressed.
LEMMA PressKeyHolds ==
  ASSUME TypingTyped, TypingInv, NEW e, e.n = Now, PressKey(e)
  PROVE  TypingTyped' /\ TypingInv'
<1>1. /\ acted' \in [acts : Int, n : Nat] /\ acted'.n = acted.n + 1 /\ acted.n \in Nat
      /\ e.n = acted.n + 1 /\ e.n \in Int
  BY TypingActsIs DEF PressKey
<1>2. /\ ~ime.on /\ ime' = ime /\ ~typing.composing /\ Textarea(typing) /\ meant \in Seq(Int)
      /\ Known(typing.area, acted.n) /\ Known(ime.base, acted.n) /\ Known(ime.text, acted.n)
      /\ ime \in [on : BOOLEAN, base : Seq(Int), text : Seq(Int)]
  BY DEF PressKey, TypingTyped
<1>3. Textarea(typing') /\ (KeyKept(e) \/ \E items \in {<<>>, <<e.n>>} : Passed(e, items))
  BY <1>1, <1>2, PressKeyIs
<1>4. ~typing'.composing /\ meant' \in Seq(Int)
  <2>1. \A items \in {<<>>, <<e.n>>} : meant \o items \in Seq(Int)
    BY <1>1, <1>2, ConcatEmptySeq, SingleText
  <2> QED BY <1>2, <1>3, <2>1 DEF KeyKept, Passed
<1>5. Known(typing'.area, acted'.n)
  <2>1. typing'.area \in {typing.area, typing.area \o <<acted.n + 1>>, <<acted.n + 1>>}
    BY <1>1, <1>3 DEF KeyKept, Passed
  <2>2. typing.area \in Seq(Int)
    BY <1>2 DEF Textarea
  <2> QED BY <1>1, <1>2, <2>1, <2>2, KnownLater
<1>6. Known(ime'.base, acted'.n) /\ Known(ime'.text, acted'.n)
  BY <1>1, <1>2, KnownLater
<1>7. TypingTyped'
  BY <1>1, <1>2, <1>3, <1>4, <1>5, <1>6 DEF TypingTyped, Textarea
<1>8. ASSUME spoilt' = {} PROVE TypingHolds(typing', ime', meant')
  <2>1. spoilt = {} /\ ~Early(typing) /\ DiffsIn(typing.timers) = {}
    <3>1. (spoilt \cup Reason(Early(typing), "early"))
             \cup Reason(Waits(typing, "diff"), "unread") = {}
      BY <1>8 DEF PressKey
    <3>2. spoilt = {} /\ ~Early(typing) /\ ~Waits(typing, "diff")
      BY <3>1, NoReason
    <3> QED BY <1>2, <3>2, WaitingSends
  <2>2. Neither(typing, meant) \/ Ended(typing, meant)
    BY <1>2, <2>1 DEF TypingInv, TypingHolds
  <2>3. CASE KeyKept(e)
    <3>1. CASE typing'.timers = typing.timers
      <4>1. /\ Neither(typing, meant) => Neither(typing', meant')
            /\ Ended(typing, meant) => Ended(typing', meant')
        <5>1. /\ typing'.area = typing.area /\ typing'.marked = typing.marked
              /\ typing'.composing = typing.composing /\ typing'.sending = typing.sending
              /\ typing'.start = typing.start /\ typing'.sent = typing.sent /\ meant' = meant
          BY <2>3 DEF KeyKept
        <5>2. Neither(typing, meant) => Neither(typing', meant')
          BY <3>1, <5>1 DEF Neither
        <5>3. Ended(typing, meant) => Ended(typing', meant')
          BY <3>1, <5>1 DEF Ended
        <5> QED BY <5>2, <5>3
      <4> QED BY <1>2, <2>1, <2>2, <3>1, <4>1 DEF TypingHolds
    <3>2. CASE ~typing.sending /\ typing'.timers = Append(typing.timers, DiffOf(typing))
      <4>1. Neither(typing, meant) /\ meant = typing.sent
        BY <2>1, <2>2, <3>2 DEF Neither, Ended
      <4>2. /\ DiffsIn(typing'.timers) = {Len(typing.timers) + 1}
            /\ typing'.timers[Len(typing.timers) + 1] = DiffOf(typing)
        BY <1>2, <2>1, <3>2, TimerKinds, TimerAdded DEF Textarea, DiffOf
      <4>3. Difference(typing.area, typing.area) = <<>> /\ typing.sent \o <<>> = typing.sent
        BY <1>2, DifferenceIsNone, ConcatEmptySeq DEF Textarea
      <4>4. Neither(typing', meant')
        <5>1. DiffOf(typing).old = typing.area
          BY DEF DiffOf
        <5>2. meant' = typing'.sent \o Difference(typing'.area, DiffOf(typing).old)
          BY <2>3, <4>1, <4>3, <5>1 DEF KeyKept
        <5> QED BY <2>3, <4>1, <4>2, <5>2 DEF Neither, KeyKept
      <4> QED BY <1>2, <4>2, <4>4 DEF TypingHolds
    <3> QED BY <2>3, <3>1, <3>2 DEF KeyKept
  <2>4. ASSUME NEW items \in {<<>>, <<e.n>>}, Passed(e, items) PROVE Neither(typing', meant')
    <3>1. meant' = meant \o items /\ DiffsIn(typing'.timers) = {}
      BY <2>1, <2>4 DEF Passed
    <3>2. CASE typing.sending
      <4>1. meant = typing.sent \o Substring(typing.area, typing.start, typing.end)
        BY <1>2, <2>1, <2>2, <3>2, LastIsSent DEF Neither
      <4> QED BY <2>4, <3>1, <3>2, <4>1 DEF Passed, Neither
    <3>3. CASE ~typing.sending
      <4>1. meant = typing.sent
        BY <2>1, <2>2, <3>3 DEF Neither, Ended
      <4> QED BY <2>4, <3>1, <3>3, <4>1 DEF Passed, Neither
    <3> QED BY <3>2, <3>3
  <2>5. CASE \E items \in {<<>>, <<e.n>>} : Passed(e, items)
    BY <1>2, <2>1, <2>4, <2>5 DEF TypingHolds, Passed
  <2> QED BY <1>3, <2>3, <2>5
<1> QED BY <1>7, <1>8 DEF TypingInv

\* With nothing to be read from it, the textarea can change: all is sent.
LEMMA AllIsSent ==
  ASSUME Textarea(typing), TypingHolds(typing, ime, meant), ~ime.on, ~ToRead(typing)
  PROVE  /\ ~typing.composing /\ ~typing.sending /\ DiffsIn(typing.timers) = {}
         /\ meant = typing.sent
<1>1. DiffsIn(typing.timers) = {} /\ ~(typing.sending /\ SendsIn(typing.timers) # {})
  BY WaitingSends DEF ToRead
<1> QED BY <1>1 DEF TypingHolds, Neither, Ended

\* With nothing under way and all sent, the invariant holds.
LEMMA IdleHolds ==
  ASSUME NEW k, NEW h, NEW m, ~h.on, ~k.composing, ~k.sending, DiffsIn(k.timers) = {}, m = k.sent
  PROVE  TypingHolds(k, h, m)
  BY DEF TypingHolds, Neither

\* Something is pasted: nothing was left to be read from the textarea.
LEMMA PasteHolds ==
  ASSUME TypingTyped, TypingInv, Paste
  PROVE  TypingTyped' /\ TypingInv'
<1>1. /\ acted' \in [acts : Int, n : Nat] /\ acted'.n = acted.n + 1 /\ acted.n \in Nat
      /\ Now = acted.n + 1
  BY TypingActsIs DEF Paste
<1>2. /\ ~ime.on /\ ime' = ime /\ meant' = meant \o <<Now>>
      /\ typing' = [SendItems(Same(typing), <<Now>>) EXCEPT !.area = <<Now>>, !.marked = FALSE]
  BY DEF Paste, Meant
<1>3. /\ Known(<<Now>>, acted'.n) /\ Known(ime.base, acted'.n) /\ Known(ime.text, acted'.n)
      /\ <<Now>> \in Seq(Int) /\ meant' \in Seq(Int) /\ typing.sent \o <<Now>> \in Seq(Int)
  <2>1. /\ Known(<<acted.n + 1>>, acted.n + 1) /\ <<acted.n + 1>> \in Seq(Int)
        /\ Known(ime.base, acted.n + 1) /\ Known(ime.text, acted.n + 1)
    BY <1>1, KnownLater DEF TypingTyped
  <2>2. meant \in Seq(Int) /\ typing.sent \in Seq(Int) /\ Now \in Int
    BY <1>1 DEF TypingTyped, Textarea
  <2>3. meant \o <<Now>> \in Seq(Int) /\ typing.sent \o <<Now>> \in Seq(Int)
    BY <2>2, SingleText
  <2> QED BY <1>1, <1>2, <2>1, <2>3
<1>4. /\ Textarea(typing') /\ typing'.composing = typing.composing
      /\ typing'.sending = typing.sending /\ typing'.timers = typing.timers
      /\ typing'.sent = typing.sent \o <<Now>> /\ typing'.area = <<Now>>
  BY <1>2, <1>3 DEF TypingTyped, Textarea, TypingFields, SendItems, Same
<1>5. TypingTyped'
  BY <1>1, <1>2, <1>3, <1>4 DEF TypingTyped
<1>6. ASSUME spoilt' = {} PROVE TypingHolds(typing', ime', meant')
  <2>1. spoilt = {} /\ ~ToRead(typing)
    BY <1>6, NoReason DEF Paste
  <2>2. /\ ~typing.composing /\ ~typing.sending /\ DiffsIn(typing.timers) = {}
        /\ meant = typing.sent
    BY <1>2, <2>1, AllIsSent DEF TypingTyped, TypingInv
  <2> QED BY <1>2, <1>4, <2>2, IdleHolds
<1> QED BY <1>5, <1>6 DEF TypingInv

\* The textarea is emptied: nothing was left to be read from it.
LEMMA BlurHolds ==
  ASSUME TypingTyped, TypingInv, Blur
  PROVE  TypingTyped' /\ TypingInv'
<1>1. /\ acted' \in [acts : Int, n : Nat] /\ acted'.n = acted.n + 1 /\ acted.n \in Nat
  BY TypingActsIs DEF Blur
<1>2. /\ ~ime.on /\ ime' = ime /\ meant' = meant
      /\ typing' = [Same(typing) EXCEPT !.area = <<>>, !.marked = FALSE]
  BY DEF Blur
<1>3. /\ Known(<<>>, acted'.n) /\ Known(ime.base, acted'.n) /\ Known(ime.text, acted'.n)
      /\ <<>> \in Seq(Int)
  BY <1>1, KnownLater DEF TypingTyped
<1>4. /\ Textarea(typing') /\ typing'.composing = typing.composing
      /\ typing'.sending = typing.sending /\ typing'.timers = typing.timers
      /\ typing'.sent = typing.sent /\ typing'.area = <<>>
  BY <1>2, <1>3 DEF TypingTyped, Textarea, TypingFields, Same
<1>5. TypingTyped'
  BY <1>1, <1>2, <1>3, <1>4 DEF TypingTyped
<1>6. ASSUME spoilt' = {} PROVE TypingHolds(typing', ime', meant')
  <2>1. spoilt = {} /\ ~ToRead(typing)
    BY <1>6, NoReason DEF Blur
  <2>2. /\ ~typing.composing /\ ~typing.sending /\ DiffsIn(typing.timers) = {}
        /\ meant = typing.sent
    BY <1>2, <2>1, AllIsSent DEF TypingTyped, TypingInv
  <2> QED BY <1>2, <1>4, <2>2, IdleHolds
<1> QED BY <1>5, <1>6 DEF TypingInv

\* A right click or the mouse puts the selected text into the textarea.
LEMMA MarkSelectedHolds ==
  ASSUME TypingTyped, TypingInv, NEW selected \in BOOLEAN, MarkSelected(selected),
         TypingActs \/ UNCHANGED acted
  PROVE  TypingTyped' /\ TypingInv'
<1> DEFINE text == IF selected THEN <<Selected>> ELSE <<>>
<1>1. /\ acted' \in [acts : Int, n : Nat] /\ acted'.n \in {acted.n, acted.n + 1}
      /\ acted.n \in Nat
  BY TypingActsIs DEF TypingTyped
<1>2. /\ ime' = ime /\ meant' = meant
      /\ typing' = [Same(typing) EXCEPT !.area = text, !.marked = selected]
  BY DEF MarkSelected
<1>3. Known(ime.base, acted'.n) /\ Known(ime.text, acted'.n)
  BY <1>1, KnownLater DEF TypingTyped
<1>4. text \in Seq(Int) /\ Known(text, acted'.n)
  BY <1>1 DEF Selected, Known
<1>5. /\ Textarea(typing') /\ typing'.composing = typing.composing
      /\ typing'.sending = typing.sending /\ typing'.timers = typing.timers
      /\ typing'.sent = typing.sent /\ typing'.area = text
  <2> HIDE DEF text
  <2> QED BY <1>2, <1>4 DEF TypingTyped, Textarea, TypingFields, Same
<1>6. TypingTyped'
  <2> HIDE DEF text
  <2> QED BY <1>1, <1>2, <1>3, <1>4, <1>5 DEF TypingTyped
<1>7. ASSUME spoilt' = {} PROVE TypingHolds(typing', ime', meant')
  <2>1. spoilt = {} /\ ~ToRead(typing) /\ ~ime.on
    <3>1. spoilt \cup Reason(ToRead(typing) \/ ime.on, "emptied") = {}
      BY <1>7 DEF MarkSelected
    <3>2. spoilt = {} /\ ~(ToRead(typing) \/ ime.on)
      BY <3>1, NoReason
    <3> QED BY <3>2
  <2>2. /\ ~typing.composing /\ ~typing.sending /\ DiffsIn(typing.timers) = {}
        /\ meant = typing.sent
    BY <2>1, AllIsSent DEF TypingTyped, TypingInv
  <2> HIDE DEF text
  <2> QED BY <1>2, <1>5, <2>1, <2>2, IdleHolds
<1> QED BY <1>6, <1>7 DEF TypingInv

\* What an input method may have typed is waited for.
LEMMA NewDiffHolds ==
  ASSUME NEW k, Textarea(k), DiffsIn(k.timers) = {}, NEW r, NEW m,
         r.timers = Append(k.timers, DiffOf(k)), ~r.composing, ~r.sending,
         m = r.sent \o Difference(r.area, k.area)
  PROVE  Neither(r, m) /\ \A i, j \in DiffsIn(r.timers) : i = j
<1>1. DiffOf(k) \in Timers /\ DiffOf(k).do = "diff" /\ DiffOf(k).old = k.area
  BY TimerKinds DEF DiffOf, Textarea
<1>2. DiffsIn(r.timers) = {Len(k.timers) + 1} /\ r.timers[Len(k.timers) + 1] = DiffOf(k)
  BY <1>1, TimerAdded DEF Textarea
<1> QED BY <1>1, <1>2 DEF Neither

\* Texts one after the other.
LEMMA ThreeTexts ==
  \A q, a, b \in Seq(Int) : (q \o a) \o b = q \o (a \o b)
<1> DEFINE Associative(U) ==
             \A q, a, b \in Seq(U) : (q \o a) \o b = q \o (a \o b)
<1>1. \A U : Associative(U)
  BY ConcatAssociative
<1> HIDE DEF Associative
<1>2. Associative(Int)
  BY <1>1
<1> QED BY <1>2 DEF Associative

\* More has been typed after what is to be sent.
LEMMA SentLonger ==
  ASSUME NEW q \in Seq(Int), NEW b \in Seq(Int), NEW u \in Seq(Int), NEW a, NEW m,
         SentFrom(m, q, b, a)
  PROVE  SentFrom(m \o u, q, b \o u, a)
<1>1. a \in 0 .. Len(b) /\ m = q \o From(b, a)
  BY DEF SentFrom
<1>2. PICK f \in Seq(Int) : f = From(b, a)
  BY <1>1, FromIsText
<1>3. From(b \o u, a) = f \o u
  BY <1>1, <1>2, FromLonger
<1>4. (q \o f) \o u = q \o (f \o u)
  BY <1>2, ThreeTexts
<1>5. b \o u \in Seq(Int) /\ a \in 0 .. Len(b \o u)
  BY <1>1, ConcatProperties
<1> QED BY <1>1, <1>2, <1>3, <1>4, <1>5 DEF SentFrom

\* At the end of the text, all is sent.
LEMMA AllSentFromEnd ==
  ASSUME NEW q \in Seq(Int), NEW b \in Seq(Int)
  PROVE  SentFrom(q, q, b, Len(b))
<1>1. From(b, Len(b)) = <<>> /\ q \o <<>> = q /\ Len(b) \in 0 .. Len(b)
  BY FromTheEnd, ConcatEmptySeq
<1> QED BY <1>1 DEF SentFrom

\* More is typed while a composition is to be sent, and will be sent with it.
LEMMA EndedLonger ==
  ASSUME NEW k, Textarea(k), NEW m, Ended(k, m), DiffsIn(k.timers) = {}, NEW u \in Seq(Int), NEW r,
         r.timers = k.timers, r.area = k.area \o u, r.sent = k.sent, r.start = k.start,
         ~r.composing, r.sending, ~r.marked
  PROVE  Ended(r, m \o u)
<1>1. k.sent \in Seq(Int) /\ k.area \in Seq(Int)
  BY DEF Textarea
<1>2. ASSUME NEW i \in SendsIn(k.timers), FirstSend(k.timers, i)
      PROVE  SentFrom(m \o u, r.sent, r.area, k.timers[i].start)
  <2>1. SentFrom(m, k.sent, k.area, k.timers[i].start)
    BY <1>2 DEF Ended
  <2> QED BY <1>1, <2>1, SentLonger
<1> QED BY <1>2 DEF Ended

\* The input method types: one text to be read, or more of what is to be sent.
LEMMA ImeTypesHolds ==
  ASSUME TypingTyped, TypingInv, ImeTypes
  PROVE  TypingTyped' /\ TypingInv'
<1>1. /\ acted' \in [acts : Int, n : Nat] /\ acted'.n = acted.n + 1 /\ acted.n \in Nat
      /\ Now = acted.n + 1 /\ Now \in Int
  BY TypingActsIs DEF ImeTypes
<1>2. /\ ~ime.on /\ ime' = ime /\ meant' = meant \o <<Now>> /\ typing' = Insert(ImeKey, <<Now>>)
      /\ ~typing.composing /\ Textarea(typing) /\ typing.area \in Seq(Int)
      /\ meant \in Seq(Int) /\ typing.sent \in Seq(Int)
  BY DEF ImeTypes, Meant, TypingTyped, Textarea
<1>3. /\ Known(ime.base, acted'.n) /\ Known(ime.text, acted'.n)
      /\ <<Now>> \in Seq(Int) /\ Known(<<Now>>, acted'.n)
      /\ typing.area \o <<Now>> \in Seq(Int) /\ Known(typing.area \o <<Now>>, acted'.n)
  BY <1>1, <1>2, KnownLater DEF TypingTyped
<1>4. meant' \in Seq(Int)
  BY <1>1, <1>2, SingleText
<1>5. /\ Textarea(ImeKey) /\ ImeKey.area = typing.area /\ ImeKey.marked = typing.marked
      /\ ImeKey.composing = typing.composing /\ ImeKey.sending = typing.sending
      /\ ImeKey.start = typing.start /\ ImeKey.sent = typing.sent
      /\ ImeKey.timers = IF typing.sending THEN typing.timers
                         ELSE Append(typing.timers, DiffOf(typing))
  BY <1>2, ImeKeyIs
<1>6. /\ Textarea(typing')
      /\ typing'.area = (IF typing.marked THEN <<Now>> ELSE typing.area \o <<Now>>)
      /\ typing'.marked = FALSE /\ typing'.composing = typing.composing
      /\ typing'.sending = typing.sending /\ typing'.start = typing.start
      /\ typing'.sent = typing.sent /\ typing'.timers = ImeKey.timers
  BY <1>2, <1>3, <1>5 DEF Insert, Textarea, TypingFields
<1>7. TypingTyped'
  BY <1>1, <1>2, <1>3, <1>4, <1>6 DEF TypingTyped
<1>8. ASSUME spoilt' = {} PROVE TypingHolds(typing', ime', meant')
  <2>1. spoilt = {} /\ DiffsIn(typing.timers) = {}
    BY <1>2, <1>8, NoReason, WaitingSends DEF ImeTypes
  <2>2. Neither(typing, meant) \/ Ended(typing, meant)
    BY <1>2, <2>1 DEF TypingInv, TypingHolds
  <2>3. CASE typing.sending
    <3>1. Ended(typing, meant) /\ typing'.timers = typing.timers /\ ~typing.marked
      BY <1>5, <1>6, <2>2, <2>3 DEF Neither, Ended
    <3>2. typing'.area = typing.area \o <<Now>>
      BY <1>6, <3>1
    <3>4. Ended(typing', meant')
      BY <1>2, <1>3, <1>6, <2>1, <2>3, <3>1, <3>2, EndedLonger
    <3> QED BY <1>2, <2>1, <3>1, <3>4 DEF TypingHolds
  <2>4. CASE ~typing.sending
    <3>1. meant = typing.sent
      BY <2>1, <2>2, <2>4 DEF Neither, Ended
    <3>2. \A i \in 1 .. Len(typing.area) : typing.area[i] # Now
      BY <1>1, <1>2 DEF TypingTyped, Known
    <3>3. Difference(typing.area \o <<Now>>, typing.area) = <<Now>>
      BY <1>2, <1>3, DifferenceIsNew
    <3>4. Difference(<<Now>>, typing.area) = <<Now>>
      BY <1>1, <1>2, <3>2, DifferenceIsAll
    <3>5. Difference(typing'.area, typing.area) = <<Now>>
      BY <1>6, <3>3, <3>4
    <3>6. meant' = typing'.sent \o Difference(typing'.area, typing.area)
      BY <1>2, <1>6, <3>1, <3>5
    <3>7. typing'.timers = Append(typing.timers, DiffOf(typing))
      BY <1>5, <1>6, <2>4
    <3> QED BY <1>2, <1>6, <2>1, <2>4, <3>6, <3>7, NewDiffHolds DEF TypingHolds
  <2> QED BY <2>3, <2>4
<1> QED BY <1>7, <1>8 DEF TypingInv

\* The input method deletes: what is left in the textarea is nothing new.
LEMMA ImeDeletesHolds ==
  ASSUME TypingTyped, TypingInv, ImeDeletes
  PROVE  TypingTyped' /\ TypingInv'
<1> DEFINE text == IF typing.marked \/ typing.area = <<>> THEN <<>> ELSE Front(typing.area)
<1>1. /\ acted' \in [acts : Int, n : Nat] /\ acted'.n = acted.n + 1 /\ acted.n \in Nat
  BY TypingActsIs DEF ImeDeletes
<1>2. /\ ~ime.on /\ ime' = ime /\ meant' = meant
      /\ ~typing.composing /\ Textarea(typing) /\ typing.area \in Seq(Int)
      /\ meant \in Seq(Int) /\ typing.sent \in Seq(Int)
  BY DEF ImeDeletes, TypingTyped, Textarea
<1>3. /\ Textarea(ImeKey) /\ ImeKey.area = typing.area
      /\ ImeKey.composing = typing.composing /\ ImeKey.sending = typing.sending
      /\ ImeKey.start = typing.start /\ ImeKey.sent = typing.sent
      /\ ImeKey.timers = IF typing.sending THEN typing.timers
                         ELSE Append(typing.timers, DiffOf(typing))
  BY <1>2, ImeKeyIs
<1>4. text \in Seq(Int) /\ Known(text, acted'.n)
  <2>1. ASSUME typing.area # <<>>
        PROVE  Front(typing.area) \in Seq(Int) /\ Known(Front(typing.area), acted'.n)
    BY <1>1, <1>2, <2>1, FrontIsText DEF TypingTyped
  <2>2. <<>> \in Seq(Int) /\ Known(<<>>, acted'.n)
    BY <1>1, <1>2, KnownLater DEF TypingTyped
  <2> QED BY <2>1, <2>2
<1>5. Known(ime.base, acted'.n) /\ Known(ime.text, acted'.n)
  BY <1>1, KnownLater DEF TypingTyped
<1>6. typing' = [ImeKey EXCEPT !.marked = FALSE, !.area = text]
  BY <1>3 DEF ImeDeletes, Textarea, TypingFields
<1>7. /\ Textarea(typing') /\ typing'.area = text /\ typing'.timers = ImeKey.timers
      /\ typing'.composing = typing.composing /\ typing'.sending = typing.sending
      /\ typing'.sent = typing.sent
  <2> HIDE DEF text
  <2> QED BY <1>3, <1>4, <1>6 DEF Textarea, TypingFields
<1>8. TypingTyped'
  <2> HIDE DEF text
  <2> QED BY <1>1, <1>2, <1>4, <1>5, <1>7 DEF TypingTyped
<1>9. ASSUME spoilt' = {} PROVE TypingHolds(typing', ime', meant')
  <2>1. spoilt = {} /\ ~ToRead(typing) /\ ~(Len(typing.area) > 1)
    <3>1. spoilt \cup Reason(ToRead(typing) \/ Len(typing.area) > 1, "deleted") = {}
      BY <1>9 DEF ImeDeletes
    <3>2. spoilt = {} /\ ~(ToRead(typing) \/ Len(typing.area) > 1)
      BY <3>1, NoReason
    <3> QED BY <3>2
  <2>2. /\ ~typing.composing /\ ~typing.sending /\ DiffsIn(typing.timers) = {}
        /\ meant = typing.sent
    BY <1>2, <2>1, AllIsSent DEF TypingInv
  <2>3. text = <<>>
    BY <1>2, <2>1, FrontIsText
  <2>4. Difference(typing'.area, typing.area) = <<>> /\ typing.sent \o <<>> = typing.sent
    BY <1>2, <1>7, <2>3, DifferenceIsNone, ConcatEmptySeq
  <2>5. meant' = typing'.sent \o Difference(typing'.area, typing.area)
    BY <1>2, <1>7, <2>2, <2>4
  <2>6. typing'.timers = Append(typing.timers, DiffOf(typing))
    BY <1>3, <1>7, <2>2
  <2> QED BY <1>2, <1>7, <2>2, <2>5, <2>6, NewDiffHolds DEF TypingHolds
<1> QED BY <1>8, <1>9 DEF TypingInv

EndTimer == [do |-> "end"]
SendTimer(k) == [do |-> "send", start |-> k.start, end |-> k.end]

\* A composition opens over what has ended, or over nothing to be sent.
LEMMA ComposingStarts ==
  ASSUME NEW k, Textarea(k), NEW m, Neither(k, m) \/ Ended(k, m),
         DiffsIn(k.timers) = {}, ~(SendsIn(k.timers) # {} /\ ~k.sending),
         \A i \in SendsIn(k.timers) : k.timers[i].end = Len(k.area),
         NEW r, r.composing, ~r.marked, r.sending = k.sending, r.start = Len(k.area),
         r.sent = k.sent,
         NEW t, \A i \in DiffsIn(t) : t[i].old = k.area, k.sending => DiffsIn(t) = {},
         SendsIn(t) = SendsIn(k.timers), \A i \in SendsIn(t) : t[i] = k.timers[i],
         r.timers = t
  PROVE  Composing(r, k.area, m)
<1>1. CASE k.sending
  <2>1. Ended(k, m)
    BY <1>1 DEF Neither
  <2>2. ASSUME NEW i \in SendsIn(t), ~FirstSend(t, i) PROVE t[i].start = Len(k.area)
    <3>1. PICK j \in SendsIn(k.timers) : j < i
      BY <2>2 DEF FirstSend, SendsIn
    <3> QED BY <2>1, <3>1 DEF Ended
  <2>3. ASSUME NEW i \in SendsIn(t), FirstSend(t, i)
        PROVE  SentFrom(m, k.sent, k.area, t[i].start)
    BY <2>1, <2>3 DEF Ended, FirstSend
  <2>4. /\ r.sending /\ SendsIn(t) # {} /\ DiffsIn(t) = {}
        /\ \A i \in SendsIn(t) : t[i].end = Len(k.area)
    BY <1>1, <2>1 DEF Ended
  <2> QED BY <2>2, <2>3, <2>4 DEF Composing
<1>2. CASE ~k.sending
  <2>1. m = k.sent /\ SendsIn(t) = {}
    BY <1>2 DEF Neither, Ended
  <2> QED BY <1>2, <2>1 DEF Composing
<1> QED BY <1>1, <1>2

\* A composition begins; one that has ended is sent up to where this one starts.
LEMMA ImeOpensHolds ==
  ASSUME TypingTyped, TypingInv, ImeOpens
  PROVE  TypingTyped' /\ TypingInv'
<1> DEFINE base == IF typing.marked THEN <<>> ELSE typing.area
<1>1. /\ acted' \in [acts : Int, n : Nat] /\ acted'.n = acted.n + 1 /\ acted.n \in Nat
      /\ Now = acted.n + 1 /\ Now \in Int
  BY TypingActsIs DEF ImeOpens
<1>2. /\ ~ime.on /\ ime' = [on |-> TRUE, base |-> base, text |-> <<Now>>] /\ meant' = meant
      /\ ~typing.composing /\ Textarea(typing) /\ typing.area \in Seq(Int)
      /\ meant \in Seq(Int) /\ typing.sent \in Seq(Int) /\ typing.timers \in Seq(Timers)
  BY DEF ImeOpens, TypingTyped, Textarea
<1>3. /\ Textarea(ImeKey) /\ ImeKey.area = typing.area
      /\ ImeKey.sending = typing.sending /\ ImeKey.sent = typing.sent
      /\ ImeKey.timers = IF typing.sending THEN typing.timers
                         ELSE Append(typing.timers, DiffOf(typing))
  BY <1>2, ImeKeyIs
<1>4. base \in Seq(Int) /\ Known(base, acted'.n) /\ <<Now>> \in Seq(Int) /\ Known(<<Now>>, acted'.n)
  BY <1>1, <1>2, KnownLater DEF TypingTyped
<1>5. base \o <<Now>> \in Seq(Int) /\ Known(base \o <<Now>>, acted'.n)
  <2>1. base \in {<<>>, typing.area} /\ Known(<<>>, acted.n) /\ Known(typing.area, acted.n)
    BY <1>1 DEF Known, TypingTyped
  <2> HIDE DEF base
  <2> QED BY <1>1, <1>4, <2>1, KnownLater
<1>6. EndTimer \in Timers /\ EndTimer.do = "end"
  BY TimerKinds DEF EndTimer
<1>7. Append(ImeKey.timers, EndTimer) \in Seq(Timers) /\ Len(typing.area) \in Int
  BY <1>2, <1>3, <1>6, AppendProperties DEF Textarea
<1>8. typing' = [Composed(CompositionUpdate(CompositionStart(ImeKey)), base, <<Now>>)
                   EXCEPT !.marked = FALSE]
  BY DEF ImeOpens
<1>9. /\ Textarea(typing') /\ typing'.area = base \o <<Now>> /\ typing'.marked = FALSE
      /\ typing'.composing = TRUE /\ typing'.sending = typing.sending
      /\ typing'.start = Len(typing.area) /\ typing'.sent = typing.sent
      /\ typing'.timers = Append(ImeKey.timers, EndTimer)
  <2> HIDE DEF base
  <2> QED BY <1>3, <1>5, <1>7, <1>8
          DEF Textarea, TypingFields, Composed, CompositionUpdate, CompositionStart, Later, EndTimer
<1>10. TypingTyped'
  <2> HIDE DEF base
  <2> QED BY <1>1, <1>2, <1>4, <1>5, <1>9 DEF TypingTyped
<1>11. ASSUME spoilt' = {} PROVE TypingHolds(typing', ime', meant')
  <2>1. /\ spoilt = {} /\ ~typing.marked /\ DiffsIn(typing.timers) = {}
        /\ ~(SendsIn(typing.timers) # {} /\ ~typing.sending)
        /\ \A i \in SendsIn(typing.timers) : typing.timers[i].end = Len(typing.area)
    <3> DEFINE early == \E i \in DOMAIN typing.timers :
                           typing.timers[i].do = "send"
                           /\ typing.timers[i].end # Len(typing.area)
    <3>1. (((spoilt \cup Reason(typing.marked, "marked"))
              \cup Reason(Waits(typing, "diff"), "unread"))
              \cup Reason(Waits(typing, "send") /\ ~typing.sending, "early"))
              \cup Reason(early, "early") = {}
      BY <1>11 DEF ImeOpens
    <3> HIDE DEF early
    <3>2. /\ spoilt = {} /\ ~typing.marked /\ ~Waits(typing, "diff")
          /\ ~(Waits(typing, "send") /\ ~typing.sending) /\ ~early
      <4>1. /\ ((spoilt \cup Reason(typing.marked, "marked"))
                \cup Reason(Waits(typing, "diff"), "unread"))
                \cup Reason(Waits(typing, "send") /\ ~typing.sending, "early") = {}
            /\ ~early
        <5>1. PICK U : U = ((spoilt \cup Reason(typing.marked, "marked"))
                \cup Reason(Waits(typing, "diff"), "unread"))
                \cup Reason(Waits(typing, "send") /\ ~typing.sending, "early")
          OBVIOUS
        <5>2. U \cup Reason(early, "early") = {}
          BY <3>1, <5>1
        <5>3. U = {} /\ ~early
          BY <5>2, NoReason
        <5> QED BY <5>1, <5>3
      <4>2. /\ (spoilt \cup Reason(typing.marked, "marked"))
                \cup Reason(Waits(typing, "diff"), "unread") = {}
            /\ ~(Waits(typing, "send") /\ ~typing.sending)
        <5>1. PICK U : U = (spoilt \cup Reason(typing.marked, "marked"))
                \cup Reason(Waits(typing, "diff"), "unread")
          OBVIOUS
        <5>2. U \cup Reason(Waits(typing, "send") /\ ~typing.sending, "early") = {}
          BY <4>1, <5>1
        <5>3. U = {} /\ ~(Waits(typing, "send") /\ ~typing.sending)
          BY <5>2, NoReason
        <5> QED BY <5>1, <5>3
      <4> QED BY <4>1, <4>2, NoReason
    <3>3. \A i \in SendsIn(typing.timers) : typing.timers[i].end = Len(typing.area)
      BY <1>2, <3>2 DEF early, SendsIn
    <3> QED BY <1>2, <3>2, <3>3, WaitingSends
  <2>2. Neither(typing, meant) \/ Ended(typing, meant)
    BY <1>2, <2>1 DEF TypingInv, TypingHolds
  <2>3. base = typing.area
    BY <2>1
  <2>4. /\ SameSends(typing.timers, ImeKey.timers) /\ ImeKey.timers \in Seq(Timers)
        /\ \A i, j \in DiffsIn(ImeKey.timers) : i = j
        /\ \A i \in DiffsIn(ImeKey.timers) : ImeKey.timers[i].old = typing.area
        /\ typing.sending => DiffsIn(ImeKey.timers) = {}
    <3>1. CASE typing.sending
      BY <1>2, <1>3, <2>1, <3>1 DEF SameSends
    <3>2. CASE ~typing.sending
      <4>1. DiffOf(typing) \in Timers /\ DiffOf(typing).do = "diff"
            /\ DiffOf(typing).old = typing.area
        BY <1>2, TimerKinds DEF DiffOf
      <4> QED BY <1>2, <1>3, <2>1, <3>2, <4>1, DiffAdded
    <3> QED BY <3>1, <3>2
  <2>5. SameSends(ImeKey.timers, typing'.timers) /\ SameDiffs(ImeKey.timers, typing'.timers)
    BY <1>6, <1>9, <2>4, EndAdded
  <2>6. /\ SendsIn(typing'.timers) = SendsIn(typing.timers)
        /\ \A i \in SendsIn(typing'.timers) : typing'.timers[i] = typing.timers[i]
        /\ \A i \in DiffsIn(typing'.timers) : typing'.timers[i].old = typing.area
        /\ \A i, j \in DiffsIn(typing'.timers) : i = j
        /\ typing.sending => DiffsIn(typing'.timers) = {}
    BY <2>4, <2>5 DEF SameSends, SameDiffs
  <2>7. Composing(typing', typing.area, meant)
    BY <1>2, <1>9, <2>1, <2>2, <2>6, ComposingStarts
  <2> QED BY <1>2, <1>9, <2>3, <2>6, <2>7 DEF TypingHolds
<1> QED BY <1>10, <1>11 DEF TypingInv

\* While it composes, the helper leaves the keys of the input method alone.
LEMMA ImeKeyComposing ==
  ASSUME TypingTyped, ime.on
  PROVE  /\ Textarea(ImeKey) /\ ImeKey.composing = TRUE
         /\ ImeKey.area = typing.area /\ ImeKey.marked = typing.marked
         /\ ImeKey.sending = typing.sending /\ ImeKey.start = typing.start
         /\ ImeKey.end = typing.end /\ ImeKey.sent = typing.sent
         /\ ImeKey.timers = typing.timers
<1>1. Textarea(typing) /\ typing.composing = TRUE
  BY DEF TypingTyped
<1> QED BY <1>1, ImeKeyIs

\* The invariant does not see the timeouts that only note an end.
LEMMA SameTimers ==
  ASSUME NEW t, NEW u, SameSends(t, u), SameDiffs(t, u)
  PROVE  /\ SendsIn(u) = SendsIn(t) /\ DiffsIn(u) = DiffsIn(t)
         /\ \A i : FirstSend(u, i) <=> FirstSend(t, i)
         /\ \A i : LastSend(u, i) <=> LastSend(t, i)
         /\ \A i \in SendsIn(u) \cup DiffsIn(u) : u[i] = t[i]
  BY DEF SameSends, SameDiffs, FirstSend, LastSend

\* The composed text changes, and with it nothing of what was to be sent.
LEMMA ComposingGoesOn ==
  ASSUME NEW k, NEW b, NEW m, Composing(k, b, m), NEW r,
         SameSends(k.timers, r.timers), SameDiffs(k.timers, r.timers),
         r.composing = k.composing, r.marked = k.marked, r.sending = k.sending,
         r.start = k.start, r.sent = k.sent
  PROVE  Composing(r, b, m)
  BY SameTimers DEF Composing

\* The composed text changes.
LEMMA ImeChangesHolds ==
  ASSUME TypingTyped, TypingInv, ImeChanges
  PROVE  TypingTyped' /\ TypingInv'
<1>1. /\ acted' \in [acts : Int, n : Nat] /\ acted'.n = acted.n + 1 /\ acted.n \in Nat
      /\ Now = acted.n + 1 /\ Now \in Int
  BY TypingActsIs DEF ImeChanges
<1>2. /\ ime.on /\ meant' = meant /\ spoilt' = spoilt
      /\ meant \in Seq(Int) /\ ime.text \in Seq(Int) /\ ime.base \in Seq(Int)
      /\ Known(ime.base, acted.n) /\ Known(ime.text, acted.n)
  BY DEF ImeChanges, TypingTyped
<1>3. PICK kept \in {ime.text, Front(ime.text)} :
        /\ ime' = [ime EXCEPT !.text = Append(kept, Now)]
        /\ typing' = Composed(CompositionUpdate(ImeKey), ime.base, Append(kept, Now))
  BY DEF ImeChanges
<1>4. kept \in Seq(Int) /\ Known(kept, acted'.n)
  BY <1>1, <1>2, <1>3, FrontIsText, KnownLater
<1>5. PICK text : text = Append(kept, Now)
  OBVIOUS
<1>6. text \in Seq(Int) /\ Known(text, acted'.n)
  <2>1. /\ text \in Seq(Int) /\ Len(text) = Len(kept) + 1 /\ text[Len(kept) + 1] = Now
        /\ \A i \in 1 .. Len(kept) : text[i] = kept[i]
    BY <1>1, <1>4, <1>5, AppendProperties
  <2>2. \A i \in 1 .. Len(text) : i \in 1 .. Len(kept) \/ i = Len(kept) + 1
    BY <1>4, <2>1
  <2>3. ASSUME NEW i \in 1 .. Len(text) PROVE text[i] <= acted'.n
    <3>1. CASE i = Len(kept) + 1
      BY <1>1, <2>1, <3>1
    <3>2. CASE i \in 1 .. Len(kept)
      BY <1>4, <2>1, <3>2 DEF Known
    <3> QED BY <2>2, <3>1, <3>2
  <2> QED BY <2>1, <2>3 DEF Known
<1>7. /\ ime.base \o text \in Seq(Int) /\ Known(ime.base, acted'.n)
      /\ Known(ime.base \o text, acted'.n)
  <2>1. Known(ime.base, acted'.n)
    BY <1>1, <1>2, KnownLater
  <2>2. acted'.n \in Nat
    BY <1>1
  <2> QED BY <1>2, <1>6, <2>1, <2>2, KnownTogether
<1>8. /\ Textarea(ImeKey) /\ ImeKey.composing = TRUE
      /\ ImeKey.area = typing.area /\ ImeKey.marked = typing.marked
      /\ ImeKey.sending = typing.sending /\ ImeKey.start = typing.start
      /\ ImeKey.end = typing.end /\ ImeKey.sent = typing.sent
      /\ ImeKey.timers = typing.timers
  BY <1>2, ImeKeyComposing
<1>9. EndTimer \in Timers /\ EndTimer.do = "end"
  BY TimerKinds DEF EndTimer
<1>10. /\ Append(typing.timers, EndTimer) \in Seq(Timers)
       /\ SameSends(typing.timers, Append(typing.timers, EndTimer))
       /\ SameDiffs(typing.timers, Append(typing.timers, EndTimer))
  BY <1>9, EndAdded DEF TypingTyped, Textarea
<1>11. /\ Textarea(typing') /\ typing'.area = ime.base \o text
       /\ typing'.composing = TRUE /\ typing'.marked = typing.marked
       /\ typing'.sending = typing.sending /\ typing'.start = typing.start
       /\ typing'.sent = typing.sent /\ typing'.timers = Append(typing.timers, EndTimer)
  BY <1>3, <1>5, <1>7, <1>8, <1>10
  DEF Textarea, TypingFields, Composed, CompositionUpdate, Later, EndTimer
<1>12. /\ ime' \in [on : BOOLEAN, base : Seq(Int), text : Seq(Int)]
       /\ ime'.on /\ ime'.on = TRUE /\ ime'.base = ime.base /\ ime'.text = text
  BY <1>2, <1>3, <1>5, <1>6 DEF TypingTyped
<1>13. TypingTyped'
  BY <1>1, <1>2, <1>6, <1>7, <1>11, <1>12 DEF TypingTyped
<1>14. ASSUME spoilt' = {} PROVE TypingHolds(typing', ime', meant')
  <2>1. /\ Composing(typing, ime.base, meant) /\ typing.composing = TRUE
        /\ \A i, j \in DiffsIn(typing.timers) : i = j
    BY <1>2, <1>14 DEF TypingInv, TypingHolds, TypingTyped
  <2>2. Composing(typing', ime.base, meant)
    BY <1>10, <1>11, <2>1, ComposingGoesOn
  <2>3. \A i, j \in DiffsIn(typing'.timers) : i = j
    BY <1>10, <1>11, <2>1 DEF SameDiffs
  <2> QED BY <1>2, <1>11, <1>12, <2>2, <2>3 DEF TypingHolds
<1> QED BY <1>13, <1>14 DEF TypingInv

\* What a composition was over, with the text it brought, is to be sent after it.
EndsWith(r, k, b, text, t, s) ==
  /\ b \in Seq(Int) /\ text \in Seq(Int) /\ k.sent \in Seq(Int)
  /\ DiffsIn(k.timers) # {} => text = <<>>
  /\ t \in Seq(Timers) /\ SameSends(k.timers, t) /\ SameDiffs(k.timers, t)
  /\ s \in Timers /\ s.do = "send" /\ s.start = Len(b)
  /\ r.timers = Append(t, s) /\ r.area = b \o text /\ r.sent = k.sent /\ r.start = Len(b)
  /\ ~r.composing /\ r.sending /\ ~r.marked

\* A composition has ended, with its text or with none.
LEMMA CompositionEnds ==
  ASSUME NEW k, NEW b, NEW m \in Seq(Int), Composing(k, b, m), NEW text, NEW t, NEW s, NEW r,
         EndsWith(r, k, b, text, t, s)
  PROVE  Ended(r, m \o text) /\ DiffsIn(r.timers) = DiffsIn(k.timers)
<1>0. /\ b \in Seq(Int) /\ text \in Seq(Int) /\ k.sent \in Seq(Int)
      /\ DiffsIn(k.timers) # {} => text = <<>>
      /\ t \in Seq(Timers) /\ SameSends(k.timers, t) /\ SameDiffs(k.timers, t)
      /\ s \in Timers /\ s.do = "send" /\ s.start = Len(b)
      /\ r.timers = Append(t, s) /\ r.area = b \o text /\ r.sent = k.sent /\ r.start = Len(b)
      /\ ~r.composing /\ r.sending /\ ~r.marked
  BY DEF EndsWith
<1> DEFINE us == Append(t, s)
           n == Len(t) + 1
<1>1. /\ SendsIn(us) = SendsIn(t) \cup {n} /\ DiffsIn(us) = DiffsIn(t) /\ us[n] = s
      /\ \A i \in SendsIn(t) \cup DiffsIn(t) : us[i] = t[i] /\ i \in Nat /\ i <= Len(t)
      /\ Len(t) \in Nat /\ n \in Nat /\ n = Len(t) + 1
  BY <1>0, SendAdded
<1>2. /\ SendsIn(t) = SendsIn(k.timers) /\ DiffsIn(t) = DiffsIn(k.timers)
      /\ \A i \in SendsIn(t) \cup DiffsIn(t) : t[i] = k.timers[i]
      /\ \A i : FirstSend(t, i) <=> FirstSend(k.timers, i)
  BY <1>0, SameTimers
<1> HIDE DEF us, n
<1>3. Len(b) \in Nat
  BY <1>0
<1>4. ASSUME NEW i \in SendsIn(us), FirstSend(us, i)
      PROVE  SentFrom(m \o text, k.sent, b \o text, us[i].start)
  <2>1. SentFrom(m, k.sent, b, us[i].start)
    <3>1. CASE i = n
      <4>1. SendsIn(k.timers) = {}
        <5>1. ASSUME NEW j \in SendsIn(t) PROVE FALSE
          <6>1. j \in Nat /\ j <= Len(t) /\ j \in SendsIn(us)
            BY <1>1
          <6>2. n <= j
            BY <1>4, <3>1, <6>1 DEF FirstSend
          <6> QED BY <1>1, <6>1, <6>2
        <5> QED BY <1>2, <5>1
      <4>2. m = k.sent
        BY <4>1 DEF Composing
      <4> QED BY <1>0, <1>1, <3>1, <4>2, AllSentFromEnd
    <3>2. CASE i # n
      <4>1. i \in SendsIn(k.timers) /\ FirstSend(k.timers, i) /\ us[i] = k.timers[i]
        BY <1>1, <1>2, <1>4, <3>2 DEF FirstSend
      <4>2. CASE k.sending
        BY <4>1, <4>2 DEF Composing
      <4>3. CASE ~k.sending
        <5>1. k.timers[i].start = Len(b) /\ m = k.sent
          BY <4>1, <4>3 DEF Composing
        <5> QED BY <1>0, <4>1, <5>1, AllSentFromEnd
      <4> QED BY <4>2, <4>3
    <3> QED BY <3>1, <3>2
  <2> QED BY <1>0, <2>1, SentLonger
<1>5. ASSUME NEW i \in SendsIn(us), NEW j \in SendsIn(us), i < j PROVE us[j].start = us[i].end
  <2>1. i \in SendsIn(k.timers) /\ us[i] = k.timers[i] /\ us[i].end = Len(b)
    <3>1. i # n
      BY <1>1, <1>5 DEF n
    <3>2. i \in SendsIn(k.timers) /\ us[i] = k.timers[i]
      BY <1>1, <1>2, <3>1
    <3> QED BY <3>2 DEF Composing
  <2>2. us[j].start = Len(b)
    <3>1. CASE j = n
      BY <1>0, <1>1, <3>1
    <3>2. CASE j # n
      <4>1. j \in SendsIn(k.timers) /\ us[j] = k.timers[j] /\ i \in Nat /\ j \in Nat
        BY <1>1, <1>2, <2>1, <3>2
      <4>2. ~FirstSend(k.timers, j)
        BY <1>5, <2>1, <4>1 DEF FirstSend
      <4> QED BY <4>1, <4>2 DEF Composing
    <3> QED BY <3>1, <3>2
  <2> QED BY <2>1, <2>2
<1>6. ASSUME NEW i \in SendsIn(us), LastSend(us, i) PROVE us[i].start = Len(b)
  <2>1. i = n
    <3>1. n <= i
      BY <1>1, <1>6 DEF LastSend
    <3>2. i \in SendsIn(t) => i \in Nat /\ i <= Len(t)
      BY <1>1
    <3>3. i \notin SendsIn(t)
      BY <1>1, <3>1, <3>2
    <3> QED BY <1>1, <3>3
  <2> QED BY <1>0, <1>1, <2>1
<1>7. ASSUME NEW i \in DiffsIn(us) PROVE us[i].old = b \o text
  <2>1. us[i].old = b /\ text = <<>>
    BY <1>0, <1>1, <1>2, <1>7 DEF Composing
  <2> QED BY <1>0, <2>1, ConcatEmptySeq
<1>8. ASSUME NEW i \in SendsIn(us), FirstSend(us, i), DiffsIn(us) # {}
      PROVE  us[i].start = Len(b \o text)
  <2>1. text = <<>> /\ ~k.sending
    BY <1>0, <1>1, <1>2, <1>8 DEF Composing
  <2>2. us[i].start = Len(b)
    BY <1>0, <1>1, <1>2, <2>1 DEF Composing
  <2> QED BY <1>0, <2>1, <2>2, ConcatEmptySeq
<1>9. r.timers = us /\ n \in SendsIn(us)
  BY <1>0, <1>1 DEF us
<1>10. DiffsIn(r.timers) = DiffsIn(k.timers) /\ SendsIn(r.timers) # {}
  BY <1>1, <1>2, <1>9
<1>11. \A i \in SendsIn(r.timers) : FirstSend(r.timers, i) =>
         /\ SentFrom(m \o text, r.sent, r.area, r.timers[i].start)
         /\ DiffsIn(r.timers) # {} => r.timers[i].start = Len(r.area)
  BY <1>0, <1>4, <1>8, <1>9
<1>12. /\ \A i, j \in SendsIn(r.timers) : i < j => r.timers[j].start = r.timers[i].end
       /\ \A i \in SendsIn(r.timers) : LastSend(r.timers, i) => r.timers[i].start = r.start
       /\ \A i \in DiffsIn(r.timers) : r.timers[i].old = r.area
  BY <1>0, <1>5, <1>6, <1>7, <1>9
<1> QED BY <1>0, <1>10, <1>11, <1>12 DEF Ended

\* compositionend starts a timeout with the positions as they are.
LEMMA CompositionEndIs ==
  ASSUME NEW k, Textarea(k)
  PROVE  LET r == CompositionEnd(k)
         IN  /\ Textarea(r) /\ r.area = k.area /\ r.marked = k.marked /\ r.sent = k.sent
             /\ r.start = k.start /\ r.composing = FALSE /\ r.sending = TRUE
             /\ r.timers = Append(k.timers, SendTimer(k))
             /\ SendTimer(k) \in Timers /\ SendTimer(k).do = "send" /\ SendTimer(k).start = k.start
<1>1. SendTimer(k) \in Timers /\ SendTimer(k).do = "send" /\ SendTimer(k).start = k.start
  BY TimerKinds DEF SendTimer, Textarea
<1>2. Append(k.timers, SendTimer(k)) \in Seq(Timers)
  BY <1>1, AppendProperties DEF Textarea
<1>3. CompositionEnd(k) = [k EXCEPT !.composing = FALSE, !.sending = TRUE,
                                     !.timers = Append(@, SendTimer(k))]
  BY DEF CompositionEnd, Later, SendTimer, Textarea, TypingFields
<1> QED BY <1>1, <1>2, <1>3 DEF Textarea, TypingFields

\* A composition is committed.
LEMMA ImeCommitsHolds ==
  ASSUME TypingTyped, TypingInv, ImeCommits
  PROVE  TypingTyped' /\ TypingInv'
<1>1. /\ acted' \in [acts : Int, n : Nat] /\ acted'.n = acted.n + 1 /\ acted.n \in Nat
  BY TypingActsIs DEF ImeCommits
<1>2. /\ ime.on /\ ime' = [ime EXCEPT !.on = FALSE] /\ meant' = meant \o ime.text
      /\ typing' = CompositionEnd(ImeKey)
      /\ meant \in Seq(Int) /\ ime.text \in Seq(Int) /\ ime.base \in Seq(Int)
      /\ ime \in [on : BOOLEAN, base : Seq(Int), text : Seq(Int)]
      /\ Textarea(typing) /\ typing.composing = TRUE
  BY DEF ImeCommits, Meant, TypingTyped
<1>3. /\ ime' \in [on : BOOLEAN, base : Seq(Int), text : Seq(Int)]
      /\ ime'.on = FALSE /\ ime'.base = ime.base /\ ime'.text = ime.text
  BY <1>2
<1>4. /\ Textarea(ImeKey) /\ ImeKey.area = typing.area /\ ImeKey.marked = typing.marked
      /\ ImeKey.start = typing.start /\ ImeKey.end = typing.end /\ ImeKey.sent = typing.sent
      /\ ImeKey.timers = typing.timers
  BY <1>2, ImeKeyComposing
<1>5. /\ Textarea(typing') /\ typing'.area = typing.area /\ typing'.marked = typing.marked
      /\ typing'.sent = typing.sent /\ typing'.start = typing.start
      /\ typing'.composing = FALSE /\ typing'.sending = TRUE
      /\ typing'.timers = Append(typing.timers, SendTimer(ImeKey))
      /\ SendTimer(ImeKey) \in Timers /\ SendTimer(ImeKey).do = "send"
      /\ SendTimer(ImeKey).start = typing.start
  BY <1>2, <1>4, CompositionEndIs
<1>6. meant' \in Seq(Int)
  BY <1>2, ConcatProperties
<1>7. Known(typing.area, acted'.n) /\ Known(ime.base, acted'.n) /\ Known(ime.text, acted'.n)
  BY <1>1, <1>2, KnownLater DEF TypingTyped, Textarea
<1>8. TypingTyped'
  BY <1>1, <1>3, <1>5, <1>6, <1>7 DEF TypingTyped
<1>9. ASSUME spoilt' = {} PROVE TypingHolds(typing', ime', meant')
  <2>1. spoilt = {} /\ DiffsIn(typing.timers) = {}
    <3>1. spoilt \cup Reason(Waits(typing, "diff"), "unread") = {}
      BY <1>9 DEF ImeCommits
    <3>2. spoilt = {} /\ ~Waits(typing, "diff")
      BY <3>1, NoReason
    <3> QED BY <1>2, <3>2, WaitingSends
  <2>2. Composing(typing, ime.base, meant) /\ typing.area = ime.base \o ime.text
    BY <1>2, <2>1 DEF TypingInv, TypingHolds
  <2>3. typing.start = Len(ime.base) /\ ~typing.marked
    BY <2>2 DEF Composing
  <2>4. SameSends(typing.timers, typing.timers) /\ SameDiffs(typing.timers, typing.timers)
    BY DEF SameSends, SameDiffs
  <2>5. typing.sent \in Seq(Int) /\ typing.timers \in Seq(Timers)
    BY <1>2 DEF Textarea
  <2>6. Ended(typing', meant \o ime.text) /\ DiffsIn(typing'.timers) = DiffsIn(typing.timers)
    <3>1. EndsWith(typing', typing, ime.base, ime.text, typing.timers, SendTimer(ImeKey))
      BY <1>2, <1>5, <2>1, <2>2, <2>3, <2>4, <2>5 DEF EndsWith
    <3> QED BY <1>2, <2>2, <3>1, CompositionEnds
  <2> QED BY <1>2, <1>3, <2>1, <2>6 DEF TypingHolds
<1> QED BY <1>8, <1>9 DEF TypingInv

\* A composition is cancelled.
LEMMA ImeCancelsHolds ==
  ASSUME TypingTyped, TypingInv, ImeCancels
  PROVE  TypingTyped' /\ TypingInv'
<1> DEFINE k == Composed(CompositionUpdate(ImeKey), ime.base, <<>>)
           t == Append(typing.timers, EndTimer)
<1>1. /\ acted' \in [acts : Int, n : Nat] /\ acted'.n = acted.n + 1 /\ acted.n \in Nat
  BY TypingActsIs DEF ImeCancels
<1>2. /\ ime.on /\ ime' = [ime EXCEPT !.on = FALSE] /\ meant' = meant /\ spoilt' = spoilt
      /\ typing' = CompositionEnd(k)
      /\ meant \in Seq(Int) /\ ime.text \in Seq(Int) /\ ime.base \in Seq(Int)
      /\ ime \in [on : BOOLEAN, base : Seq(Int), text : Seq(Int)]
      /\ Textarea(typing) /\ typing.composing = TRUE
  BY DEF ImeCancels, TypingTyped
<1>3. /\ ime' \in [on : BOOLEAN, base : Seq(Int), text : Seq(Int)]
      /\ ime'.on = FALSE /\ ime'.base = ime.base /\ ime'.text = ime.text
  BY <1>2
<1>4. /\ Textarea(ImeKey) /\ ImeKey.marked = typing.marked
      /\ ImeKey.start = typing.start /\ ImeKey.sent = typing.sent
      /\ ImeKey.timers = typing.timers
  BY <1>2, ImeKeyComposing
<1>5. ime.base \o <<>> = ime.base
  BY <1>2, ConcatEmptySeq
<1>6. EndTimer \in Timers /\ EndTimer.do = "end"
  BY TimerKinds DEF EndTimer
<1>7. t \in Seq(Timers) /\ SameSends(typing.timers, t) /\ SameDiffs(typing.timers, t)
  BY <1>2, <1>6, EndAdded DEF Textarea
<1>8. /\ Textarea(k) /\ k.area = ime.base /\ k.marked = typing.marked
      /\ k.start = typing.start /\ k.sent = typing.sent /\ k.timers = t
  BY <1>2, <1>4, <1>5, <1>7 DEF Textarea, TypingFields, Composed, CompositionUpdate, Later, EndTimer
<1> HIDE DEF k, t
<1>9. /\ Textarea(typing') /\ typing'.area = ime.base /\ typing'.marked = typing.marked
      /\ typing'.sent = typing.sent /\ typing'.start = typing.start
      /\ typing'.composing = FALSE /\ typing'.sending = TRUE
      /\ typing'.timers = Append(t, SendTimer(k))
      /\ SendTimer(k) \in Timers /\ SendTimer(k).do = "send" /\ SendTimer(k).start = typing.start
  BY <1>2, <1>8, CompositionEndIs
<1>10. Known(ime.base, acted'.n) /\ Known(ime.text, acted'.n)
  BY <1>1, <1>2, KnownLater DEF TypingTyped
<1>11. TypingTyped'
  BY <1>1, <1>2, <1>3, <1>9, <1>10 DEF TypingTyped
<1>12. ASSUME spoilt' = {} PROVE TypingHolds(typing', ime', meant')
  <2>1. Composing(typing, ime.base, meant) /\ \A i, j \in DiffsIn(typing.timers) : i = j
    BY <1>2, <1>12 DEF TypingInv, TypingHolds
  <2>2. typing.start = Len(ime.base) /\ ~typing.marked
    BY <2>1 DEF Composing
  <2>3. typing.sent \in Seq(Int) /\ <<>> \in Seq(Int)
    BY <1>2 DEF Textarea
  <2>4. typing'.area = ime.base \o <<>>
    BY <1>5, <1>9
  <2>5. Ended(typing', meant \o <<>>) /\ DiffsIn(typing'.timers) = DiffsIn(typing.timers)
    <3>1. PICK none : none = <<>>
      OBVIOUS
    <3>2. EndsWith(typing', typing, ime.base, none, t, SendTimer(k))
      BY <1>2, <1>7, <1>9, <2>2, <2>3, <2>4, <3>1 DEF EndsWith
    <3>3. Ended(typing', meant \o none) /\ DiffsIn(typing'.timers) = DiffsIn(typing.timers)
      BY <1>2, <2>1, <3>2, CompositionEnds
    <3> QED BY <3>1, <3>3
  <2>6. meant \o <<>> = meant
    BY <1>2, ConcatEmptySeq
  <2> QED BY <1>2, <1>3, <2>1, <2>5, <2>6 DEF TypingHolds
<1> QED BY <1>11, <1>12 DEF TypingInv

\* The oldest timeout, of each kind.
LEMMA TimeoutIs ==
  ASSUME Textarea(typing), typing.timers # <<>>, NEW r, r = Timeout(Same(typing))
  PROVE  LET t == Head(typing.timers)
             d == Difference(typing.area, t.old)
         IN  /\ Textarea(r) /\ r.area = typing.area /\ r.marked = typing.marked
             /\ r.composing = typing.composing /\ r.start = typing.start
             /\ r.timers = Tail(typing.timers)
             /\ t.do = "end" \/ (t.do = "send" /\ ~typing.sending) =>
                  r.sent = typing.sent /\ r.sending = typing.sending
             /\ t.do = "send" /\ typing.sending =>
                  /\ r.sending = FALSE
                  /\ r.sent = typing.sent \o Substring(typing.area, t.start,
                                IF typing.composing THEN t.end ELSE Len(typing.area))
             /\ t.do = "diff" =>
                  /\ r.sending = typing.sending
                  /\ r.sent = IF typing.composing \/ d = <<>> THEN typing.sent ELSE typing.sent \o d
<1>1. PICK t : t = Head(typing.timers)
  OBVIOUS
<1> DEFINE k == Same(typing)
           e == IF typing.composing THEN t.end ELSE Len(typing.area)
           d == Difference(typing.area, t.old)
           u == [k EXCEPT !.timers = Tail(@)]
<1>2. /\ Tail(typing.timers) \in Seq(Timers) /\ t \in Timers
      /\ t.do \in {"end", "send", "diff"}
  BY <1>1, TimerCame, TimerKinds DEF Textarea
<1>3. /\ Textarea(k) /\ k.area = typing.area /\ k.timers = typing.timers
      /\ k.sending = typing.sending /\ k.composing = typing.composing /\ k.sent = typing.sent
      /\ k.marked = typing.marked /\ k.start = typing.start
  BY DEF Same, Textarea, TypingFields
<1> HIDE DEF k
<1>4. /\ Textarea(u) /\ u.area = typing.area /\ u.marked = typing.marked
      /\ u.composing = typing.composing /\ u.start = typing.start /\ u.sent = typing.sent
      /\ u.sending = typing.sending /\ u.timers = Tail(typing.timers)
  BY <1>2, <1>3 DEF Textarea, TypingFields
<1>5. r = CASE t.do = "end" -> [u EXCEPT !.end = Len(typing.area)]
            [] t.do = "send" ->
                 IF ~typing.sending THEN u
                 ELSE SendItems([u EXCEPT !.sending = FALSE], Substring(typing.area, t.start, e))
            [] t.do = "diff" ->
                 IF typing.composing \/ d = <<>> THEN u ELSE SendItems(u, d)
  BY <1>1, <1>3 DEF Timeout, k
<1> HIDE DEF u, e, d
<1>6. CASE t.do = "end"
  <2>1. r = [u EXCEPT !.end = Len(typing.area)] /\ Len(typing.area) \in Int
    BY <1>5, <1>6 DEF Textarea
  <2> QED BY <1>1, <1>4, <1>6, <2>1 DEF Textarea, TypingFields
<1>7. CASE t.do = "send" /\ ~typing.sending
  <2>1. r = u
    BY <1>5, <1>7
  <2> QED BY <1>1, <1>4, <1>7, <2>1
<1>8. CASE t.do = "send" /\ typing.sending
  <2>1. PICK q : q = Substring(typing.area, t.start, e)
    OBVIOUS
  <2>2. r = SendItems([u EXCEPT !.sending = FALSE], q)
    BY <1>5, <1>8, <2>1
  <2>3. t.start \in Int /\ e \in Int
    BY <1>2, <1>8, TimerKinds DEF Textarea, e
  <2>4. q \in Seq(Int)
    BY <2>1, <2>3, SubstringIsText DEF Textarea
  <2>5. typing.sent \o q \in Seq(Int)
    BY <2>4, ConcatProperties DEF Textarea
  <2>6. PICK v : v = [u EXCEPT !.sending = FALSE]
    OBVIOUS
  <2>7. /\ Textarea(v) /\ v.area = u.area /\ v.marked = u.marked
        /\ v.composing = u.composing /\ v.start = u.start /\ v.timers = u.timers
        /\ v.sending = FALSE /\ v.sent = u.sent
    BY <1>4, <2>6 DEF Textarea, TypingFields
  <2>8. r = [v EXCEPT !.sent = @ \o q, !.view = "send"] /\ v.sent \o q \in Seq(Int)
    BY <1>4, <2>2, <2>5, <2>6, <2>7 DEF SendItems
  <2>9. /\ Textarea(r) /\ r.area = v.area /\ r.marked = v.marked
        /\ r.composing = v.composing /\ r.start = v.start /\ r.timers = v.timers
        /\ r.sending = FALSE /\ r.sent = v.sent \o q
    BY <2>7, <2>8 DEF Textarea, TypingFields
  <2> QED BY <1>1, <1>4, <1>8, <2>1, <2>7, <2>9 DEF e
<1>9. CASE t.do = "diff"
  <2>1. t.old \in Seq(Int)
    BY <1>2, <1>9, TimerKinds
  <2>2. d \in Seq(Int)
    BY <2>1, DifferenceIsText DEF d, Textarea
  <2>3. typing.sent \o d \in Seq(Int)
    BY <2>2, ConcatProperties DEF Textarea
  <2>4. r = IF typing.composing \/ d = <<>> THEN u ELSE SendItems(u, d)
    BY <1>5, <1>9
  <2>5. CASE typing.composing \/ d = <<>>
    BY <1>1, <1>4, <1>9, <2>4, <2>5 DEF d
  <2>6. CASE ~(typing.composing \/ d = <<>>)
    <3>1. /\ Textarea(r) /\ r.area = u.area /\ r.marked = u.marked
          /\ r.composing = u.composing /\ r.start = u.start /\ r.timers = u.timers
          /\ r.sending = u.sending /\ r.sent = u.sent \o d
      BY <1>4, <2>3, <2>4, <2>6 DEF SendItems, Textarea, TypingFields
    <3> QED BY <1>1, <1>4, <1>9, <2>6, <3>1 DEF d
  <2> QED BY <2>5, <2>6
<1> QED BY <1>2, <1>6, <1>7, <1>8, <1>9

\* Without a timeout that sends nothing, the first and the last to be sent are the
\* same.
LEMMA EarlierSends ==
  ASSUME NEW ts \in Seq(Timers), ts # <<>>, Head(ts).do # "send"
  PROVE  /\ \A i : FirstSend(Tail(ts), i) => FirstSend(ts, i + 1)
         /\ \A i \in SendsIn(Tail(ts)) : FirstSend(ts, i + 1) => FirstSend(Tail(ts), i)
         /\ \A i : LastSend(Tail(ts), i) => LastSend(ts, i + 1)
         /\ SendsIn(ts) # {} => SendsIn(Tail(ts)) # {}
<1>1. /\ 1 \notin SendsIn(ts)
      /\ \A i \in SendsIn(Tail(ts)) : i \in Nat /\ i > 0 /\ i + 1 \in SendsIn(ts)
      /\ \A i \in SendsIn(ts) : i \in Nat /\ i > 0 /\ i - 1 \in SendsIn(Tail(ts))
  BY TimerCame
<1>2. ASSUME NEW i, FirstSend(Tail(ts), i) PROVE FirstSend(ts, i + 1)
  <2>1. i \in Nat /\ i + 1 \in SendsIn(ts)
    BY <1>1, <1>2 DEF FirstSend
  <2>2. ASSUME NEW j \in SendsIn(ts) PROVE i + 1 <= j
    <3>1. j \in Nat /\ j - 1 \in SendsIn(Tail(ts))
      BY <1>1
    <3>2. i <= j - 1
      BY <1>2, <3>1 DEF FirstSend
    <3> QED BY <2>1, <3>1, <3>2
  <2> QED BY <2>1, <2>2 DEF FirstSend
<1>3. ASSUME NEW i \in SendsIn(Tail(ts)), FirstSend(ts, i + 1) PROVE FirstSend(Tail(ts), i)
  <2>1. ASSUME NEW j \in SendsIn(Tail(ts)) PROVE i <= j
    <3>1. i \in Nat /\ j \in Nat /\ j + 1 \in SendsIn(ts)
      BY <1>1
    <3>2. i + 1 <= j + 1
      BY <1>3, <3>1 DEF FirstSend
    <3> QED BY <3>1, <3>2
  <2> QED BY <2>1 DEF FirstSend
<1>4. ASSUME NEW i, LastSend(Tail(ts), i) PROVE LastSend(ts, i + 1)
  <2>1. i \in Nat /\ i + 1 \in SendsIn(ts)
    BY <1>1, <1>4 DEF LastSend
  <2>2. ASSUME NEW j \in SendsIn(ts) PROVE j <= i + 1
    <3>1. j \in Nat /\ j - 1 \in SendsIn(Tail(ts))
      BY <1>1
    <3>2. j - 1 <= i
      BY <1>4, <3>1 DEF LastSend
    <3> QED BY <2>1, <3>1, <3>2
  <2> QED BY <2>1, <2>2 DEF LastSend
<1> QED BY <1>1, <1>2, <1>3, <1>4

\* r is the textarea k after a timeout that sends nothing.
Waited(r, k) ==
  /\ k.timers \in Seq(Timers) /\ k.timers # <<>> /\ r.timers = Tail(k.timers)
  /\ r.area = k.area /\ r.sent = k.sent /\ r.start = k.start
  /\ r.composing = k.composing /\ r.sending = k.sending /\ r.marked = k.marked

\* What waits then waited before it, one place later.
LEMMA WaitedFor ==
  ASSUME NEW r, NEW k, Waited(r, k)
  PROVE  /\ \A i \in DiffsIn(r.timers) :
              i + 1 \in DiffsIn(k.timers) /\ r.timers[i] = k.timers[i + 1]
         /\ \A i \in SendsIn(r.timers) : /\ i \in Nat /\ i + 1 \in SendsIn(k.timers)
                                       /\ r.timers[i] = k.timers[i + 1]
         /\ \A i \in DiffsIn(k.timers) : i # 1 => i - 1 \in DiffsIn(r.timers)
<1>1. PICK ts \in Seq(Timers) : ts = k.timers
  BY DEF Waited
<1>2. ts # <<>> /\ r.timers = Tail(ts)
  BY <1>1 DEF Waited
<1>3. /\ \A i \in SendsIn(Tail(ts)) : i \in Nat /\ i + 1 \in SendsIn(ts) /\ Tail(ts)[i] = ts[i + 1]
      /\ \A i \in DiffsIn(Tail(ts)) : i + 1 \in DiffsIn(ts) /\ Tail(ts)[i] = ts[i + 1]
      /\ \A i \in DiffsIn(ts) : i # 1 => i - 1 \in DiffsIn(Tail(ts))
  BY <1>1, <1>2, TimerCame
<1> QED BY <1>1, <1>2, <1>3

\* Nothing was to be sent, and no text was read.
LEMMA NeitherWaits ==
  ASSUME NEW r, NEW k, NEW m, Waited(r, k), Neither(k, m), Head(k.timers).do # "diff"
  PROVE  Neither(r, m)
<1>1. /\ \A i \in DiffsIn(r.timers) : i + 1 \in DiffsIn(k.timers) /\ r.timers[i] = k.timers[i + 1]
      /\ \A i \in DiffsIn(k.timers) : i - 1 \in DiffsIn(r.timers)
  <2>1. 1 \notin DiffsIn(k.timers)
    BY TimerCame DEF Waited
  <2> QED BY <2>1, WaitedFor
<1>2. ~r.composing /\ ~r.sending /\ r.sent = k.sent /\ r.area = k.area
  BY DEF Waited, Neither
<1>3. DiffsIn(r.timers) = {} => m = r.sent
  BY <1>1, <1>2 DEF Neither
<1>4. ASSUME NEW i \in DiffsIn(r.timers) PROVE m = r.sent \o Difference(r.area, r.timers[i].old)
  BY <1>1, <1>2 DEF Neither
<1> QED BY <1>2, <1>3, <1>4 DEF Neither

\* Nothing of a composition is sent while it goes on.
LEMMA ComposingWaits ==
  ASSUME NEW r, NEW k, NEW b, NEW m, Waited(r, k), Composing(k, b, m),
         Head(k.timers).do # "send" \/ ~k.sending
  PROVE  Composing(r, b, m)
<1>1. /\ \A i \in DiffsIn(r.timers) : i + 1 \in DiffsIn(k.timers) /\ r.timers[i] = k.timers[i + 1]
      /\ \A i \in SendsIn(r.timers) : i + 1 \in SendsIn(k.timers) /\ r.timers[i] = k.timers[i + 1]
  BY WaitedFor
<1>2. /\ r.composing /\ ~r.marked /\ r.start = Len(b) /\ r.sent = k.sent
      /\ r.sending = k.sending
  BY DEF Waited, Composing
<1>3. ASSUME k.sending
      PROVE  /\ SendsIn(r.timers) # {}
             /\ \A i \in SendsIn(r.timers) : FirstSend(r.timers, i) <=> FirstSend(k.timers, i + 1)
  <2>1. SendsIn(k.timers) # {}
    BY <1>3 DEF Composing
  <2> QED BY <1>3, <2>1, EarlierSends DEF Waited
<1>4. IF r.sending THEN SendsIn(r.timers) # {} /\ DiffsIn(r.timers) = {} ELSE m = r.sent
  BY <1>1, <1>2, <1>3 DEF Composing
<1>5. ASSUME NEW i \in DiffsIn(r.timers) PROVE r.timers[i].old = b
  BY <1>1 DEF Composing
<1>6. ASSUME NEW i \in SendsIn(r.timers)
      PROVE  /\ r.timers[i].end = Len(b)
             /\ IF FirstSend(r.timers, i) /\ r.sending
                  THEN SentFrom(m, r.sent, b, r.timers[i].start)
                  ELSE r.timers[i].start = Len(b)
  <2>1. /\ i + 1 \in SendsIn(k.timers) /\ r.timers[i] = k.timers[i + 1]
        /\ k.sending => (FirstSend(r.timers, i) <=> FirstSend(k.timers, i + 1))
    BY <1>1, <1>3
  <2> QED BY <1>2, <2>1 DEF Composing
<1> QED BY <1>2, <1>4, <1>5, <1>6 DEF Composing

\* What has ended is still to be sent.
LEMMA EndedWaits ==
  ASSUME NEW r, NEW k, NEW m, Waited(r, k), Ended(k, m), Head(k.timers).do # "send"
  PROVE  Ended(r, m)
<1>1. /\ \A i \in DiffsIn(r.timers) : i + 1 \in DiffsIn(k.timers) /\ r.timers[i] = k.timers[i + 1]
      /\ \A i \in SendsIn(r.timers) : /\ i \in Nat /\ i + 1 \in SendsIn(k.timers)
                                    /\ r.timers[i] = k.timers[i + 1]
  BY WaitedFor
<1>2. /\ \A i : FirstSend(r.timers, i) => FirstSend(k.timers, i + 1)
      /\ \A i : LastSend(r.timers, i) => LastSend(k.timers, i + 1)
      /\ SendsIn(k.timers) # {} => SendsIn(r.timers) # {}
  BY EarlierSends DEF Waited
<1>3. /\ ~r.composing /\ r.sending /\ ~r.marked /\ SendsIn(r.timers) # {}
      /\ r.start = k.start /\ r.sent = k.sent /\ r.area = k.area
  BY <1>2 DEF Waited, Ended
<1>4. ASSUME NEW i \in SendsIn(r.timers), FirstSend(r.timers, i)
      PROVE  /\ SentFrom(m, r.sent, r.area, r.timers[i].start)
             /\ DiffsIn(r.timers) # {} => r.timers[i].start = Len(r.area)
  <2>1. i + 1 \in SendsIn(k.timers) /\ FirstSend(k.timers, i + 1) /\ r.timers[i] = k.timers[i + 1]
    BY <1>1, <1>2, <1>4
  <2>2. DiffsIn(r.timers) # {} => DiffsIn(k.timers) # {}
    BY <1>1
  <2> QED BY <1>3, <2>1, <2>2 DEF Ended
<1>5. ASSUME NEW i \in SendsIn(r.timers), NEW j \in SendsIn(r.timers), i < j
      PROVE  r.timers[j].start = r.timers[i].end
  <2>1. /\ i + 1 \in SendsIn(k.timers) /\ r.timers[i] = k.timers[i + 1]
        /\ j + 1 \in SendsIn(k.timers) /\ r.timers[j] = k.timers[j + 1] /\ i + 1 < j + 1
    BY <1>1, <1>5
  <2> QED BY <2>1 DEF Ended
<1>6. ASSUME NEW i \in SendsIn(r.timers), LastSend(r.timers, i) PROVE r.timers[i].start = r.start
  BY <1>1, <1>2, <1>3, <1>6 DEF Ended
<1>7. ASSUME NEW i \in DiffsIn(r.timers) PROVE r.timers[i].old = r.area
  BY <1>1, <1>3 DEF Ended
<1> QED BY <1>3, <1>4, <1>5, <1>6, <1>7 DEF Ended

\* What is read from the start of the oldest composition is all that was missing.
LEMMA NowSent ==
  ASSUME NEW m \in Seq(Int), NEW sent \in Seq(Int), NEW b \in Seq(Int), NEW u \in Seq(Int),
         NEW a, SentFrom(m, sent, b, a)
  PROVE  /\ m = sent \o Substring(b \o u, a, Len(b))
         /\ m = sent \o Substring(b, a, Len(b))
<1>1. a \in 0 .. Len(b) /\ m = sent \o From(b, a)
  BY DEF SentFrom
<1> QED BY <1>1, SubstringIs, SubstringToEnd

\* A timeout comes, however late.
LEMMA TimeoutComesHolds ==
  ASSUME TypingTyped, TypingInv, TimeoutComes
  PROVE  TypingTyped' /\ TypingInv'
<1>1. /\ ime' = ime /\ meant' = meant /\ spoilt' = spoilt /\ acted' = acted
      /\ typing.timers # <<>> /\ typing' = Timeout(Same(typing))
  BY DEF TimeoutComes
<1>2. /\ Textarea(typing) /\ meant \in Seq(Int) /\ typing.sent \in Seq(Int)
      /\ typing.area \in Seq(Int) /\ typing.timers \in Seq(Timers)
      /\ ime.base \in Seq(Int) /\ ime.text \in Seq(Int) /\ typing.composing = ime.on
      /\ typing.sending \in BOOLEAN
  BY DEF TypingTyped, Textarea
<1>3. PICK t : t = Head(typing.timers)
  OBVIOUS
<1>4. /\ t.do \in {"end", "send", "diff"} /\ t = typing.timers[1] /\ t \in Timers
      /\ 1 \in SendsIn(typing.timers) <=> t.do = "send"
      /\ 1 \in DiffsIn(typing.timers) <=> t.do = "diff"
  BY <1>2, <1>3, <1>1, TimerCame, TimerKinds
<1>5. /\ Textarea(typing') /\ typing'.area = typing.area /\ typing'.marked = typing.marked
      /\ typing'.composing = typing.composing /\ typing'.start = typing.start
      /\ typing'.timers = Tail(typing.timers)
  BY <1>1, <1>2, TimeoutIs
<1>6. t.do = "end" \/ (t.do = "send" /\ ~typing.sending) => Waited(typing', typing)
  <2>1. t.do = "end" \/ (t.do = "send" /\ ~typing.sending) =>
          typing'.sent = typing.sent /\ typing'.sending = typing.sending
    BY <1>1, <1>2, <1>3, TimeoutIs
  <2> QED BY <1>1, <1>2, <1>5, <2>1 DEF Waited
<1>7. t.do = "send" /\ typing.sending =>
        /\ typing'.sending = FALSE
        /\ typing'.sent = typing.sent \o Substring(typing.area, t.start,
                                IF typing.composing THEN t.end ELSE Len(typing.area))
  BY <1>1, <1>2, <1>3, TimeoutIs
<1>8. t.do = "diff" =>
        /\ typing'.sending = typing.sending
        /\ typing.composing \/ Difference(typing.area, t.old) = <<>> => typing'.sent = typing.sent
        /\ ~typing.composing => \/ typing'.sent = typing.sent \o Difference(typing.area, t.old)
                                \/ Difference(typing.area, t.old) = <<>>
  BY <1>1, <1>2, <1>3, TimeoutIs
<1>9. TypingTyped'
  BY <1>1, <1>5 DEF TypingTyped
<1>10. /\ \A i \in DiffsIn(typing'.timers) :
            /\ i \in Nat /\ i > 0 /\ i + 1 \in DiffsIn(typing.timers)
            /\ typing'.timers[i] = typing.timers[i + 1]
       /\ \A i \in SendsIn(typing'.timers) :
            /\ i \in Nat /\ i > 0 /\ i + 1 \in SendsIn(typing.timers)
            /\ typing'.timers[i] = typing.timers[i + 1]
       /\ \A i \in SendsIn(typing.timers) : i \in Nat /\ i > 0
  <2>1. PICK ts \in Seq(Timers) : ts = typing.timers
    BY <1>2
  <2>2. ts # <<>> /\ typing'.timers = Tail(ts)
    BY <1>1, <1>5, <2>1
  <2>3. /\ \A i \in DiffsIn(Tail(ts)) :
             i \in Nat /\ i > 0 /\ i + 1 \in DiffsIn(ts) /\ Tail(ts)[i] = ts[i + 1]
        /\ \A i \in SendsIn(Tail(ts)) :
             i \in Nat /\ i > 0 /\ i + 1 \in SendsIn(ts) /\ Tail(ts)[i] = ts[i + 1]
        /\ \A i \in SendsIn(ts) : i \in Nat /\ i > 0
    BY <2>1, <2>2, TimerCame
  <2> QED BY <2>1, <2>2, <2>3
<1>11. ASSUME spoilt' = {} PROVE TypingHolds(typing', ime', meant')
  <2>1. /\ \A i, j \in DiffsIn(typing.timers) : i = j
        /\ ime.on => Composing(typing, ime.base, meant) /\ typing.area = ime.base \o ime.text
        /\ ~ime.on => Neither(typing, meant) \/ Ended(typing, meant)
    BY <1>1, <1>11 DEF TypingInv, TypingHolds
  <2>2. \A i, j \in DiffsIn(typing'.timers) : i = j
    <3> SUFFICES ASSUME NEW i \in DiffsIn(typing'.timers), NEW j \in DiffsIn(typing'.timers)
                 PROVE  i = j
      OBVIOUS
    <3>1. i \in Nat /\ j \in Nat /\ i + 1 = j + 1
      BY <1>10, <2>1
    <3> QED BY <3>1
  <2>3. CASE ime.on
    <3>1. CASE t.do = "end" \/ (t.do = "send" /\ ~typing.sending)
      <4>1. Composing(typing', ime.base, meant)
        BY <1>3, <1>6, <2>1, <2>3, <3>1, ComposingWaits
      <4> QED BY <1>1, <1>5, <2>1, <2>2, <2>3, <4>1 DEF TypingHolds
    <3>2. CASE t.do = "diff"
      <4>1. typing'.sent = typing.sent /\ typing'.sending = typing.sending
        BY <1>2, <1>8, <2>3, <3>2
      <4>2. Waited(typing', typing)
        BY <1>1, <1>2, <1>5, <4>1 DEF Waited
      <4>3. Composing(typing', ime.base, meant)
        BY <1>3, <2>1, <2>3, <3>2, <4>2, ComposingWaits
      <4> QED BY <1>1, <1>5, <2>1, <2>2, <2>3, <4>3 DEF TypingHolds
    <3>3. CASE t.do = "send" /\ typing.sending
      <4>1. FirstSend(typing.timers, 1)
        BY <1>4, <1>10, <3>3 DEF FirstSend
      <4>2. t.end = Len(ime.base) /\ SentFrom(meant, typing.sent, ime.base, t.start)
        BY <1>4, <2>1, <2>3, <3>3, <4>1 DEF Composing
      <4>3. meant = typing.sent \o Substring(ime.base \o ime.text, t.start, Len(ime.base))
        <5>1. PICK a : a = t.start
          OBVIOUS
        <5>2. SentFrom(meant, typing.sent, ime.base, a)
          BY <4>2, <5>1
        <5>3. PICK b, u, x : b = ime.base /\ u = ime.text /\ x = typing.sent
          OBVIOUS
        <5>4. /\ b \in Seq(Int) /\ u \in Seq(Int) /\ x \in Seq(Int) /\ meant \in Seq(Int)
              /\ SentFrom(meant, x, b, a)
          BY <1>2, <5>2, <5>3
        <5>5. meant = x \o Substring(b \o u, a, Len(b))
          BY <5>4, NowSent
        <5> QED BY <5>1, <5>3, <5>5
      <4>4. typing'.sent = typing.sent \o Substring(ime.base \o ime.text, t.start, Len(ime.base))
        BY <1>2, <1>7, <2>1, <2>3, <3>3, <4>2
      <4>5. meant = typing'.sent /\ ~typing'.sending
        BY <1>7, <3>3, <4>3, <4>4
      <4>6. ASSUME NEW i \in SendsIn(typing'.timers)
            PROVE  typing'.timers[i].end = Len(ime.base) /\ typing'.timers[i].start = Len(ime.base)
        <5>1. /\ i \in Nat /\ i > 0 /\ i + 1 \in SendsIn(typing.timers)
              /\ typing'.timers[i] = typing.timers[i + 1] /\ 1 \in SendsIn(typing.timers)
          BY <1>4, <1>10, <3>3
        <5>2. ~FirstSend(typing.timers, i + 1)
          BY <5>1 DEF FirstSend
        <5> QED BY <2>1, <2>3, <5>1, <5>2 DEF Composing
      <4>7. DiffsIn(typing'.timers) = {}
        BY <1>10, <2>1, <2>3, <3>3 DEF Composing
      <4>8. typing'.composing /\ ~typing'.marked /\ typing'.start = Len(ime.base)
        BY <1>5, <2>1, <2>3 DEF Composing
      <4>9. Composing(typing', ime.base, meant)
        BY <4>5, <4>6, <4>7, <4>8 DEF Composing
      <4> QED BY <1>1, <1>5, <2>1, <2>2, <2>3, <4>9 DEF TypingHolds
    <3> QED BY <1>4, <3>1, <3>2, <3>3
  <2>4. CASE ~ime.on /\ Neither(typing, meant)
    <3>1. CASE t.do \in {"end", "send"}
      <4>1. Waited(typing', typing)
        BY <1>6, <2>4, <3>1 DEF Neither
      <4>2. Neither(typing', meant)
        BY <1>3, <2>4, <3>1, <4>1, NeitherWaits
      <4> QED BY <1>1, <2>2, <2>4, <4>2 DEF TypingHolds
    <3>2. CASE t.do = "diff"
      <4>1. PICK d : d = Difference(typing.area, t.old)
        OBVIOUS
      <4>2. 1 \in DiffsIn(typing.timers) /\ meant = typing.sent \o d
        BY <1>4, <2>4, <3>2, <4>1 DEF Neither
      <4>3. meant = typing'.sent
        <5>1. CASE d = <<>>
          BY <1>2, <1>8, <3>2, <4>1, <4>2, <5>1, ConcatEmptySeq
        <5>2. CASE d # <<>>
          BY <1>2, <1>8, <2>4, <3>2, <4>1, <4>2, <5>2
        <5> QED BY <5>1, <5>2
      <4>4. DiffsIn(typing'.timers) = {}
        <5>1. ASSUME NEW i \in DiffsIn(typing'.timers) PROVE FALSE
          <6>1. i \in Nat /\ i > 0 /\ i + 1 = 1
            BY <1>10, <2>1, <4>2
          <6> QED BY <6>1
        <5> QED BY <5>1
      <4>5. ~typing'.composing /\ ~typing'.sending
        BY <1>5, <1>8, <2>4, <3>2 DEF Neither
      <4> QED BY <1>1, <2>4, <4>3, <4>4, <4>5, IdleHolds
    <3> QED BY <1>4, <3>1, <3>2
  <2>5. CASE ~ime.on /\ Ended(typing, meant)
    <3>1. CASE t.do = "end"
      <4>1. Ended(typing', meant)
        BY <1>3, <1>6, <2>5, <3>1, EndedWaits
      <4> QED BY <1>1, <2>2, <2>5, <4>1 DEF TypingHolds
    <3>2. CASE t.do = "diff"
      <4>1. t.old = typing.area
        BY <1>4, <2>5, <3>2 DEF Ended
      <4>2. typing'.sent = typing.sent /\ typing'.sending = typing.sending
        BY <1>2, <1>8, <3>2, <4>1, DifferenceIsNone
      <4>3. Waited(typing', typing)
        BY <1>1, <1>2, <1>5, <4>2 DEF Waited
      <4>4. Ended(typing', meant)
        BY <1>3, <2>5, <3>2, <4>3, EndedWaits
      <4> QED BY <1>1, <2>2, <2>5, <4>4 DEF TypingHolds
    <3>3. CASE t.do = "send"
      <4>1. FirstSend(typing.timers, 1) /\ 1 \in SendsIn(typing.timers)
        BY <1>4, <1>10, <3>3 DEF FirstSend
      <4>2. /\ SentFrom(meant, typing.sent, typing.area, t.start) /\ typing.sending
            /\ ~typing.composing
            /\ \A i \in DiffsIn(typing.timers) : typing.timers[i].old = typing.area
        BY <1>4, <2>5, <4>1 DEF Ended
      <4>3. meant = typing.sent \o Substring(typing.area, t.start, Len(typing.area))
        BY <1>2, <4>2, NowSent
      <4>4. meant = typing'.sent /\ ~typing'.sending /\ ~typing'.composing
        BY <1>5, <1>7, <3>3, <4>2, <4>3
      <4>5. ASSUME NEW i \in DiffsIn(typing'.timers)
            PROVE  meant = typing'.sent \o Difference(typing'.area, typing'.timers[i].old)
        <5>1. typing'.timers[i].old = typing'.area
          BY <1>5, <1>10, <4>2
        <5>2. Difference(typing'.area, typing'.timers[i].old) = <<>>
          BY <1>2, <1>5, <5>1, DifferenceIsNone
        <5> QED BY <1>2, <4>4, <5>2, ConcatEmptySeq
      <4>6. Neither(typing', meant)
        BY <4>4, <4>5 DEF Neither
      <4> QED BY <1>1, <2>2, <2>5, <4>6 DEF TypingHolds
    <3> QED BY <1>4, <3>1, <3>2, <3>3
  <2> QED BY <2>1, <2>3, <2>4, <2>5
<1> QED BY <1>9, <1>11 DEF TypingInv

-----------------------------------------------------------------------------
(* The invariant.                                                          *)

\* Nothing has been typed.
LEMMA TypingStarts ==
  ASSUME NEW times \in Nat, TypingInit(times)
  PROVE  TypingTyped /\ TypingInv
<1>1. PICK none : none = <<>>
  OBVIOUS
<1>2. none \in Seq(Int) /\ none \in Seq(Timers) /\ Len(none) = 0
  BY <1>1
<1>3. /\ typing = [area |-> none, marked |-> FALSE, composing |-> FALSE, sending |-> FALSE,
                   start |-> Never, end |-> Never, timers |-> none, sent |-> none, view |-> "same"]
      /\ ime = [on |-> FALSE, base |-> none, text |-> none]
      /\ meant = none /\ spoilt = {} /\ acted = [acts |-> times, n |-> 0]
  BY <1>1 DEF TypingInit
<1>4. Textarea(typing) /\ typing.area = none /\ typing.timers = none /\ typing.sent = none
  BY <1>2, <1>3 DEF Textarea, TypingFields, Never
<1>5. TypingTyped
  BY <1>2, <1>3, <1>4 DEF TypingTyped, Known
<1>6. DiffsIn(typing.timers) = {}
  BY <1>2, <1>4 DEF DiffsIn
<1>7. TypingHolds(typing, ime, meant)
  BY <1>3, <1>4, <1>6, IdleHolds
<1> QED BY <1>5, <1>7 DEF TypingInv

\* One step per action.
LEMMA TypingGoesOn ==
  ASSUME TypingTyped, TypingInv, [TypingNext]_typingVars
  PROVE  TypingTyped' /\ TypingInv'
<1>1. CASE PressAnyKey
  <2>1. PICK key \in UserKeys, s \in Shifts :
          PressKey([key |-> key, n |-> Now, shift |-> s.shift, alt |-> s.alt,
                    ctrl |-> s.ctrl, meta |-> s.meta])
    BY <1>1 DEF PressAnyKey
  <2>2. PICK e : e = [key |-> key, n |-> Now, shift |-> s.shift, alt |-> s.alt,
                      ctrl |-> s.ctrl, meta |-> s.meta]
    OBVIOUS
  <2>3. e.n = Now /\ PressKey(e)
    BY <2>1, <2>2
  <2> QED BY <2>3, PressKeyHolds
<1>2. CASE Paste
  BY <1>2, PasteHolds
<1>3. CASE Blur
  BY <1>3, BlurHolds
<1>4. CASE ImeOpens
  BY <1>4, ImeOpensHolds
<1>5. CASE ImeChanges
  BY <1>5, ImeChangesHolds
<1>6. CASE ImeCommits
  BY <1>6, ImeCommitsHolds
<1>7. CASE ImeCancels
  BY <1>7, ImeCancelsHolds
<1>8. CASE ImeTypes
  BY <1>8, ImeTypesHolds
<1>9. CASE ImeDeletes
  BY <1>9, ImeDeletesHolds
<1>10. CASE TimeoutComes
  BY <1>10, TimeoutComesHolds
<1>11. CASE MouseSelects
  BY <1>11, MarkSelectedHolds DEF MouseSelects
<1>12. CASE \E selected \in BOOLEAN : RightClick(selected)
  BY <1>12, MarkSelectedHolds DEF RightClick
<1>13. CASE UNCHANGED typingVars
  BY <1>13 DEF typingVars, TypingTyped, TypingInv
<1> QED BY <1>1, <1>2, <1>3, <1>4, <1>5, <1>6, <1>7, <1>8, <1>9, <1>10, <1>11, <1>12, <1>13
     DEF TypingNext, TypingStep

\* What comes first is a prefix.
LEMMA PartIsPrefix ==
  ASSUME NEW s \in Seq(Int), NEW q \in Seq(Int)
  PROVE  IsPrefix(s, s \o q)
BY ConcatProperties DEF IsPrefix

\* What the invariant says of what is sent and meant.
LEMMA TypedOnceFollows ==
  ASSUME TypingTyped, TypingInv
  PROVE  TypedOnce
<1>1. /\ meant \in Seq(Int) /\ typing.sent \in Seq(Int) /\ typing.area \in Seq(Int)
      /\ typing.timers \in Seq(Timers) /\ ime.base \in Seq(Int) /\ Textarea(typing)
  BY DEF TypingTyped, Textarea
<1>2. ASSUME spoilt = {}
      PROVE  /\ IsPrefix(typing.sent, meant)
             /\ (typing.timers = <<>> /\ ~ime.on) => typing.sent = meant
  <2>1. TypingHolds(typing, ime, meant)
    BY <1>2 DEF TypingInv
  <2>2. ASSUME SendsIn(typing.timers) # {} PROVE \E i : FirstSend(typing.timers, i)
    <3>1. SendsIn(typing.timers) \in SUBSET Nat
      BY DEF SendsIn
    <3>2. PICK i \in SendsIn(typing.timers) : \A j \in SendsIn(typing.timers) : i <= j
      BY <2>2, <3>1, Numbers!LeastNumber
    <3> QED BY <3>2 DEF FirstSend
  <2>3. ASSUME NEW b \in Seq(Int), NEW a, SentFrom(meant, typing.sent, b, a)
        PROVE  IsPrefix(typing.sent, meant)
    <3>1. a \in 0 .. Len(b) /\ meant = typing.sent \o From(b, a)
      BY <2>3 DEF SentFrom
    <3>2. From(b, a) \in Seq(Int)
      BY <3>1, FromIsText
    <3> QED BY <1>1, <3>1, <3>2, PartIsPrefix
  <2>4. ASSUME meant = typing.sent PROVE IsPrefix(typing.sent, meant)
    <3>1. typing.sent = typing.sent \o <<>> /\ <<>> \in Seq(Int)
      BY <1>1, ConcatEmptySeq
    <3> QED BY <1>1, <2>4, <3>1, PartIsPrefix
  <2>5. CASE ime.on
    <3>1. Composing(typing, ime.base, meant)
      BY <2>1, <2>5 DEF TypingHolds
    <3>2. CASE typing.sending
      <4>1. PICK i : FirstSend(typing.timers, i)
        BY <2>2, <3>1, <3>2 DEF Composing
      <4>2. i \in SendsIn(typing.timers)
        BY <4>1 DEF FirstSend
      <4>3. SentFrom(meant, typing.sent, ime.base, typing.timers[i].start)
        BY <3>1, <3>2, <4>1, <4>2 DEF Composing
      <4> QED BY <1>1, <2>3, <2>5, <4>3
    <3>3. CASE ~typing.sending
      BY <2>4, <2>5, <3>1, <3>3 DEF Composing
    <3> QED BY <3>2, <3>3
  <2>6. CASE ~ime.on /\ Neither(typing, meant)
    <3>1. CASE DiffsIn(typing.timers) = {}
      BY <2>4, <2>6, <3>1 DEF Neither
    <3>2. CASE DiffsIn(typing.timers) # {}
      <4>1. PICK i \in DiffsIn(typing.timers) : TRUE
        BY <3>2
      <4>2. PICK d : d = Difference(typing.area, typing.timers[i].old)
        OBVIOUS
      <4>3. meant = typing.sent \o d
        BY <2>6, <4>1, <4>2 DEF Neither
      <4>4. typing.timers[i] \in Timers /\ typing.timers[i].do = "diff" /\ typing.timers # <<>>
        <5>1. i \in 1 .. Len(typing.timers) /\ typing.timers[i].do = "diff"
          BY <4>1 DEF DiffsIn
        <5> QED BY <1>1, <5>1
      <4>5. d \in Seq(Int)
        BY <1>1, <4>2, <4>4, TimerKinds, DifferenceIsText
      <4> QED BY <1>1, <4>3, <4>4, <4>5, PartIsPrefix
    <3> QED BY <3>1, <3>2
  <2>7. CASE ~ime.on /\ Ended(typing, meant)
    <3>1. PICK i : FirstSend(typing.timers, i)
      BY <2>2, <2>7 DEF Ended
    <3>2. i \in SendsIn(typing.timers)
      BY <3>1 DEF FirstSend
    <3>3. SentFrom(meant, typing.sent, typing.area, typing.timers[i].start)
      BY <2>7, <3>1, <3>2 DEF Ended
    <3>4. typing.timers # <<>>
      BY <3>2 DEF SendsIn
    <3> QED BY <1>1, <2>3, <3>3, <3>4
  <2> QED
    <3>1. ~ime.on => Neither(typing, meant) \/ Ended(typing, meant)
      BY <2>1 DEF TypingHolds
    <3>2. typing.timers = <<>> => DiffsIn(typing.timers) = {} /\ SendsIn(typing.timers) = {}
      BY DEF DiffsIn, SendsIn
    <3>3. (typing.timers = <<>> /\ ~ime.on) => typing.sent = meant
      BY <3>1, <3>2 DEF Neither, Ended
    <3> QED BY <2>5, <2>6, <2>7, <3>1, <3>3
<1> QED BY <1>2 DEF TypedOnce

\* What the user types, composes and pastes is sent once and in order, and all of it
\* once no timeout is left - unless one of the exceptions of TypedOnce has happened -
\* on every system, with any keys, however late the timeouts come.
THEOREM TypedOnceHolds == TypingSpec => []TypedOnce
<1>1. TypingBegin => TypingTyped /\ TypingInv
  BY TypingStarts DEF TypingBegin
<1>2. TypingTyped /\ TypingInv /\ [TypingNext]_typingVars => TypingTyped' /\ TypingInv'
  BY TypingGoesOn
<1>3. TypingTyped /\ TypingInv => TypedOnce
  BY TypedOnceFollows
<1> QED BY <1>1, <1>2, <1>3, PTL DEF TypingSpec

-----------------------------------------------------------------------------
(* The console proxy.                                                      *)

\* What is on its way on one side of the proxy continues what has arrived.
Continues(arrived, inHand, message, waiting, sent) ==
  /\ inHand => message = Len(arrived) + 1
  /\ sent = Len(arrived) + (IF inHand THEN 1 ELSE 0) + Len(waiting)
  /\ \A i \in 1 .. Len(waiting) : waiting[i] = Len(arrived) + (IF inHand THEN 1 ELSE 0) + i

MessageCounts == /\ typed \in [Sessions -> Nat] /\ printed \in [Sessions -> Nat]
          /\ sending \in [Sessions -> Nat] /\ writing \in [Sessions -> Nat]
MessageQueues == /\ inbox \in [Sessions -> Seq(Nat)] /\ outbox \in [Sessions -> Seq(Nat)]
          /\ input \in [Sessions -> Seq(Nat)] /\ screen \in [Sessions -> Seq(Nat)]
LoopPlaces == handler \in [Sessions -> HandlerPcs] /\ pump \in [Sessions -> PumpPcs]

PumpWaits(s) == handler[s] \in {"upgrade", "open"} => pump[s] = "off"
InputGoesOn(s) == handler[s] # "returned" =>
  Continues(input[s], handler[s] = "send", sending[s], inbox[s], typed[s])
ScreenGoesOn(s) == pump[s] # "ended" =>
  Continues(screen[s], pump[s] = "write", writing[s], outbox[s], printed[s])

ProxyInv == /\ MessageCounts /\ MessageQueues /\ LoopPlaces /\ InOrder
            /\ \A s \in Sessions : PumpWaits(s) /\ InputGoesOn(s) /\ ScreenGoesOn(s)

\* Nothing has been typed or printed yet.
LEMMA ProxyStarts == Init => ProxyInv
  BY DEF Init, ProxyInv, MessageCounts, MessageQueues, LoopPlaces, InOrder, FirstOnes,
         PumpWaits, InputGoesOn, ScreenGoesOn, Continues, HandlerPcs, PumpPcs

\* The next number after the first ones.
LEMMA FirstOnesGrow ==
  ASSUME NEW q \in Seq(Nat), FirstOnes(q)
  PROVE  Append(q, Len(q) + 1) \in Seq(Nat) /\ FirstOnes(Append(q, Len(q) + 1))
  BY DEF FirstOnes

\* The next message is taken in hand.
LEMMA TakenInHand ==
  ASSUME NEW a \in Seq(Nat), NEW w \in Seq(Nat), NEW h, NEW n \in Nat, w # <<>>,
         Continues(a, FALSE, h, w, n)
  PROVE  Continues(a, TRUE, Head(w), Tail(w), n) /\ Head(w) \in Nat /\ Tail(w) \in Seq(Nat)
  BY DEF Continues

\* The message in hand arrives.
LEMMA HandArrives ==
  ASSUME NEW a \in Seq(Nat), NEW w \in Seq(Nat), NEW h \in Nat, NEW g, NEW n \in Nat,
         Continues(a, TRUE, h, w, n), FirstOnes(a)
  PROVE  /\ Continues(Append(a, h), FALSE, g, w, n)
         /\ FirstOnes(Append(a, h)) /\ Append(a, h) \in Seq(Nat)
  BY FirstOnesGrow DEF Continues

\* Another message comes.
LEMMA NumbersGoOn ==
  ASSUME NEW w \in Seq(Nat), NEW m \in Nat, \A i \in 1 .. Len(w) : w[i] = m + i,
         NEW n, n = m + Len(w), NEW i \in 1 .. Len(w) + 1
  PROVE  Append(w, n + 1)[i] = m + i
<1>1. Len(w) \in Nat /\ i \in Nat /\ (i \in 1 .. Len(w) \/ i = Len(w) + 1)
  OBVIOUS
<1>2. CASE i \in 1 .. Len(w)
  BY <1>2
<1>3. CASE i = Len(w) + 1
  BY <1>1, <1>3
<1> QED BY <1>1, <1>2, <1>3

\* Another message waits behind the others.
LEMMA AnotherComes ==
  ASSUME NEW a \in Seq(Nat), NEW w \in Seq(Nat), NEW h, NEW n \in Nat, NEW b \in BOOLEAN,
         Continues(a, b, h, w, n)
  PROVE  Continues(a, b, h, Append(w, n + 1), n + 1)
<1>1. PICK m \in Nat : m = Len(a) + (IF b THEN 1 ELSE 0)
  OBVIOUS
<1>2. n = m + Len(w) /\ \A i \in 1 .. Len(w) : w[i] = m + i
  BY <1>1 DEF Continues
<1>3. Len(w) \in Nat /\ Len(Append(w, n + 1)) = Len(w) + 1
  OBVIOUS
<1>4. \A i \in 1 .. Len(w) + 1 : Append(w, n + 1)[i] = m + i
  BY <1>2, NumbersGoOn
<1>5. n + 1 = m + Len(Append(w, n + 1))
  BY <1>2, <1>3
<1> QED BY <1>1, <1>3, <1>4, <1>5 DEF Continues

\* One step per kind of step of handler, pump, browser and guest.
LEMMA ProxyGoesOn == ProxyInv /\ [Next]_vars => ProxyInv'
<1> SUFFICES ASSUME ProxyInv, [Next]_vars PROVE ProxyInv'
  OBVIOUS
<1> USE DEF ProxyInv, MessageCounts, MessageQueues, LoopPlaces, InOrder, PumpWaits
<1> CASE UNCHANGED vars
  BY DEF vars, browserVars, vmVars, InputGoesOn, ScreenGoesOn
<1> SUFFICES ASSUME NEW s \in Sessions,
                    \/ HandlerStep(s) \/ PumpStep(s)
                    \/ Type(s) \/ CloseBrowser(s) \/ Output(s) \/ Break(s)
             PROVE  ProxyInv'
  BY DEF Next
<1>1. CASE Upgrade(s) \/ UpgradeFails(s) \/ Open(s) \/ OpenFails(s) \/ NextFails(s) \/ SendFails(s)
  <2>1. UNCHANGED <<browserVars, vmVars>>
    BY <1>1 DEF Upgrade, UpgradeFails, Open, OpenFails, NextFails, SendFails
  <2>2. \/ HandlerTo(s, "returned") /\ UNCHANGED pump
        \/ handler[s] = "upgrade" /\ HandlerTo(s, "open") /\ UNCHANGED pump
        \/ handler[s] = "open" /\ HandlerTo(s, "next") /\ PumpTo(s, "read")
    BY <1>1 DEF Upgrade, UpgradeFails, Open, OpenFails, NextFails, SendFails, Return
  <2>3. MessageCounts' /\ MessageQueues' /\ InOrder'
    BY <2>1 DEF browserVars, vmVars
  <2>4. LoopPlaces' /\ \A p \in Sessions : PumpWaits(p)'
    BY <2>2 DEF HandlerTo, PumpTo, HandlerPcs, PumpPcs
  <2>5. \A p \in Sessions : InputGoesOn(p)' /\ ScreenGoesOn(p)'
    BY <2>1, <2>2 DEF HandlerTo, PumpTo, browserVars, vmVars, InputGoesOn, ScreenGoesOn
  <2> QED BY <2>3, <2>4, <2>5
<1>2. CASE RecvFails(s) \/ DeliverFails(s) \/ CloseBrowser(s) \/ Break(s)
  BY <1>2 DEF RecvFails, DeliverFails, CloseBrowser, Break, PumpTo, browserVars, vmVars,
              PumpPcs, InputGoesOn, ScreenGoesOn
<1>3. CASE ReadMessage(s)
  <2>1. /\ Continues(input[s], TRUE, Head(inbox[s]), Tail(inbox[s]), typed[s])
        /\ Head(inbox[s]) \in Nat /\ Tail(inbox[s]) \in Seq(Nat)
    BY <1>3, TakenInHand DEF ReadMessage, InputGoesOn
  <2>2. MessageCounts' /\ MessageQueues' /\ InOrder'
    BY <1>3, <2>1 DEF ReadMessage, vmVars
  <2>3. LoopPlaces' /\ \A p \in Sessions : PumpWaits(p)'
    BY <1>3 DEF ReadMessage, HandlerTo, HandlerPcs
  <2>4. \A p \in Sessions : InputGoesOn(p)' /\ ScreenGoesOn(p)'
    BY <1>3, <2>1 DEF ReadMessage, HandlerTo, vmVars, InputGoesOn, ScreenGoesOn
  <2> QED BY <2>2, <2>3, <2>4
<1>4. CASE Send(s)
  <2>1. /\ Continues(Append(input[s], sending[s]), FALSE, 0, inbox[s], typed[s])
        /\ FirstOnes(Append(input[s], sending[s])) /\ Append(input[s], sending[s]) \in Seq(Nat)
    BY <1>4, HandArrives DEF Send, InputGoesOn
  <2>2. MessageCounts' /\ MessageQueues' /\ InOrder'
    BY <1>4, <2>1 DEF Send, vmVars
  <2>3. LoopPlaces' /\ \A p \in Sessions : PumpWaits(p)'
    BY <1>4 DEF Send, HandlerTo, HandlerPcs
  <2>4. \A p \in Sessions : InputGoesOn(p)' /\ ScreenGoesOn(p)'
    BY <1>4, <2>1 DEF Send, HandlerTo, vmVars, InputGoesOn, ScreenGoesOn
  <2> QED BY <2>2, <2>3, <2>4
<1>5. CASE Recv(s)
  <2>1. /\ Continues(screen[s], TRUE, Head(outbox[s]), Tail(outbox[s]), printed[s])
        /\ Head(outbox[s]) \in Nat /\ Tail(outbox[s]) \in Seq(Nat)
    BY <1>5, TakenInHand DEF Recv, ScreenGoesOn
  <2>2. MessageCounts' /\ MessageQueues' /\ InOrder'
    BY <1>5, <2>1 DEF Recv, browserVars
  <2>3. LoopPlaces' /\ \A p \in Sessions : PumpWaits(p)'
    BY <1>5 DEF Recv, PumpTo, PumpPcs
  <2>4. \A p \in Sessions : InputGoesOn(p)' /\ ScreenGoesOn(p)'
    BY <1>5, <2>1 DEF Recv, PumpTo, browserVars, InputGoesOn, ScreenGoesOn
  <2> QED BY <2>2, <2>3, <2>4
<1>6. CASE DeliverOutput(s)
  <2>1. /\ Continues(Append(screen[s], writing[s]), FALSE, 0, outbox[s], printed[s])
        /\ FirstOnes(Append(screen[s], writing[s])) /\ Append(screen[s], writing[s]) \in Seq(Nat)
    BY <1>6, HandArrives DEF DeliverOutput, ScreenGoesOn
  <2>2. MessageCounts' /\ MessageQueues' /\ InOrder'
    BY <1>6, <2>1 DEF DeliverOutput, browserVars
  <2>3. LoopPlaces' /\ \A p \in Sessions : PumpWaits(p)'
    BY <1>6 DEF DeliverOutput, PumpTo, PumpPcs
  <2>4. \A p \in Sessions : InputGoesOn(p)' /\ ScreenGoesOn(p)'
    BY <1>6, <2>1 DEF DeliverOutput, PumpTo, browserVars, InputGoesOn, ScreenGoesOn
  <2> QED BY <2>2, <2>3, <2>4
<1>7. CASE Type(s)
  <2>1. handler[s] # "returned" => Continues(input[s], handler[s] = "send", sending[s],
                                Append(inbox[s], typed[s] + 1), typed[s] + 1)
    BY AnotherComes DEF InputGoesOn
  <2>2. /\ MessageCounts' /\ LoopPlaces' /\ InOrder'
        /\ \A p \in Sessions : PumpWaits(p)'
    BY <1>7 DEF Type, vmVars
  <2>3. MessageQueues'
    BY <1>7 DEF Type, vmVars
  <2>4. \A p \in Sessions : InputGoesOn(p)' /\ ScreenGoesOn(p)'
    BY <1>7, <2>1 DEF Type, vmVars, InputGoesOn, ScreenGoesOn
  <2> QED BY <2>2, <2>3, <2>4
<1>8. CASE Output(s)
  <2>1. pump[s] # "ended" => Continues(screen[s], pump[s] = "write", writing[s],
                                Append(outbox[s], printed[s] + 1), printed[s] + 1)
    BY AnotherComes DEF ScreenGoesOn
  <2>2. /\ MessageCounts' /\ MessageQueues' /\ LoopPlaces' /\ InOrder'
        /\ \A p \in Sessions : PumpWaits(p)'
    BY <1>8 DEF Output, browserVars
  <2>3. \A p \in Sessions : InputGoesOn(p)' /\ ScreenGoesOn(p)'
    BY <1>8, <2>1 DEF Output, browserVars, InputGoesOn, ScreenGoesOn
  <2> QED BY <2>2, <2>3
<1> QED BY <1>1, <1>2, <1>3, <1>4, <1>5, <1>6, <1>7, <1>8 DEF HandlerStep, PumpStep

\* What the console writes reaches the browser, and what the browser sends reaches
\* the console, without a gap, in order and once, however the session ends and
\* whichever of handler and pump returns first.
THEOREM InOrderHolds == Spec => []InOrder
<1>1. ProxyInv => InOrder
  BY DEF ProxyInv
<1> QED BY <1>1, ProxyStarts, ProxyGoesOn, PTL DEF Spec
=============================================================================
