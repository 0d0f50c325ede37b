----------------------------- MODULE VncStream ------------------------------
(***************************************************************************)
(* The picture of the VNC page: from the frames of the socket to the       *)
(* canvas (core/websock.js, the update half of core/rfb.js, core/decoders  *)
(* and core/display.js), against a server that owes an update for every    *)
(* request.                                                                *)
(*                                                                         *)
(* The stream is a sequence of parts.  A part is what one rQwait asks for  *)
(* and one read takes: a message type, a header, a line of pixels.  A      *)
(* frame may end between any two of them; one that ends inside a part is   *)
(* the same to the reader as one that ends before it.  [p, v, at] is the   *)
(* kind of a part, what it says, and its place in the stream.              *)
(*                                                                         *)
(* The client is a record, and every callback an operator on it.  Nothing  *)
(* is followed after a failure: RfbSession has what happens then.          *)
(***************************************************************************)
EXTENDS Integers, Sequences, SequencesExt, FiniteSetsExt

CONSTANTS
  Plans,       \* sequences of messages: what the servers send
  BufferSize,  \* rQbufferSize at the start, in parts
  MaxGrow      \* MAX_RQ_GROW_SIZE, in parts

ASSUME BufferAssumption ==
  BufferSize \in Nat \ {0} /\ MaxGrow \in Nat /\ BufferSize <= MaxGrow

VARIABLES
  client,      \* the RFB object with its socket, decoders and display
  stream,      \* all the parts the server will send
  sent,        \* how many of them it has sent
  arrived,     \* how many the browser has been handed
  owed         \* is a request for an update unanswered?

vars == <<client, stream, sent, arrived, owed>>

-----------------------------------------------------------------------------
(* What a server sends.  A rectangle is <<encoding, what>>.                *)

P(kind, val) == [p |-> kind, v |-> val]

Rep(n, x) == [k \in 1 .. n |-> x]

TightParts(what) ==
  <<P("ctl", what)>>
  \o CASE what = "fill" -> <<P("colour", "")>>
       [] what \in {"jpeg", "torn", "png"} -> <<P("len", ""), P("data", what)>>
       [] what = "copy" -> <<P("len", ""), P("zlib", "whole")>>
       [] what = "cut" -> <<P("len", ""), P("zlib", "short")>>
       [] what = "dots" -> <<P("pixels", "")>>
       [] what = "palette" ->
            <<P("filter", "palette"), P("palette", 3), P("len", ""),
              P("zlib", "whole")>>
       [] what = "mono" ->
            <<P("filter", "palette"), P("palette", 2), P("pixels", "")>>
       [] what = "gradient" -> <<P("filter", "gradient")>>

RectParts(r) ==
  <<P("rect", r)>>
  \o CASE r[1] = "raw" -> Rep(r[2], P("line", ""))
       [] r[1] = "copyrect" -> <<P("src", "")>>
       [] r[1] = "rre" -> <<P("rre", r[2])>> \o Rep(r[2], P("subrect", ""))
       [] r[1] = "hextile" ->
            FlattenSeq([k \in 1 .. Len(r[2]) |->
              <<P("tile", r[2][k])>> \o IF r[2][k] \in {"raw", "subrects"}
                                          THEN <<P("body", "")>> ELSE <<>>])
       [] r[1] \in {"tight", "tightpng"} -> TightParts(r[2])
       [] r[1] = "cursor" -> <<P("cursor", "")>>
       [] r[1] = "screens" -> <<P("screens", "")>>
       [] OTHER -> <<>>

\* A message is <<type, what>>; an update's header has the number of its
\* rectangles, or Many when a LastRect ends it.
Many == 65535
MessageParts(m) ==
  <<P("type", m[1])>>
  \o CASE m[1] = "update" ->
            <<P("header", IF \E k \in DOMAIN m[2] : m[2][k][1] = "lastrect"
                            THEN Many ELSE Len(m[2]))>>
            \o FlattenSeq([k \in 1 .. Len(m[2]) |-> RectParts(m[2][k])])
       [] m[1] = "fence" ->
            <<P("payload", m[2])>>
            \o IF m[2] = "long" THEN <<P("rest", "")>> ELSE <<>>
       [] OTHER -> <<>>                     \* bell, endcontinuous

Numbered(parts) ==
  [k \in 1 .. Len(parts) |->
     [p |-> parts[k].p, v |-> parts[k].v, at |-> k]]

Encode(messages) ==
  Numbered(FlattenSeq([k \in 1 .. Len(messages) |-> MessageParts(messages[k])]))

-----------------------------------------------------------------------------
(* The receive queue of websock.js: buf holds what has been read (the      *)
(* first i parts) and what has not; size is rQbufferSize.                  *)

Left(c) == Len(c.buf) - c.i
Peek(c) == c.buf[c.i + 1]

Allocate(c, size) ==
  [c EXCEPT !.buf = SubSeq(@, c.i + 1, Len(@)), !.i = 0,
            !.size = size]

\* _expand_compact_rQ to make room for a frame, and to keep the buffer from
\* filling up.
MakeRoom(c, n) ==
  LET wanted == (Left(c) + n) * 8
  IN IF wanted > MaxGrow /\ MaxGrow - Left(c) < n
       THEN [c EXCEPT !.st = "dropped"]
       ELSE Allocate(c, Min({wanted, MaxGrow}))

Compact(c) ==
  IF Left(c) * 2 > c.size THEN Allocate(c, Min({c.size * 2, MaxGrow}))
  ELSE [c EXCEPT !.buf = SubSeq(@, c.i + 1, Len(@)), !.i = 0]

Store(c, frame) ==
  LET d == IF Len(frame) > c.size - Len(c.buf) THEN MakeRoom(c, Len(frame))
           ELSE c
  IN IF d.st = "dropped" \/ Len(d.buf) + Len(frame) > d.size
       THEN [d EXCEPT !.st = "dropped", !.lost = Len(frame)]
       ELSE [d EXCEPT !.buf = @ \o frame]

Settle(c) ==
  IF Left(c) = 0 THEN [c EXCEPT !.buf = <<>>, !.i = 0]
  ELSE IF Len(c.buf) * 8 > c.size THEN Compact(c) ELSE c

\* A read of one part.  Reading one as what it is not is being out of step.
Take(c, kind) ==
  [c EXCEPT !.i = @ + 1, !.st = IF Peek(c).p = kind THEN @ ELSE "garbled"]

Wait(c) == [c EXCEPT !.more = FALSE]
Fail(c) == [c EXCEPT !.st = "failed"]

-----------------------------------------------------------------------------
(* The render queue of display.js.  An operation draws the parts "want"    *)
(* and has the parts "data"; an image is loading, loaded or broken.        *)

Op(kind, want, data, img) ==
  [kind |-> kind, want |-> want, data |-> data, img |-> img]
Plain(kind) == Op(kind, <<>>, <<>>, "none")

Draw(c, op) ==
  [c EXCEPT !.wrong = IF op.data = op.want THEN @ ELSE @ \cup {op.kind}]

\* _scan_renderQ: what is ready, in order.  An image that cannot be drawn
\* stays at the head: drawImage throws, or 'load' never comes.
Scan(c) ==
  LET n == SelectInSeq(c.queue, LAMBDA op : op.img \in {"loading", "breaking", "broken"})
      ready == IF n = 0 THEN c.queue ELSE SubSeq(c.queue, 1, n - 1)
  IN [FoldLeft(Draw, c, ready) EXCEPT
        !.queue = SubSeq(@, Len(ready) + 1, Len(@))]

\* _renderQ_push
Push(c, op) ==
  LET d == [c EXCEPT !.queue = Append(@, op)]
  IN IF Len(d.queue) = 1 THEN Scan(d) ELSE d

\* What is drawn at once whatever is queued: startTile to finishTile, resize.
Now(c, kind) ==
  IF c.queue = <<>> THEN c ELSE [c EXCEPT !.overtook = @ \cup {kind}]

\* Mutant: the queue is not looked at.
SubmitAtOnce(c, op) == Draw(Now(c, op.kind), op)

\* fillRect, copyImage and flip: at once, or after what is queued.
Submit(c, op) == IF c.queue = <<>> THEN Draw(c, op) ELSE Push(c, op)

Places(parts) == [k \in DOMAIN parts |-> parts[k].at]

\* blitImage and blitRgbImage with n parts of the receive buffer: queued,
\* they copy as many from the beginning of the buffer.
BlitBuffer(c, kind, first, n) ==
  LET want == Places(SubSeq(c.buf, first, first + n - 1))
      data == Places(SubSeq(c.buf, 1, n))
  IN IF c.queue = <<>> THEN Draw(c, Op(kind, want, want, "none"))
     ELSE Push(c, Op(kind, want, data, "none"))

\* blitRgbImage with the inflator's output, blitRgbxImage with the scratch
\* buffer: those begin where the pixels do, and a copy is queued.
BlitOwn(c, kind, part) ==
  Submit(c, Op(kind, <<part.at>>, <<part.at>>, "none"))

ImageRect(c, part) ==
  Push(c, Op("img", <<part.at>>, <<part.at>>,
             IF part.v = "torn" THEN "breaking" ELSE "loading"))

Resize(c) == Submit(Now(c, "resize"), Plain("flip"))

-----------------------------------------------------------------------------
(* The decoders: one step of decodeRect, which waits, fails, goes on with  *)
(* the rectangle, or ends it.                                              *)

RectDone(c) == [c EXCEPT !.rects = @ - 1, !.rect = <<>>]

\* An image of no lines cannot be made: createImageData throws, now or when
\* its turn comes.
RawStep(c) ==
  LET d == IF c.lines = 0 THEN [c EXCEPT !.lines = c.rect[2]] ELSE c
      n == Min({d.lines, Left(d)})
      e == [BlitBuffer(d, "blit", d.i + 1, n) EXCEPT
              !.i = @ + n, !.lines = @ - n,
              !.st = IF \E k \in 1 .. n : d.buf[d.i + k].p # "line"
                       THEN "garbled" ELSE @]
  IN IF Left(d) = 0 THEN Wait(d)
     ELSE IF d.lines = 0
       THEN IF d.queue = <<>> THEN Fail(d)
            ELSE RectDone(Push(d, Op("blit", <<>>, <<>>, "broken")))
     ELSE IF e.lines > 0 THEN Wait(e) ELSE RectDone(e)

CopyRectStep(c) ==
  IF Left(c) = 0 THEN Wait(c)
  ELSE RectDone(Submit(Take(c, "src"), Plain("copy")))

\* The number of subrectangles is zero before the header and after the last.
RreStep(c) ==
  LET d == IF c.subrects = 0
             THEN [Take(c, "rre") EXCEPT !.subrects = Peek(c).v]
             ELSE [Take(c, "subrect") EXCEPT !.subrects = @ - 1]
      e == Submit(d, Plain("fill"))
  IN IF Left(c) = 0 THEN Wait(c)
     ELSE IF d.st = "up" /\ e.subrects = 0 THEN RectDone(e) ELSE e

\* A tile is read whole: with its pixels or its subrectangles.  A blank one
\* after a raw one is ignored.
HextileStep(c) ==
  LET d == IF c.tiles = 0 THEN [c EXCEPT !.tiles = Len(c.rect[2])] ELSE c
      kind == Peek(d).v
      two == Peek(d).p = "tile" /\ kind \in {"raw", "subrects"}
      read == IF two THEN Take(Take(d, "tile"), "body") ELSE Take(d, "tile")
      drawn == CASE kind = "blank" ->
                      IF d.lastRaw THEN read ELSE Submit(read, Plain("fill"))
                 [] kind = "raw" ->
                      [BlitBuffer(d, "blit", d.i + 2, 1) EXCEPT
                         !.i = read.i, !.st = read.st]
                 [] OTHER -> Now(read, "tile")
      e == [drawn EXCEPT !.tiles = @ - 1, !.lastRaw = (kind = "raw")]
  IN IF Left(d) = 0 \/ (two /\ Left(d) < 2) THEN Wait(d)
     ELSE IF read.st # "up" THEN read
     ELSE IF kind = "illegal" THEN Fail(d)
     ELSE IF e.tiles = 0 THEN RectDone(e) ELSE e

\* _readData: a length, kept while the data is awaited, then the data.
HasData(c) == c.len /\ Left(c) > 0
ReadData(c, kind) ==
  IF Left(c) = 0 THEN Wait(c)
  ELSE IF ~c.len THEN [Take(c, "len") EXCEPT !.len = TRUE]
  ELSE [Take(c, kind) EXCEPT !.len = FALSE]

TightDone(c) ==
  RectDone([c EXCEPT !.ctl = "", !.filter = "", !.colours = 0])

\* _jpegRect and _pngRect.
Image(c) ==
  IF HasData(c) THEN TightDone(ImageRect(ReadData(c, "data"), Peek(c)))
  ELSE ReadData(c, "data")

\* _copyFilter and _paletteFilter: three pixels at most come as they are,
\* more come as a zlib block of just their size.
Inflated(c) ==
  LET d == ReadData(c, "zlib")
  IN IF ~HasData(c) THEN d
     ELSE IF Peek(c).v = "short" THEN Fail(d)
     ELSE TightDone(BlitOwn(d, IF c.colours = 0 THEN "blitRgb" ELSE "blitRgbx",
                            Peek(c)))

CopyFilterStep(c) ==
  IF c.ctl = "dots"
    THEN IF Left(c) = 0 THEN Wait(c)
         ELSE LET d == BlitBuffer(c, "blitRgb", c.i + 1, 1)
                  read == Take(c, "pixels")
              IN TightDone([d EXCEPT !.i = read.i, !.st = read.st])
    ELSE Inflated(c)

PaletteFilterStep(c) ==
  IF c.colours = 0
    THEN IF Left(c) = 0 THEN Wait(c)
         ELSE [Take(c, "palette") EXCEPT !.colours = Peek(c).v]
  ELSE IF c.ctl = "mono"
    THEN IF Left(c) = 0 THEN Wait(c)
         ELSE TightDone(BlitOwn(Take(c, "pixels"), "blitRgbx", Peek(c)))
    ELSE Inflated(c)

BasicStep(c) ==
  LET explicit == c.ctl \in {"palette", "mono", "gradient"}
  IN CASE c.filter = "" ->
            IF ~explicit THEN [c EXCEPT !.filter = "copy"]
            ELSE IF Left(c) = 0 THEN Wait(c)
            ELSE [Take(c, "filter") EXCEPT !.filter = Peek(c).v]
       [] c.filter = "copy" -> CopyFilterStep(c)
       [] c.filter = "palette" -> PaletteFilterStep(c)
       [] OTHER -> Fail(c)

\* Tight and TightPNG: the second has PNG images and no basic compression.
TightStep(c) ==
  LET png == c.rect[1] = "tightpng"
  IN CASE c.ctl = "" ->
            IF Left(c) = 0 THEN Wait(c)
            ELSE [Take(c, "ctl") EXCEPT !.ctl = Peek(c).v]
       [] c.ctl = "fill" ->
            IF Left(c) = 0 THEN Wait(c)
            ELSE TightDone(Submit(Take(c, "colour"), Plain("fill")))
       [] c.ctl \in {"jpeg", "torn"} -> Image(c)
       [] c.ctl = "png" -> IF png THEN Image(c) ELSE Fail(c)
       [] OTHER -> IF png THEN Fail(c) ELSE BasicStep(c)

\* _handleRect
RectStep(c) ==
  CASE c.rect[1] = "raw" -> RawStep(c)
    [] c.rect[1] = "copyrect" -> CopyRectStep(c)
    [] c.rect[1] = "rre" -> RreStep(c)
    [] c.rect[1] = "hextile" -> HextileStep(c)
    [] c.rect[1] \in {"tight", "tightpng"} -> TightStep(c)
    [] c.rect[1] = "cursor" ->
         IF Left(c) = 0 THEN Wait(c) ELSE RectDone(Take(c, "cursor"))
    [] c.rect[1] = "screens" ->          \* _handleExtendedDesktopSize
         IF Left(c) = 0 THEN Wait(c)
         ELSE LET d == Take(c, "screens")
              IN RectDone(IF c.rect[2] = "refused" THEN d ELSE Resize(d))
    [] c.rect[1] = "desktopsize" -> RectDone(Resize(c))
    [] c.rect[1] = "lastrect" -> RectDone([c EXCEPT !.rects = 1])
    [] c.rect[1] = "qemukey" -> RectDone(c)
    [] OTHER -> Fail(c)

-----------------------------------------------------------------------------
(* rfb.js: messages and updates.                                           *)

\* A finished update is shown, and asks for the next one.
Request(c) == IF c.continuous THEN c ELSE [c EXCEPT !.asks = TRUE]
\* Mutant: with images still to be drawn nothing is asked for.
UpdateDoneIdle(c) ==
  Submit(IF c.queue = <<>> THEN Request(c) ELSE c, Plain("flip"))

UpdateDone(c) == Request(Submit(c, Plain("flip")))

\* Mutant: the type is gone when the header is awaited.
UpdateHeaderNoGoback(c) ==
  LET d == [Take(Take(c, "type"), "header") EXCEPT
              !.rects = c.buf[c.i + 2].v]
  IN IF Left(c) < 2 THEN Wait(Take(c, "type"))
     ELSE IF d.queue # <<>>
       THEN Wait([d EXCEPT !.flushing = TRUE, !.dflush = TRUE])
     ELSE IF d.rects = 0 THEN UpdateDone(d) ELSE d

\* The header of an update: type and header together, or neither.  With
\* images still to be drawn the rest waits until they are.
UpdateHeader(c) ==
  LET d == [Take(Take(c, "type"), "header") EXCEPT
              !.rects = c.buf[c.i + 2].v]
  IN IF Left(c) < 2 THEN Wait(c)
     ELSE IF d.queue # <<>>
       THEN Wait([d EXCEPT !.flushing = TRUE, !.dflush = TRUE])
     ELSE IF d.rects = 0 THEN UpdateDone(d) ELSE d

\* A step of _framebufferUpdate: the header of a rectangle or a step of its
\* decoder, and the end of the update after its last rectangle.
UpdateStep(c) ==
  LET d == IF c.rect # <<>> THEN RectStep(c)
           ELSE IF Left(c) = 0 THEN Wait(c)
           ELSE [Take(c, "rect") EXCEPT !.rect = Peek(c).v]
  IN IF d.st = "up" /\ d.rects = 0 THEN UpdateDone(d) ELSE d

\* _handle_server_fence_msg: a payload of more than 64 bytes is awaited
\* whole, but only the first 64 are read.
Fence(c) ==
  LET n == IF Left(c) >= 2 /\ c.buf[c.i + 2].v = "long" THEN 3 ELSE 2
  IN IF Left(c) < n THEN Wait(c) ELSE Take(Take(c, "type"), "payload")

\* The first EndOfContinuousUpdates says that the server knows them.
EndOfContinuousUpdates(c) ==
  [Take(c, "type") EXCEPT !.continuous = ~c.supports, !.supports = TRUE,
                          !.asks = @ \/ ~c.supports]

\* _normal_msg
NormalStep(c) ==
  IF c.rects > 0 THEN UpdateStep(c)
  ELSE IF Left(c) = 0 THEN Wait(c)
  ELSE IF Peek(c).p # "type" THEN Take(c, "type")
  ELSE CASE Peek(c).v = "update" -> UpdateHeader(c)
         [] Peek(c).v = "fence" -> Fence(c)
         [] Peek(c).v = "endcontinuous" -> EndOfContinuousUpdates(c)
         [] Peek(c).v = "bell" -> Take(c, "type")
         [] OTHER -> Fail(c)

\* The loop of _handle_message: of two steps, one at least reads a part.
Steps(c) ==
  FoldLeft(LAMBDA d, k : IF d.more /\ d.st = "up" /\ ~d.flushing
                           THEN NormalStep(d) ELSE d,
           c, Rep(2 * Left(c) + 2, 0))

\* _handle_message, when something is in the queue.
HandleMessage(c) == IF Left(c) = 0 THEN c ELSE Steps([c EXCEPT !.more = TRUE])

\* _recv_message
Receive(c, frame) ==
  LET d == Store(c, frame)
      e == HandleMessage(d)
  IN IF d.st # "up" \/ e.st # "up" THEN [e EXCEPT !.more = FALSE]
     ELSE [Settle(e) EXCEPT !.more = FALSE]

\* Mutant: the flush ends without telling the session.
LoadedQuietly(c, k) ==
  LET d == [c EXCEPT !.queue[k].img = "loaded"]
      e == IF k = 1 THEN Scan(d) ELSE d
  IN [e EXCEPT !.dflush = @ /\ e.queue # <<>>]

\* The image k of the queue has loaded, and 'load' is heard at the head:
\* _resume_renderQ.  An empty queue ends the flush (_onFlush).
Loaded(c, k) ==
  LET d == [c EXCEPT !.queue[k].img = "loaded"]
      e == IF k = 1 THEN Scan(d) ELSE d
  IN IF e.queue = <<>> /\ e.dflush
       THEN [HandleMessage([e EXCEPT !.dflush = FALSE, !.flushing = FALSE])
               EXCEPT !.more = FALSE]
       ELSE e

-----------------------------------------------------------------------------
NewClient ==
  [buf |-> <<>>, i |-> 0, size |-> BufferSize, lost |-> 0,
   st |-> "up", more |-> FALSE, rects |-> 0, rect |-> <<>>,
   lines |-> 0, subrects |-> 0, tiles |-> 0, lastRaw |-> FALSE,
   ctl |-> "", filter |-> "", colours |-> 0, len |-> FALSE,
   queue |-> <<>>, dflush |-> FALSE, flushing |-> FALSE,
   supports |-> FALSE, continuous |-> FALSE, asks |-> FALSE,
   overtook |-> {}, wrong |-> {}]

\* A callback of the page: what it asks for reaches the server.
Callback(c) ==
  /\ client' = [c EXCEPT !.asks = FALSE]
  /\ owed' = (owed \/ c.asks)

\* ServerInit has been read and the first request made.
Init ==
  /\ client = NewClient
  /\ stream \in {Encode(plan) : plan \in Plans}
  /\ sent = 0 /\ arrived = 0 /\ owed = TRUE

\* The server sends its next message, an update only when one is owed or it
\* sends them continuously; the page's requests never stop the other ones.
ServerSends ==
  /\ sent < Len(stream)
  /\ LET next == stream[sent + 1]
         rest == SubSeq(stream, sent + 2, Len(stream))
         more == SelectInSeq(rest, LAMBDA x : x.p = "type")
     IN /\ next.v = "update" => owed \/ client.continuous
        /\ sent' = IF more = 0 THEN Len(stream) ELSE sent + more
        /\ owed' = (owed /\ next.v # "update")
  /\ UNCHANGED <<client, stream, arrived>>

\* A frame brings whatever part of what was sent.
SocketReceives ==
  /\ client.st = "up"
  /\ \E n \in 1 .. (sent - arrived) :
       /\ arrived' = arrived + n
       /\ \E c \in {Receive(client, SubSeq(stream, arrived + 1, arrived + n))} :
            Callback(c)
  /\ UNCHANGED <<stream, sent>>

\* The browser has decoded an image of the queue, or given up on it.
ImageLoads ==
  /\ client.st = "up"
  /\ \E k \in DOMAIN client.queue :
       /\ client.queue[k].img = "loading"
       /\ \E c \in {Loaded(client, k)} : Callback(c)
  /\ UNCHANGED <<stream, sent, arrived>>

ImageBreaks ==
  /\ client.st = "up"
  /\ \E k \in DOMAIN client.queue :
       /\ client.queue[k].img = "breaking"
       /\ client' = [client EXCEPT !.queue[k].img = "broken"]
  /\ UNCHANGED <<stream, sent, arrived, owed>>

Next == ServerSends \/ SocketReceives \/ ImageLoads \/ ImageBreaks

Spec == Init /\ [][Next]_vars

CanReceive == client.st = "up" /\ arrived < sent
CanLoad == client.st = "up" /\ \E k \in DOMAIN client.queue :
                                 client.queue[k].img = "loading"

\* The network delivers what is sent, and the browser decodes images.  The
\* server sends what it may.  (Weak fairness of the two is written out, with
\* what enables them.)
FairSpec ==
  /\ Spec
  /\ WF_vars(ServerSends)
  /\ []<>~CanReceive \/ []<><<SocketReceives>>_vars
  /\ []<>~CanLoad \/ []<><<ImageLoads>>_vars

-----------------------------------------------------------------------------
(* Properties.                                                             *)

Was(kind, val) ==
  \E k \in 1 .. arrived : stream[k].p = kind /\ stream[k].v = val

\* What ends a session by right, or is not implemented.
Illegal ==
  \/ Was("type", "unknown") \/ Was("rect", <<"unknown", "">>)
  \/ Was("tile", "illegal") \/ Was("zlib", "short")
  \/ Was("filter", "gradient") \/ Was("rect", <<"tight", "png">>)
  \/ Was("rect", <<"tightpng", "copy">>)

\* However the stream is cut into frames, every part is read as what it is,
\* nothing is dropped, and the session fails only for what a server may not
\* send.  The exceptions: a fence with more than 64 bytes, whose rest is read
\* as messages; a raw rectangle without lines; and what is in the queue and
\* the frame not fitting into MAX_RQ_GROW_SIZE.
ReadInStep ==
  /\ client.st = "garbled" =>
       Was("payload", "long") \/ Was("rect", <<"raw", 0>>)
  /\ client.st = "failed" => Illegal \/ Was("rect", <<"raw", 0>>)
  /\ client.st = "dropped" => Left(client) + client.lost > MaxGrow

\* The client never stops asking: with everything read and drawn, the server
\* owes an update or sends them by itself.  The exception is an update without
\* rectangles that arrives while images are being drawn: after the flush its
\* end is never reached, and nothing asks for the next one.
NeverStopsAsking ==
  (client.st = "up" /\ arrived = sent /\ Left(client) = 0
     /\ client.rects = 0 /\ ~client.flushing)
    => owed \/ client.continuous \/ Was("header", 0)

\* What is drawn is what was sent, in the order it was sent.  Two things get
\* ahead of what is queued: the tiles of hextile with a background, and a
\* change of size.  Two get the wrong bytes when they are queued: pixels that
\* come as they are, raw (also in hextile) or as a Tight rectangle of three
\* pixels at most; what was inflated or looked up in a palette never does.
PictureExplained ==
  /\ client.overtook \subseteq {"tile", "resize"}
  /\ client.wrong \subseteq
       {"blit"} \cup (IF Was("pixels", "") THEN {"blitRgb"} ELSE {})

\* An image that is being drawn does not stop the updates: what has been sent
\* is read, unless an image is broken or a rectangle without lines is queued,
\* and the queue then never moves again.
Stuck == client.queue # <<>> /\ client.queue[1].img = "broken"
CatchesUp ==
  client.flushing ~> (~client.flushing \/ client.st # "up" \/ Was("data", "torn")
                        \/ Was("rect", <<"raw", 0>>))
=============================================================================
