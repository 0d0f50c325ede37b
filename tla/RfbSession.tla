----------------------------- MODULE RfbSession -----------------------------
(***************************************************************************)
(* One RFB object of the VNC page: core/rfb.js with the events of          *)
(* core/websock.js.                                                        *)
(*                                                                         *)
(* A session is a record.  JavaScript runs one callback at a time, so each *)
(* callback is an operator from the session before it to the session after *)
(* it.  What the callback tells others is kept in two queues, in order:    *)
(* "events" (dispatchEvent, read by the page) and "out" (what reaches the  *)
(* server).                                                                *)
(*                                                                         *)
(* A message of the server is a record [kind, val].  "rq" is the receive   *)
(* queue; "short" says that its last message has arrived only in part, in  *)
(* which case rQwait leaves it there.                                      *)
(***************************************************************************)
EXTENDS Integers, Sequences, SequencesExt

Msg(kind, val) == [kind |-> kind, val |-> val]

\* The security types of _negotiate_security, the preferred one first.
Preference == <<"none", "xvp", "tight", "vnc">>

Repeater == 0
Unknown == 1

ConnectionStates ==
  {"", "connecting", "connected", "disconnecting", "disconnected"}
InitStates ==
  {"", "ProtocolVersion", "Security", "Authentication", "SecurityResult",
   "SecurityReason", "ClientInitialisation", "ServerInitialisation"}

\* The constructor: handlers on the socket, and a timer that starts the
\* connection once the caller has set its own handlers ("start").
NewSession(hasPassword) ==
  [conn |-> "", init |-> "", version |-> 0, scheme |-> "none", tight |-> FALSE,
   password |-> hasPassword, clean |-> TRUE, viewOnly |-> FALSE,
   hears |-> {"open", "message", "close"}, sock |-> "none",
   start |-> TRUE, timer |-> FALSE, retry |-> FALSE,
   screen |-> FALSE, grabbed |-> FALSE, power |-> FALSE,
   rq |-> <<>>, short |-> FALSE, pending |-> FALSE, flushing |-> FALSE,
   events |-> <<>>, out |-> <<>>]

Emit(s, e) == [s EXCEPT !.events = Append(@, e)]

\* Websock.send and flush: only an open socket takes the bytes.
Send(s, m) == IF s.sock = "open" THEN [s EXCEPT !.out = Append(@, m)] ELSE s

\* rQwait, for the first message of the queue.
Whole(s) == Len(s.rq) > 1 \/ (Len(s.rq) = 1 /\ ~s.short)
Shift(s) == [s EXCEPT !.rq = Tail(@)]

-----------------------------------------------------------------------------
(* The connection state.                                                   *)

Transitions ==
  {<<"", "connecting">>, <<"connecting", "connected">>,
   <<"connecting", "disconnecting">>, <<"connected", "disconnecting">>,
   <<"disconnecting", "disconnected">>}

\* Mutant: the disconnect timer stays set.
EnterKeepsTimer(s, state) ==
  [s EXCEPT !.conn = state,
            !.hears = IF s.timer /\ state # "disconnecting"
                        THEN @ \ {"close"} ELSE @]

\* The new state; leaving 'disconnecting' clears the disconnect timer and
\* stops listening for the socket's close.
Enter(s, state) ==
  [s EXCEPT !.conn = state,
            !.timer = @ /\ state = "disconnecting",
            !.hears = IF s.timer /\ state # "disconnecting"
                        THEN @ \ {"close"} ELSE @]

\* _disconnect with Websock.close.
Teardown(s) ==
  [s EXCEPT !.screen = FALSE, !.grabbed = FALSE,
            !.sock = IF @ \in {"opening", "open"} THEN "closing" ELSE @,
            !.hears = @ \ {"message"}]

\* Mutant: nothing is set up for a socket that never closes.
MoveNoTimer(s, state) ==
  IF <<s.conn, state>> \notin Transitions THEN s
  ELSE LET t == Enter(s, state)
       IN CASE state = "connected" -> Emit(t, <<"connect">>)
            [] state = "disconnecting" -> Teardown(t)
            [] state = "disconnected" -> Emit(t, <<"disconnect", t.clean>>)

\* _updateConnectionState, for every state but 'connecting' (see Connect).
Move(s, state) ==
  IF <<s.conn, state>> \notin Transitions THEN s
  ELSE LET t == Enter(s, state)
       IN CASE state = "connected" -> Emit(t, <<"connect">>)
            [] state = "disconnecting" -> [Teardown(t) EXCEPT !.timer = TRUE]
            [] state = "disconnected" -> Emit(t, <<"disconnect", t.clean>>)

Fail(s) ==
  Move(Move([s EXCEPT !.clean = FALSE], "disconnecting"), "disconnected")

\* The constructor's timer: 'connecting', hence _connect.  When the socket
\* cannot be opened the session fails, and is attached to the page anyway.
Connect(s, opens) ==
  LET t == [s EXCEPT !.start = FALSE]
      e == Enter(t, "connecting")
      c == IF opens THEN [e EXCEPT !.sock = "opening"] ELSE Fail(e)
  IN IF s.conn # "" THEN t ELSE [c EXCEPT !.screen = TRUE]

\* RFB.disconnect, the call of the page.
Disconnect(s) ==
  LET t == Move(s, "disconnecting")
  IN [t EXCEPT !.hears = @ \ {"open", "message"}]

\* The callback of the disconnect timer.
DisconnectTimeout(s) == Move(s, "disconnected")

\* The socket's 'open' handler.
OnOpen(s) ==
  LET t == [s EXCEPT !.sock = "open"]
  IN IF "open" \notin s.hears THEN t
     ELSE IF s.conn = "connecting" /\ s.init = ""
            THEN [t EXCEPT !.init = "ProtocolVersion"]
            ELSE Fail(t)

\* The socket's 'close' handler.
OnClose(s) ==
  LET t == [s EXCEPT !.sock = "closed"]
      u == CASE s.conn = "connected" ->
                  Move(Move(t, "disconnecting"), "disconnected")
             [] s.conn = "disconnecting" -> Move(t, "disconnected")
             [] OTHER -> Fail(t)
  IN IF "close" \notin s.hears THEN t
     ELSE [u EXCEPT !.hears = @ \ {"close"}]

\* The viewOnly setter.
SetViewOnly(s, on) ==
  [s EXCEPT !.viewOnly = on,
            !.grabbed = IF s.conn \in {"connecting", "connected"}
                          THEN ~on ELSE @]

-----------------------------------------------------------------------------
(* The handshake.  The stages are written last to first, because each may  *)
(* go on with the next one in the same callback (return this._init_msg()). *)

\* Bytes of another message can be read as a ServerInit; "enough" says
\* whether they are long enough for it.  A server's own ServerInit is.
NegotiateServerInit(s, enough) ==
  IF ~Whole(s) \/ (Head(s.rq).kind # "serverinit" /\ ~enough) THEN s
  ELSE LET t == Emit(Shift(s), <<"desktopname">>)
           u == [t EXCEPT !.grabbed = @ \/ ~s.viewOnly]
       IN Move(Send(u, <<"request">>), "connected")

ClientInit(s) == [Send(s, <<"clientinit">>) EXCEPT !.init = "ServerInitialisation"]

\* _handle_security_reason.
SecurityReason(s) ==
  IF ~Whole(s) THEN s
  ELSE Fail(Emit(Shift(s), <<"securityfailure">>))

ToReason(s) == SecurityReason([s EXCEPT !.init = "SecurityReason"])

SecurityResult(s) ==
  IF ~Whole(s) THEN s
  ELSE LET t == Shift(s)
       IN IF Head(s.rq).val = "ok" THEN ClientInit(t)
          ELSE IF s.version >= 38 THEN ToReason(t)
          ELSE Fail(Emit(t, <<"securityfailure">>))

\* _negotiate_std_vnc_auth: the challenge stays queued until there is a
\* password to answer it with.
VncAuth(s) ==
  IF ~Whole(s) THEN s
  ELSE IF ~s.password THEN Emit(s, <<"credentialsrequired">>)
  ELSE [Send(Shift(s), <<"response">>) EXCEPT !.init = "SecurityResult"]

\* _negotiate_xvp_auth: the page only ever gives a password, never the user
\* name and the target, so the session asks again.
XvpAuth(s) == Emit(s, <<"credentialsrequired">>)

\* The second pass of _negotiate_tight_auth: the server's sub-authentications.
TightSubAuth(s) ==
  IF ~Whole(s) THEN s
  ELSE LET t == Shift(s)
           types == Head(s.rq).val
       IN CASE types = {} -> [t EXCEPT !.init = "SecurityResult"]
            [] "noauth" \in types ->
                 [Send(t, <<"subnoauth">>) EXCEPT !.init = "SecurityResult"]
            [] "noauth" \notin types /\ "vncauth" \in types ->
                 VncAuth([Send(t, <<"subvncauth">>) EXCEPT !.scheme = "vnc"])
            [] OTHER -> Fail(t)

\* _negotiate_tight_auth with _negotiate_tight_tunnels: val is the set of
\* tunnels offered; the reply to a tunnel offer ends the callback.
TightAuth(s) ==
  IF s.tight THEN TightSubAuth(s)
  ELSE IF ~Whole(s) THEN s
  ELSE LET t == [Shift(s) EXCEPT !.tight = TRUE]
           tunnels == Head(s.rq).val
       IN CASE tunnels = {} -> TightSubAuth(t)
            [] "notunnel" \in tunnels -> Send(t, <<"tunnel">>)
            [] OTHER -> Fail(t)

Authentication(s) ==
  CASE s.scheme = "none" ->
         IF s.version >= 38 THEN [s EXCEPT !.init = "SecurityResult"]
                            ELSE ClientInit(s)
    [] s.scheme = "xvp" -> XvpAuth(s)
    [] s.scheme = "vnc" -> VncAuth(s)
    [] s.scheme = "tight" -> TightAuth(s)
    [] OTHER -> Fail(s)

\* From 3.7 on the server lists types and the client chooses; before, the
\* server decides ("invalid" is type 0: it refuses and says why).
ChooseSecurity(s, offer) ==
  LET known == {k \in DOMAIN Preference : Preference[k] \in offer}
      best == Preference[Min(known)]
      auth(u, x) ==
        Authentication([u EXCEPT !.scheme = x, !.init = "Authentication"])
  IN IF s.version >= 37
       THEN IF offer = {} THEN ToReason(s)
            ELSE IF known = {} THEN Fail(s)
            ELSE auth(Send(s, <<best>>), best)
       ELSE IF offer = {"invalid"} THEN ToReason(s)
            ELSE auth(s, CHOOSE x \in offer : TRUE)

NegotiateSecurity(s) ==
  IF ~Whole(s) THEN s ELSE ChooseSecurity(Shift(s), Head(s.rq).val)

\* Versions are 33, 37 and 38; the code takes all others it knows for one of
\* these.  A repeater is answered with an id, and then greets as a server does.
NegotiateVersion(s) ==
  IF ~Whole(s) THEN s
  ELSE LET t == Shift(s)
           v == Head(s.rq).val
       IN CASE v = Repeater -> Send(t, <<"id">>)
            [] v = Unknown -> Fail(t)
            [] OTHER -> [Send(t, <<"version">>) EXCEPT !.version = v,
                                                   !.init = "Security"]

\* _init_msg.
InitMsg(s, enough) ==
  CASE s.init = "ProtocolVersion" -> NegotiateVersion(s)
    [] s.init = "Security" -> NegotiateSecurity(s)
    [] s.init = "Authentication" -> Authentication(s)
    [] s.init = "SecurityResult" -> SecurityResult(s)
    [] s.init = "SecurityReason" -> SecurityReason(s)
    [] s.init = "ClientInitialisation" -> ClientInit(s)
    [] s.init = "ServerInitialisation" -> NegotiateServerInit(s, enough)
    [] OTHER -> Fail(s)

\* Mutant: the password is kept and nothing goes on with it.
SendCredentialsOnly(s, given) == [s EXCEPT !.password = given]

\* sendCredentials keeps the password and goes on in a timer of its own.
SendCredentials(s, given) == [s EXCEPT !.password = given, !.retry = TRUE]
CredentialsTimeout(s, enough) == InitMsg([s EXCEPT !.retry = FALSE], enough)

-----------------------------------------------------------------------------
(* The messages of a connected session.                                    *)

\* _normal_msg for the message m, the first of the queue.  "go" is what it
\* returns: an illegal message of an unknown type, or an illegal XVP message,
\* fails the session and still returns true.
NormalMsg(s, m) ==
  LET t == Shift(s)
      Stop(u) == [session |-> u, go |-> FALSE]
      Next(u) == [session |-> u, go |-> TRUE]
  IN CASE m.kind = "fbu" ->
            IF s.pending THEN Stop([s EXCEPT !.flushing = TRUE])
            ELSE Next(Send([t EXCEPT !.pending = m.val], <<"request">>))
       [] m.kind = "bell" -> Next(Emit(t, <<"bell">>))
       [] m.kind = "cuttext" ->
            Next(IF s.viewOnly THEN t ELSE Emit(t, <<"clipboard">>))
       [] m.kind = "fence" ->
            IF m.val = "request" THEN Next(Send(t, <<"fence">>)) ELSE Stop(Fail(t))
       [] m.kind = "xvp" ->
            Next(CASE m.val = "fail" -> t
                   [] m.val = "init" ->
                        Emit([t EXCEPT !.power = TRUE], <<"capabilities", ~t.viewOnly>>)
                   [] OTHER -> Fail(t))
       [] m.kind = "colourmap" -> Stop(Fail(t))
       [] OTHER -> Next(Fail(t))

\* The loop of _handle_message in a connected session, and its body.
DrainStep(d, m) ==
  IF d.go /\ ~d.session.flushing THEN NormalMsg(d.session, m) ELSE d

Drain(s) ==
  LET whole == IF s.short THEN Front(s.rq) ELSE s.rq
  IN FoldLeft(DrainStep, [session |-> s, go |-> TRUE], whole).session

HandleMessage(s, enough) ==
  CASE s.rq = <<>> \/ s.conn = "disconnected" -> s
    [] s.rq # <<>> /\ s.conn = "connected" -> Drain(s)
    [] OTHER -> InitMsg(s, enough)

\* Websock._recv_message: the bytes of one WebSocket frame.  They may end in
\* the middle of a message, and may hold several messages.
OnMessage(s, msgs, partial, enough) ==
  LET t == [s EXCEPT !.rq = @ \o msgs, !.short = partial]
  IN IF "message" \in s.hears THEN HandleMessage(t, enough) ELSE s

\* _onFlush: the display has drawn its last image.
OnFlush(s, enough) ==
  LET t == [s EXCEPT !.flushing = FALSE, !.pending = FALSE]
  IN IF ~s.flushing THEN t ELSE HandleMessage(t, enough)

\* machineShutdown, machineReboot, machineReset through _xvpOp.
XvpOp(s) == IF s.power THEN Send(s, <<"xvp">>) ELSE s

\* sendKey; the key is down or up in the guest once the server has it.
SendKey(s, key, down) ==
  IF s.conn # "connected" \/ s.viewOnly THEN s ELSE Send(s, <<"key", key, down>>)

SendKeyOf(s, e) == SendKey(s, e[1], e[2])

\* sendCtrlAltDel: the three keys go down, and up again in the other order.
Chord == <<<<"ctrl", TRUE>>, <<"alt", TRUE>>, <<"delete", TRUE>>,
           <<"delete", FALSE>>, <<"alt", FALSE>>, <<"ctrl", FALSE>>>>
SendCtrlAltDel(s) == FoldLeft(SendKeyOf, s, Chord)
=============================================================================
