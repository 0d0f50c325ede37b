----------------------------- MODULE VncViewer ------------------------------
(***************************************************************************)
(* The VNC page: app/ui_vmango.js around the RFB sessions it opens, the    *)
(* user in front of it and the server (or nobody) at the other end.        *)
(*                                                                         *)
(* "ui" is the page: what it remembers and what it shows.  A session is an *)
(* RfbSession record; a new one is made by every connect, and those before *)
(* it stay, with the timers and the socket they have left.  The user can   *)
(* only press what the style sheet shows: the overlay of a transition      *)
(* covers the control bar, and the bar's buttons need a connection.        *)
(***************************************************************************)
EXTENDS RfbSession

CONSTANTS
  MaxSessions,   \* bound: sessions opened, and so servers in a plan
  MaxClicks,     \* bound: what the user does besides connecting
  MaxMessages,   \* bound: messages of a server after its ServerInit
  Modifiers,     \* the toggle buttons for keys: ctrl, windows, alt
  Plans,         \* sequences of servers: those the sessions of a behaviour meet
  WantsPassword, \* config: is a password given in the page's address?
  Refusals       \* can the browser refuse to open the socket? SUBSET BOOLEAN

\* A server greets as a repeater, in a version nobody knows, or in its own; one
\* of 3.3 names one security type, and later ones do not list the type 0.
IsServer(server) ==
  /\ server.version \in {33, 37, 38}
  /\ server.greets \in {Repeater, Unknown, server.version}
  /\ server.version = 33 => \E x \in server.types : server.types = {x}
  /\ server.version # 33 => "invalid" \notin server.types

ASSUME PlansAssumption ==
  \A p \in Plans : /\ p \in Seq({p[k] : k \in DOMAIN p})
                   /\ \A k \in DOMAIN p : IsServer(p[k])

VARIABLES
  ui,            \* the page
  rfb,           \* the sessions, in the order they were made
  net,           \* for each session: its server and what is under way
  plan,          \* the servers that the sessions meet
  clicks         \* how many clicks the bound still allows

vars == <<ui, rfb, net, plan, clicks>>

NONE == 0
Ids == 1 .. Len(rfb)
Covered == ui.visual \in {"connecting", "disconnecting", "reconnecting"}

-----------------------------------------------------------------------------
(* What the page does, as operators from the page to the page.             *)

\* Mutant: the last text is shown.
ShowStatusLast(u, kind, text) ==
  [u EXCEPT !.status = [kind |-> kind, text |-> text], !.hide = kind # "error"]

\* showStatus: a text never replaces a more severe one that is showing, and
\* the timer of the one showing is cleared before that is decided.
ShowStatus(u, kind, text) ==
  LET keep == u.status.kind = "error"
              \/ (u.status.kind = "warn" /\ kind = "normal")
  IN IF keep THEN [u EXCEPT !.hide = FALSE]
     ELSE [u EXCEPT !.status = [kind |-> kind, text |-> text],
                    !.hide = kind # "error"]

HideStatus(u) ==
  [u EXCEPT !.status = [kind |-> "none", text |-> ""], !.hide = FALSE]

CloseControlbar(u) == [u EXCEPT !.panel = "none", !.bar = FALSE]

\* Any of the open...Panel functions, which all close the others first, and
\* the button that toggles it.
TogglePanel(u, p) ==
  IF u.panel = p THEN [u EXCEPT !.panel = "none"]
  ELSE [u EXCEPT !.panel = p, !.bar = TRUE]

\* updatePowerButton; "may": the session has the capability and is not view
\* only.
UpdatePowerButton(u, may) ==
  LET on == u.connected /\ may
  IN [u EXCEPT !.power = on,
               !.panel = IF ~on /\ @ = "power" THEN "none" ELSE @]

\* updateVisualState: connected, the control bar closes in two seconds; not
\* connected, it stays and there is no power button.  Either way the password
\* dialog closes.
UpdateVisualState(u, state) ==
  LET v == [u EXCEPT !.visual = state, !.ask = FALSE]
  IN IF u.connected THEN [v EXCEPT !.barTimer = TRUE]
     ELSE [v EXCEPT !.barTimer = FALSE, !.power = FALSE,
                    !.panel = IF @ = "power" THEN "none" ELSE @]

ConnectFinished(u) ==
  LET v == [u EXCEPT !.connected = TRUE, !.inhibit = FALSE]
  IN UpdateVisualState(ShowStatus(v, "normal", "connected"), "connected")

\* disconnectFinished: only a clean end reconnects.
DisconnectFinished(u, clean) ==
  LET v == [u EXCEPT !.connected = FALSE, !.cur = NONE]
      w == UpdateVisualState(v, "disconnected")
      Panels(x) == [x EXCEPT !.bar = TRUE, !.dlg = TRUE]
  IN CASE ~clean ->
            Panels(ShowStatus(w, "error",
                              IF u.connected THEN "wrong" ELSE "failed"))
       [] clean /\ u.wantsReconnect /\ ~u.inhibit ->
            [UpdateVisualState(v, "reconnecting") EXCEPT !.reconnect = TRUE]
       [] OTHER -> Panels(ShowStatus(w, "normal", "disconnected"))

\* securityFailed and credentials.
SecurityFailed(u) == ShowStatus(u, "error", "rejected")
Credentials(u) == ShowStatus([u EXCEPT !.ask = TRUE], "warn", "password")

\* The listeners connect() adds to a session.
Listener(u, e) ==
  CASE e[1] = "connect" -> ConnectFinished(u)
    [] e[1] = "disconnect" -> DisconnectFinished(u, e[2])
    [] e[1] = "credentialsrequired" -> Credentials(u)
    [] e[1] = "securityfailure" -> SecurityFailed(u)
    [] e[1] = "capabilities" -> UpdatePowerButton(u, e[2])
    [] OTHER -> u                     \* clipboard, bell, desktopname

-----------------------------------------------------------------------------
(* The server of a session: what it sends for what it has been sent.       *)

\* login: "ok" or "denied", the outcome of its authentication.
Result(server) ==
  IF server.login = "ok" THEN <<Msg("result", "ok")>>
  ELSE <<Msg("result", "denied")>>
       \o IF server.version >= 38 THEN <<Msg("reason", TRUE)>> ELSE <<>>

Offer(server) ==
  IF server.types \in {{}, {"invalid"}}
    THEN <<Msg("types", server.types), Msg("reason", TRUE)>>
    ELSE <<Msg("types", server.types)>>
         \o IF server.version = 33 /\ server.types = {"vnc"}
              THEN <<Msg("challenge", "")>> ELSE <<>>

\* A server without authentication has a result only from 3.8 on.
Reply(server, m) ==
  CASE m[1] = "id" -> <<Msg("version", server.version)>>
    [] m[1] = "version" -> Offer(server)
    [] m[1] = "none" ->
         IF server.version >= 38 THEN Result(server) ELSE <<>>
    [] m[1] \in {"vnc", "subvncauth"} -> <<Msg("challenge", "")>>
    [] m[1] = "tight" ->
         IF server.tunnels = {}
           THEN <<Msg("tunnels", {}), Msg("subauth", server.subauth)>>
                \o (IF server.subauth = {} THEN Result(server) ELSE <<>>)
           ELSE <<Msg("tunnels", server.tunnels)>>
    [] m[1] = "tunnel" ->
         <<Msg("subauth", server.subauth)>>
         \o IF server.subauth = {} THEN Result(server) ELSE <<>>
    [] m[1] \in {"response", "subnoauth"} -> Result(server)
    [] m[1] = "clientinit" -> <<Msg("serverinit", "")>>
    [] OTHER -> <<>>

\* The guest's side of the key toggles: a key is down from the message that
\* presses it to the one that releases it.
GuestKeys(down, m) ==
  IF m[1] # "key" THEN down
  ELSE IF m[3] THEN down \cup {m[2]} ELSE down \ {m[2]}

\* The server gets a message and answers it.
Serve(n, m) ==
  [n EXCEPT !.wire = @ \o Reply(n.server, m), !.down = GuestKeys(@, m)]

-----------------------------------------------------------------------------
(* One callback of session i, which becomes s: the server gets what it     *)
(* sent, the listeners run, in order, on the page u, and "wire" is what is *)
(* still under way to the session.                                         *)

Received(i, s, u, wire) ==
  LET refused == \E k \in DOMAIN s.events : s.events[k][1] = "securityfailure"
      late == /\ s.conn = "disconnected" /\ s.events # <<>>
              /\ Last(s.events)[1] # "disconnect"
      told == [net[i] EXCEPT !.wire = wire, !.refused = @ \/ refused,
                             !.noisy = @ \/ late]
  IN /\ rfb' = [rfb EXCEPT ![i] = [s EXCEPT !.events = <<>>, !.out = <<>>]]
     /\ ui' = FoldLeft(Listener, u, s.events)
     /\ net' = [net EXCEPT ![i] = FoldLeft(Serve, told, s.out)]

Callback(i, s, u) == Received(i, s, u, net[i].wire)

\* connect(): a session with the password it is given, on one of the servers.
NewConnection(u, password) ==
  /\ Len(rfb) < Len(plan)
  /\ u.cur = NONE
  /\ LET v == [HideStatus(u) EXCEPT !.panel = "none", !.dlg = FALSE,
                                    !.password = password,
                                    !.cur = Len(rfb) + 1]
     IN ui' = UpdateVisualState(v, "connecting")
  /\ rfb' = Append(rfb, SetViewOnly(NewSession(password), u.viewOnly))
  /\ LET server == plan[Len(rfb) + 1]
     IN net' = Append(net, [server |-> server, sent |-> 0,
                            wire |-> <<Msg("version", server.greets)>>,
                            down |-> {}, refused |-> FALSE, noisy |-> FALSE])

Connect_ ==
  /\ ui.dlg /\ ~Covered
  /\ NewConnection(ui, WantsPassword)
  /\ UNCHANGED clicks

\* reconnect, the callback of the reconnect timer.
Reconnect ==
  /\ ui.reconnect
  /\ LET u == [ui EXCEPT !.reconnect = FALSE]
     IN IF u.inhibit THEN ui' = u /\ UNCHANGED <<rfb, net>>
        ELSE NewConnection(u, u.password)
  /\ UNCHANGED clicks

-----------------------------------------------------------------------------
(* Clicks.                                                                 *)

Click == clicks > 0 /\ clicks' = clicks - 1

\* The bar's buttons: pressing one also keeps the bar from closing.
Pressed == [ui EXCEPT !.barTimer = FALSE]
BarButton == Click /\ ui.bar /\ ~Covered

ClickDisconnect ==
  /\ BarButton
  /\ ui.visual = "connected"
  /\ LET u == [Pressed EXCEPT !.panel = "none", !.connected = FALSE,
                              !.inhibit = TRUE]
     IN Callback(ui.cur, Disconnect(rfb[ui.cur]),
                 UpdateVisualState(u, "disconnecting"))

CancelReconnect ==
  /\ Click
  /\ ui.visual = "reconnecting"
  /\ LET u == UpdateVisualState([ui EXCEPT !.reconnect = FALSE], "disconnected")
     IN ui' = [u EXCEPT !.bar = TRUE, !.dlg = TRUE]
  /\ UNCHANGED <<rfb, net>>

\* setPassword; an empty password is no password, and without a session the
\* handler throws before it does anything.
SetPassword ==
  /\ Click
  /\ ui.ask
  /\ IF ui.cur = NONE THEN UNCHANGED <<ui, rfb, net>>
     ELSE \E given \in BOOLEAN :
            Callback(ui.cur, SendCredentials(rfb[ui.cur], given),
                     [ui EXCEPT !.password = given, !.ask = FALSE])

\* The status goes away when it is clicked.
ClickStatus ==
  /\ Click
  /\ ui.status.kind # "none"
  /\ ui' = HideStatus(ui)
  /\ UNCHANGED <<rfb, net>>

\* The panels' buttons: the settings are always there, the others need a
\* connection, and the keys one that is not view only.
ClickPanel ==
  /\ BarButton
  /\ \E p \in {"settings", "power", "keys"} :
       /\ p # "settings" => ui.visual = "connected"
       /\ p = "power" => ui.power
       /\ p = "keys" => ~rfb[ui.cur].viewOnly
       /\ ui' = TogglePanel(Pressed, p)
  /\ UNCHANGED <<rfb, net>>

\* updateViewOnly, when the setting changes: it does not look at the power
\* button, nor at an open panel.
ClickViewOnly ==
  /\ BarButton
  /\ ui.panel = "settings"
  /\ LET u == [Pressed EXCEPT !.viewOnly = ~@]
     IN IF ui.cur = NONE THEN ui' = u /\ UNCHANGED <<rfb, net>>
        ELSE Callback(ui.cur, SetViewOnly(rfb[ui.cur], u.viewOnly), u)

\* Mutant: the button is released and the key is not.
ClickModifierNoUp ==
  /\ BarButton
  /\ ui.panel = "keys" /\ ui.visual = "connected"
  /\ \E m \in Modifiers :
       IF m \in ui.mods
       THEN ui' = [Pressed EXCEPT !.mods = @ \ {m}] /\ UNCHANGED <<rfb, net>>
       ELSE Callback(ui.cur, SendKey(rfb[ui.cur], m, TRUE),
                     [Pressed EXCEPT !.mods = @ \cup {m}])

\* toggleCtrl, toggleWindows, toggleAlt.
ClickModifier ==
  /\ BarButton
  /\ ui.panel = "keys" /\ ui.visual = "connected"
  /\ \E m \in Modifiers :
       LET on == m \notin ui.mods
       IN Callback(ui.cur, SendKey(rfb[ui.cur], m, on),
                   [Pressed EXCEPT !.mods = IF on THEN @ \cup {m}
                                                  ELSE @ \ {m}])

\* The page's own sendCtrlAltDel does not look at the buttons of the keys.
ClickCtrlAltDel ==
  /\ BarButton
  /\ ui.panel = "keys" /\ ui.visual = "connected"
  /\ Callback(ui.cur, SendCtrlAltDel(rfb[ui.cur]), Pressed)

\* machineShutdown, machineReboot and machineReset.
ClickPower ==
  /\ BarButton
  /\ ui.panel = "power"
  /\ Callback(ui.cur, XvpOp(rfb[ui.cur]), Pressed)

\* The handle of the bar, shown on a connected page.
ClickHandle ==
  /\ Click
  /\ ui.visual = "connected"
  /\ LET u == Pressed
     IN ui' = IF u.bar THEN CloseControlbar(u) ELSE [u EXCEPT !.bar = TRUE]
  /\ UNCHANGED <<rfb, net>>

User ==
  \/ Connect_ \/ ClickDisconnect \/ CancelReconnect \/ SetPassword
  \/ ClickStatus \/ ClickPanel \/ ClickViewOnly \/ ClickModifier
  \/ ClickCtrlAltDel \/ ClickPower \/ ClickHandle

-----------------------------------------------------------------------------
(* Timers.                                                                 *)

StatusTimeout ==
  /\ ui.hide
  /\ ui' = HideStatus(ui)
  /\ UNCHANGED <<rfb, net, clicks>>

ControlbarTimeout ==
  /\ ui.barTimer
  /\ ui' = CloseControlbar([ui EXCEPT !.barTimer = FALSE])
  /\ UNCHANGED <<rfb, net, clicks>>

StartTimeout(i) ==
  /\ rfb[i].start
  /\ \E refuses \in Refusals : Callback(i, Connect(rfb[i], ~refuses), ui)
  /\ UNCHANGED clicks

DisconnTimeout(i) ==
  /\ rfb[i].timer
  /\ Callback(i, DisconnectTimeout(rfb[i]), ui)
  /\ UNCHANGED clicks

RetryTimeout(i) ==
  /\ rfb[i].retry
  /\ \E enough \in BOOLEAN :
       Callback(i, CredentialsTimeout(rfb[i], enough), ui)
  /\ UNCHANGED clicks

-----------------------------------------------------------------------------
(* The socket, the server and the display.                                 *)

SocketOpens(i) ==
  /\ rfb[i].sock = "opening"
  /\ Callback(i, OnOpen(rfb[i]), ui)
  /\ UNCHANGED clicks

\* What a server sends unasked, once the session is set up.
ServerSends(i) ==
  /\ rfb[i].init = "ServerInitialisation" /\ rfb[i].sock = "open"
  /\ net[i].sent < MaxMessages
  /\ \E m \in net[i].server.sends :
       net' = [net EXCEPT ![i].wire = Append(@, m), ![i].sent = @ + 1]
  /\ UNCHANGED <<ui, rfb, clicks>>

\* A frame ends a message that had arrived in part, if there is one, and
\* brings n more, the last of them perhaps in part.
SocketReceives(i) ==
  /\ rfb[i].sock = "open"
  /\ \E n \in 0 .. Len(net[i].wire), partial, enough \in BOOLEAN :
       /\ n = 0 => rfb[i].short /\ ~partial
       /\ LET s == OnMessage(rfb[i], SubSeq(net[i].wire, 1, n), partial, enough)
              rest == SubSeq(net[i].wire, n + 1, Len(net[i].wire))
          IN Received(i, s, ui, rest)
  /\ UNCHANGED clicks

\* The server, the proxy or the network ends the connection, or answers the
\* session's own close.
SocketCloses(i) ==
  /\ rfb[i].sock \in {"opening", "open", "closing"}
  /\ Callback(i, OnClose(rfb[i]), ui)
  /\ UNCHANGED clicks

\* The images of an update have been decoded and drawn.
DisplayFlushes(i) ==
  /\ rfb[i].pending
  /\ \E enough \in BOOLEAN : Callback(i, OnFlush(rfb[i], enough), ui)
  /\ UNCHANGED clicks

Timers(i) == StartTimeout(i) \/ DisconnTimeout(i) \/ RetryTimeout(i)
Network(i) == SocketOpens(i) \/ ServerSends(i) \/ SocketReceives(i)
              \/ SocketCloses(i) \/ DisplayFlushes(i)

Init ==
  /\ \E reconnect, viewOnly \in BOOLEAN :
       ui = [cur |-> NONE, connected |-> FALSE, inhibit |-> TRUE,
             reconnect |-> FALSE, password |-> FALSE,
             wantsReconnect |-> reconnect, viewOnly |-> viewOnly,
             visual |-> "init", dlg |-> TRUE, ask |-> FALSE,
             status |-> [kind |-> "none", text |-> ""], hide |-> FALSE,
             bar |-> TRUE, barTimer |-> FALSE, panel |-> "none",
             power |-> FALSE, mods |-> {}]
  /\ rfb = <<>> /\ net = <<>>
  /\ plan \in Plans
  /\ clicks = MaxClicks

Next ==
  /\ \/ User \/ Reconnect \/ StatusTimeout \/ ControlbarTimeout
     \/ \E i \in Ids : Timers(i) \/ Network(i)
  /\ UNCHANGED plan

Spec == Init /\ [][Next]_vars

\* The browser runs every timer that is set.  Nothing is assumed of the
\* socket, the server or the user.
FairSpec ==
  /\ Spec
  /\ WF_vars(Reconnect /\ UNCHANGED plan)
  /\ \A i \in 1 .. MaxSessions :
       WF_vars(i \in Ids /\ Timers(i) /\ UNCHANGED plan)

-----------------------------------------------------------------------------
(* Properties.                                                             *)

\* There is never more than one live session, and it is the one the page
\* holds: the page shows "connected" exactly when that session is, and asks
\* for a password only for a session that is being set up.
OneSession ==
  /\ \A i \in Ids : i # ui.cur => rfb[i].conn = "disconnected"
  /\ ui.cur # NONE => rfb[ui.cur].conn # "disconnected"
  /\ ui.connected <=> (ui.cur # NONE /\ rfb[ui.cur].conn = "connected")
  /\ ui.ask => \/ ui.cur # NONE /\ rfb[ui.cur].conn = "connecting"
               \/ \E i \in Ids : net[i].noisy
  /\ ui.reconnect => ui.cur = NONE /\ ui.visual = "reconnecting"

\* While a session is being set up it does not sit on a whole message of the
\* server: it waits for the user's password, or for the timer that goes on
\* with one.  The exception is a Tight server without authentication, whose
\* security result may come in the same frame as the empty list before it:
\* _handle_message makes one step only, and nothing more will come.
HandshakeGoesOn ==
  \A i \in Ids :
    (rfb[i].conn = "connecting" /\ rfb[i].sock = "open" /\ Whole(rfb[i]))
      => \/ ui.ask \/ rfb[i].retry
         \/ rfb[i].init = "SecurityResult" /\ rfb[i].scheme = "tight"

\* A disconnected session has no timer and no open socket.  It stays on the
\* page only when its socket could not be opened (_connect goes on after the
\* failure).  It tells the page something after 'disconnect' only when it did
\* not end cleanly: when it failed for an illegal message and read on, or when
\* the timer of a password comes after its end; or when a password went to it
\* that an earlier session had made the page ask for in this way.  And it keeps
\* the keyboard only when it is one of those, or when the images of an update
\* were still being drawn as the user disconnected (_onFlush then reads the rest
\* of the queue as a ServerInit).
LeftoversExplained ==
  \A i \in Ids : LET s == rfb[i] IN
    s.conn = "disconnected" =>
      /\ ~s.timer /\ s.sock \notin {"opening", "open"}
      /\ s.screen => s.sock = "none" /\ ~s.clean
      /\ s.grabbed => "open" \notin s.hears \/ net[i].noisy
      /\ net[i].noisy => ~s.clean \/ \E j \in 1 .. i - 1 : net[j].noisy

\* Sessions do not get into each other's way.
SessionsApart == OneSession /\ LeftoversExplained

\* What the page says is why the connection ended: a server's refusal is not
\* covered up by the failure that follows from it, unless the session read it only
\* after its end.
RefusalShown ==
  (ui.status.text = "failed" /\ rfb # <<>>)
    => ~Last(net).refused \/ Last(net).noisy

\* The key buttons and the guest stay in step within a connection: a button
\* that looks pressed is a key that is down.  They part when the session is
\* view only (the button turns, nothing is sent), when Ctrl-Alt-Del releases a
\* key that a button holds, and a page that reconnects still shows as pressed
\* what was pressed in the connection before.
KeysAgree == ui.connected => ui.mods = net[ui.cur].down
KeysInStep ==
  [][KeysAgree /\ ~KeysAgree' =>
       \/ ~ui.connected \/ rfb[ui.cur].viewOnly
       \/ ClickCtrlAltDel /\ ui.mods # {}]_vars

\* Disconnecting ends, whatever the socket does: the session is given up and
\* the user can connect again.
DisconnectEnds ==
  \A i \in 1 .. MaxSessions :
    (i \in Ids /\ rfb[i].conn = "disconnecting")
      ~> (i \in Ids /\ rfb[i].conn = "disconnected" /\ ui.cur # i)
=============================================================================
