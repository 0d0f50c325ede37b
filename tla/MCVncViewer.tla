---------------------------- MODULE MCVncViewer -----------------------------
(* The servers the sessions of a behaviour meet, and the bounds on user and *)
(* server, for TLC.                                                         *)
EXTENDS VncViewer

\* A server: how it greets, its version, the types it offers, its tunnels and
\* sub-authentications (Tight), how the login goes and what it sends later.
Server(greets, version, types, login, sends) ==
  [greets |-> greets, version |-> version, types |-> types, login |-> login,
   tunnels |-> {}, subauth |-> {}, sends |-> sends]
Tight(tunnels, subauth) ==
  [Server(38, 38, {"tight"}, "ok", {}) EXCEPT !.tunnels = tunnels,
                                             !.subauth = subauth]

Updates == {Msg("fbu", TRUE), Msg("fbu", FALSE)}
Extras == {Msg("xvp", "init"), Msg("bell", ""), Msg("illegal", "")}

Oddities == {Msg("cuttext", ""), Msg("fence", "request"), Msg("fence", "answer"),
             Msg("colourmap", ""), Msg("xvp", "fail"), Msg("xvp", "bad")}

Drawing == Server(38, 38, {"none", "vnc"}, "ok", Updates)
Talking == Server(37, 37, {"none"}, "ok", Extras)
Quiet == Server(33, 33, {"none"}, "ok", {})

Handshakes ==
  {Server(38, 38, {"vnc"}, "denied", {}),
   Server(33, 33, {"vnc"}, "ok", {}),
   Server(Repeater, 33, {"none"}, "ok", {}),
   Server(33, 33, {"invalid"}, "ok", {}),
   Server(38, 38, {"xvp"}, "ok", {}),
   Server(38, 38, {"ultra"}, "ok", {}),
   Server(38, 38, {}, "ok", {}),
   Server(Unknown, 38, {}, "ok", {}),
   Tight({}, {}), Tight({"notunnel"}, {"noauth"}), Tight({}, {"vncauth"}),
   Tight({"other"}, {}), Tight({}, {"other"}),
   Server(33, 33, {"none"}, "ok", Oddities)}

\* Each handshake by itself, and a connection that is made again: after the
\* first session's power button, and after the first session's timer has come
\* too late and made the page ask for a password that goes to the second, which
\* is drawing when it ends, or has a refusal waiting that nothing made it read.
Asking == Server(38, 38, {"vnc"}, "ok", {})
MCPlans ==
  {<<s>> : s \in Handshakes \cup {Drawing}} \cup
  {<<Talking, Quiet>>, <<Asking, Drawing>>,
   <<Asking, [Tight({}, {}) EXCEPT !.login = "denied"]>>}

MCRefusals == {FALSE, TRUE}
=============================================================================
