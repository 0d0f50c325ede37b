-------------------------- MODULE VncViewerProofs ---------------------------
(***************************************************************************)
(* Proofs about VncViewer, for any servers that follow the protocol, any   *)
(* number of sessions, clicks and messages, and messages that arrive in    *)
(* pieces of any size.                                                     *)
(*                                                                         *)
(* The inductive invariant says of each session what it may look like in   *)
(* its connection state; of one that is being set up, which part of the    *)
(* server's answers has arrived and which is under way (Stage); of the     *)
(* page, that it shows the state of the session it holds; and who may      *)
(* still have a password on its way.  A callback goes through several      *)
(* stages of the handshake and tells the page and the server several       *)
(* things, so the lemmas say of each method of RFB what it makes of a      *)
(* session that is being set up (...Outcome), that is connected (...Lives, *)
(* ...Falls) and that has ended (Still...), with what the page and the     *)
(* server have become by then.                                             *)
(***************************************************************************)
EXTENDS VncViewer, SequenceTheorems, TLAPS

Told == INSTANCE SubsequencesProofs WITH Op <- Listener
Asked == INSTANCE SubsequencesProofs WITH Op <- Serve
Drained == INSTANCE SubsequencesProofs WITH Op <- DrainStep
Typed == INSTANCE SubsequencesProofs WITH Op <- SendKeyOf

\* An instance of a module has its own name for the library's fold.
LEMMA SameFold ==
  ASSUME NEW b, NEW q
  PROVE /\ FoldLeft(Listener, b, q) = Told!FoldLeft(Listener, b, q)
        /\ FoldLeft(Serve, b, q) = Asked!FoldLeft(Serve, b, q)
        /\ FoldLeft(DrainStep, b, q) = Drained!FoldLeft(DrainStep, b, q)
        /\ FoldLeft(SendKeyOf, b, q) = Typed!FoldLeft(SendKeyOf, b, q)
  <1>1. FoldLeft(Listener, b, q) = Told!FoldLeft(Listener, b, q)
    BY DEF FoldLeft, Told!FoldLeft, MapThenFoldSet, Told!MapThenFoldSet, Max, Told!Max
  <1>2. FoldLeft(Serve, b, q) = Asked!FoldLeft(Serve, b, q)
    BY DEF FoldLeft, Asked!FoldLeft, MapThenFoldSet, Asked!MapThenFoldSet, Max, Asked!Max
  <1>3. FoldLeft(DrainStep, b, q) = Drained!FoldLeft(DrainStep, b, q)
    BY DEF FoldLeft, Drained!FoldLeft, MapThenFoldSet, Drained!MapThenFoldSet, Max, Drained!Max
  <1>4. FoldLeft(SendKeyOf, b, q) = Typed!FoldLeft(SendKeyOf, b, q)
    BY DEF FoldLeft, Typed!FoldLeft, MapThenFoldSet, Typed!MapThenFoldSet, Max, Typed!Max
  <1>5. QED
    BY <1>1, <1>2, <1>3, <1>4

-----------------------------------------------------------------------------
(* Lists of whatever.                                                      *)

IsList(q) == \E S : q \in Seq(S)

LEMMA ListEmpty == IsList(<<>>)
  <1>1. <<>> \in Seq({})
    OBVIOUS
  <1>2. QED
    BY <1>1 DEF IsList

LEMMA ListAppend ==
  ASSUME NEW q, IsList(q), NEW e
  PROVE /\ IsList(Append(q, e)) /\ Append(q, e) # <<>>
        /\ Len(q) \in Nat /\ Len(Append(q, e)) = Len(q) + 1
        /\ \A k \in 1 .. Len(q) : Append(q, e)[k] = q[k]
        /\ Append(q, e)[Len(q) + 1] = e
        /\ Last(Append(q, e)) = e
        /\ DOMAIN q = 1 .. Len(q) /\ DOMAIN Append(q, e) = 1 .. Len(q) + 1
  <1>1. PICK S : q \in Seq(S)
    BY DEF IsList
  <1>2. q \in Seq(S \cup {e}) /\ e \in S \cup {e}
    BY <1>1, SeqMonotonic, S \subseteq S \cup {e}
  <1>3. Append(q, e) \in Seq(S \cup {e}) /\ Len(q) \in Nat
    BY <1>2, AppendProperties
  <1>4. QED
    BY <1>2, <1>3, AppendProperties DEF IsList, Last

\* One list after the other; the provers do better with a name for it.
Join(q, r) == q \o r

LEMMA ListConcat ==
  ASSUME NEW q, NEW r, IsList(q), IsList(r)
  PROVE IsList(q \o r) /\ IsList(Join(q, r))
  <1>1. PICK S, T : q \in Seq(S) /\ r \in Seq(T)
    BY DEF IsList
  <1>2. q \in Seq(S \cup T) /\ r \in Seq(S \cup T)
    BY <1>1, SeqMonotonic, S \subseteq S \cup T, T \subseteq S \cup T
  <1>3. q \o r \in Seq(S \cup T)
    BY <1>2, ConcatProperties
  <1>4. QED
    BY <1>3 DEF IsList, Join

\* Lists written down.
LEMMA ListSmall ==
  ASSUME NEW a, NEW b
  PROVE /\ IsList(<<a>>) /\ IsList(<<a, b>>)
        /\ <<a>> \o <<>> = <<a>> /\ <<>> \o <<a>> = <<a>>
        /\ <<a>> \o <<b>> = <<a, b>>
  <1>1. <<a>> \in Seq({a, b}) /\ <<b>> \in Seq({a, b}) /\ <<a, b>> \in Seq({a, b})
    OBVIOUS
  <1>2. <<a>> \o <<>> = <<a>> /\ <<>> \o <<a>> = <<a>>
    BY <1>1, ConcatEmptySeq
  <1>3. <<a>> \o <<b>> = <<a, b>>
    <2> DEFINE c == <<a>> \o <<b>>
    <2>1. /\ c \in Seq({a, b}) /\ Len(c) = 2
          /\ c[1] = a /\ c[2] = b
      BY <1>1, ConcatProperties
    <2>2. Len(<<a, b>>) = 2 /\ <<a, b>>[1] = a /\ <<a, b>>[2] = b
      OBVIOUS
    <2> HIDE DEF c
    <2>3. \A i \in 1 .. Len(c) : c[i] = <<a, b>>[i]
      BY <2>1, <2>2
    <2>4. c = <<a, b>>
      BY <1>1, <2>1, <2>2, <2>3, SeqEqual
    <2>5. QED
      BY <2>4 DEF c
  <1>4. QED
    BY <1>1, <1>2, <1>3 DEF IsList

LEMMA ListHeads ==
  ASSUME NEW a, NEW b
  PROVE /\ <<a>> # <<>> /\ Head(<<a>>) = a /\ Tail(<<a>>) = <<>>
        /\ <<a, b>> # <<>> /\ Head(<<a, b>>) = a /\ Tail(<<a, b>>) = <<b>>
  <1>1. <<a>> \in Seq({a, b}) /\ <<b>> \in Seq({a, b}) /\ <<a, b>> \in Seq({a, b})
    OBVIOUS
  <1>2. <<a>> # <<>> /\ Head(<<a>>) = a /\ <<a, b>> # <<>> /\ Head(<<a, b>>) = a
    OBVIOUS
  <1> DEFINE c == Tail(<<a, b>>)
             d == Tail(<<a>>)
  <1>3. c \in Seq({a, b}) /\ Len(c) = 1 /\ c[1] = b
    BY <1>1, <1>2, HeadTailProperties
  <1>4. d \in Seq({a, b}) /\ Len(d) = 0
    BY <1>1, <1>2, HeadTailProperties
  <1> HIDE DEF c, d
  <1>5. c = <<b>>
    <2>1. Len(<<b>>) = 1 /\ <<b>>[1] = b
      OBVIOUS
    <2>2. \A i \in 1 .. Len(c) : c[i] = <<b>>[i]
      BY <1>3, <2>1
    <2>3. QED
      BY <1>1, <1>3, <2>1, <2>2, SeqEqual
  <1>6. d = <<>>
    BY <1>4
  <1>7. QED
    BY <1>2, <1>5, <1>6 DEF c, d

LEMMA ListTail ==
  ASSUME NEW q, IsList(q), q # <<>>
  PROVE IsList(Tail(q)) /\ Len(q) \in Nat /\ Len(Tail(q)) = Len(q) - 1
  <1>1. PICK S : q \in Seq(S)
    BY DEF IsList
  <1>2. QED
    BY <1>1, HeadTailProperties DEF IsList

LEMMA ListExcept ==
  ASSUME NEW q, IsList(q), NEW i \in 1 .. Len(q), NEW e
  PROVE /\ IsList([q EXCEPT ![i] = e]) /\ Len([q EXCEPT ![i] = e]) = Len(q)
        /\ Len(q) \in Nat
        /\ \A j \in 1 .. Len(q) : [q EXCEPT ![i] = e][j] = IF j = i THEN e ELSE q[j]
  <1>1. PICK S : q \in Seq(S)
    BY DEF IsList
  <1>2. q \in Seq(S \cup {e}) /\ e \in S \cup {e}
    BY <1>1, SeqMonotonic, S \subseteq S \cup {e}
  <1>3. QED
    BY <1>2, ExceptSeq DEF IsList

-----------------------------------------------------------------------------
(* What the page makes of a callback's events, and the server of what it   *)
(* sent.                                                                   *)

Fields ==
  {"conn", "init", "version", "scheme", "tight", "password", "clean",
   "viewOnly", "hears", "sock", "start", "timer", "retry", "screen",
   "grabbed", "power", "rq", "short", "pending", "flushing", "events", "out"}
NetFields == {"server", "sent", "wire", "down", "refused", "noisy"}

Tell(u, s) == FoldLeft(Listener, u, s.events)
Ask(n, s) == FoldLeft(Serve, n, s.out)
Rejects(s) == \E k \in DOMAIN s.events : s.events[k][1] = "securityfailure"

Lists(s) == IsList(s.events) /\ IsList(s.out)

\* The queues of a callback that starts.
LEMMA Silent ==
  ASSUME NEW s, NEW u, NEW n, s.events = <<>>, s.out = <<>>
  PROVE Tell(u, s) = u /\ Ask(n, s) = n /\ ~Rejects(s) /\ Lists(s)
  BY ListEmpty, SameFold, Told!FoldEmpty, Asked!FoldEmpty DEF Tell, Ask, Rejects, Lists

\* An event is one more for the page.
LEMMA TellEmit ==
  ASSUME NEW s, DOMAIN s = Fields, Lists(s), NEW e, NEW u
  PROVE /\ Tell(u, Emit(s, e)) = Listener(Tell(u, s), e)
        /\ Rejects(Emit(s, e)) <=> Rejects(s) \/ e[1] = "securityfailure"
        /\ Emit(s, e).events # <<>> /\ Last(Emit(s, e).events) = e
        /\ Lists(Emit(s, e))
  <1>1. PICK S : s.events \in Seq(S)
    BY DEF Lists, IsList
  <1>2. s.events \in Seq(S \cup {e}) /\ e \in S \cup {e}
    BY <1>1, SeqMonotonic, S \subseteq S \cup {e}
  <1>3. Emit(s, e).events = Append(s.events, e) /\ Emit(s, e).out = s.out
    BY DEF Emit, Fields
  <1>4. FoldLeft(Listener, u, Append(s.events, e)) = Listener(FoldLeft(Listener, u, s.events), e)
    <2>1. Told!FoldLeft(Listener, u, Append(s.events, e)) = Listener(Told!FoldLeft(Listener, u, s.events), e)
      BY <1>2, Told!FoldAppend
    <2>2. QED
      BY <2>1, SameFold
  <1>5. Tell(u, Emit(s, e)) = Listener(Tell(u, s), e)
    BY <1>3, <1>4 DEF Tell
  <1>6. Rejects(Emit(s, e)) <=> Rejects(s) \/ e[1] = "securityfailure"
    BY <1>3, ListAppend DEF Rejects, Lists
  <1>7. QED
    BY <1>3, <1>5, <1>6, ListAppend DEF Lists

\* A message that is sent is one more for the server.
LEMMA AskSend ==
  ASSUME NEW s, DOMAIN s = Fields, Lists(s), s.sock = "open", NEW m, NEW n
  PROVE /\ Ask(n, Send(s, m)) = Serve(Ask(n, s), m)
        /\ Lists(Send(s, m))
  <1>1. PICK S : s.out \in Seq(S)
    BY DEF Lists, IsList
  <1>2. s.out \in Seq(S \cup {m}) /\ m \in S \cup {m}
    BY <1>1, SeqMonotonic, S \subseteq S \cup {m}
  <1>3. Send(s, m).out = Append(s.out, m) /\ Send(s, m).events = s.events
    BY DEF Send, Fields
  <1>4. FoldLeft(Serve, n, Append(s.out, m)) = Serve(FoldLeft(Serve, n, s.out), m)
    <2>1. Asked!FoldLeft(Serve, n, Append(s.out, m)) = Serve(Asked!FoldLeft(Serve, n, s.out), m)
      BY <1>2, Asked!FoldAppend
    <2>2. QED
      BY <2>1, SameFold
  <1>5. QED
    BY <1>3, <1>4, ListAppend DEF Ask, Lists

\* What is told depends on the queues alone.
LEMMA SameQueues ==
  ASSUME NEW s, NEW t, t.events = s.events, t.out = s.out
  PROVE /\ \A u : Tell(u, t) = Tell(u, s)
        /\ \A n : Ask(n, t) = Ask(n, s)
        /\ Rejects(t) <=> Rejects(s)
        /\ Lists(t) <=> Lists(s)
  BY DEF Tell, Ask, Rejects, Lists

-----------------------------------------------------------------------------
(* The connection state.                                                   *)

Hearing == {"open", "message", "close"}

\* r is s after its end.
Gone(s, r) ==
  /\ DOMAIN r = Fields /\ Lists(r)
  /\ r.conn = "disconnected" /\ ~r.timer
  /\ r.sock \notin {"opening", "open"} /\ "message" \notin r.hears
  /\ r.hears \subseteq s.hears /\ r.retry = s.retry

Ended(s, r, clean) ==
  /\ Gone(s, r) /\ r.init = s.init
  /\ ~r.screen /\ ~r.grabbed /\ r.clean = clean
  /\ r.events # <<>> /\ Last(r.events)[1] = "disconnect"
  /\ Rejects(r) <=> Rejects(s)
  /\ \A n : Ask(n, r) = Ask(n, s)
  /\ \A u : Tell(u, r) = DisconnectFinished(Tell(u, s), clean)

\* _updateConnectionState to 'disconnecting' and to 'disconnected'.
LEMMA MoveDown ==
  ASSUME NEW s, DOMAIN s = Fields, s.conn \in {"connecting", "connected"}
  PROVE LET r == Move(s, "disconnecting")
        IN /\ DOMAIN r = Fields /\ r.conn = "disconnecting" /\ r.timer
           /\ ~r.screen /\ ~r.grabbed /\ r.sock \notin {"opening", "open"}
           /\ r.hears = s.hears \ {"message"}
           /\ r.init = s.init /\ r.retry = s.retry /\ r.clean = s.clean
           /\ r.events = s.events /\ r.out = s.out
  <1>1. <<s.conn, "disconnecting">> \in Transitions
    BY DEF Transitions
  <1> DEFINE t == Enter(s, "disconnecting")
  <1>2. Move(s, "disconnecting") = [Teardown(t) EXCEPT !.timer = TRUE]
    BY <1>1 DEF Move
  <1>3. /\ DOMAIN t = Fields /\ t.conn = "disconnecting" /\ t.sock = s.sock
        /\ t.hears = s.hears /\ t.init = s.init /\ t.retry = s.retry
        /\ t.clean = s.clean /\ t.events = s.events /\ t.out = s.out
    BY DEF Enter, Fields
  <1> HIDE DEF t
  <1>4. QED
    BY <1>2, <1>3 DEF Teardown, Fields

\* _updateConnectionState from 'disconnecting' to 'disconnected'.
LEMMA MoveOut ==
  ASSUME NEW s, DOMAIN s = Fields, Lists(s), s.conn = "disconnecting"
  PROVE LET r == Move(s, "disconnected")
        IN /\ DOMAIN r = Fields /\ Lists(r)
           /\ r.conn = "disconnected" /\ ~r.timer
           /\ r.screen = s.screen /\ r.grabbed = s.grabbed /\ r.sock = s.sock
           /\ r.hears = IF s.timer THEN s.hears \ {"close"} ELSE s.hears
           /\ r.init = s.init /\ r.retry = s.retry /\ r.clean = s.clean
           /\ r.events # <<>> /\ Last(r.events)[1] = "disconnect"
           /\ Rejects(r) <=> Rejects(s)
           /\ \A n : Ask(n, r) = Ask(n, s)
           /\ \A u : Tell(u, r) = DisconnectFinished(Tell(u, s), s.clean)
  <1>1. <<s.conn, "disconnected">> \in Transitions
    BY DEF Transitions
  <1> DEFINE t == Enter(s, "disconnected")
             e == <<"disconnect", t.clean>>
  <1>2. Move(s, "disconnected") = Emit(t, e)
    BY <1>1 DEF Move
  <1>3. /\ DOMAIN t = Fields /\ t.conn = "disconnected" /\ t.sock = s.sock
        /\ t.hears = IF s.timer THEN s.hears \ {"close"} ELSE s.hears
        /\ t.init = s.init /\ t.retry = s.retry /\ ~t.timer
        /\ t.screen = s.screen /\ t.grabbed = s.grabbed
        /\ t.clean = s.clean /\ t.events = s.events /\ t.out = s.out
    BY DEF Enter, Fields
  <1>4. /\ \A u : Tell(u, t) = Tell(u, s)
        /\ \A n : Ask(n, t) = Ask(n, s)
        /\ Rejects(t) <=> Rejects(s)
        /\ Lists(t)
    BY <1>3, SameQueues
  <1> HIDE DEF t
  <1> DEFINE r == Emit(t, e)
  <1>5. /\ DOMAIN r = Fields /\ r.conn = t.conn /\ r.sock = t.sock /\ r.hears = t.hears
        /\ r.init = t.init /\ r.retry = t.retry /\ (r.timer <=> t.timer)
        /\ r.screen = t.screen /\ r.grabbed = t.grabbed /\ r.clean = t.clean
        /\ r.out = t.out
    BY <1>3 DEF Emit, Fields
  <1>6. e[1] = "disconnect" /\ \A v : Listener(v, e) = DisconnectFinished(v, s.clean)
    BY <1>3 DEF Listener
  <1> HIDE DEF e
  <1>7. /\ \A u : Tell(u, r) = Listener(Tell(u, t), e)
        /\ Rejects(r) <=> Rejects(t)
        /\ r.events # <<>> /\ Last(r.events) = e /\ Lists(r)
    BY <1>3, <1>4, <1>6, TellEmit
  <1>8. \A n : Ask(n, r) = Ask(n, t)
    BY <1>5 DEF Ask
  <1>9. r.events # <<>> /\ Last(r.events)[1] = "disconnect"
    BY <1>6, <1>7
  <1> HIDE DEF r
  <1>10. QED
    BY <1>2, <1>3, <1>4, <1>5, <1>6, <1>7, <1>8, <1>9 DEF r, e

\* Both at once, as when the socket closes.
LEMMA MoveEnds ==
  ASSUME NEW s, DOMAIN s = Fields, Lists(s),
         s.conn \in {"connecting", "connected"}
  PROVE Ended(s, Move(Move(s, "disconnecting"), "disconnected"), s.clean)
  <1> DEFINE t == Move(s, "disconnecting")
             r == Move(t, "disconnected")
  <1>1. /\ DOMAIN t = Fields /\ t.conn = "disconnecting" /\ t.timer
        /\ ~t.screen /\ ~t.grabbed /\ t.sock \notin {"opening", "open"}
        /\ t.hears = s.hears \ {"message"}
        /\ t.init = s.init /\ t.retry = s.retry /\ t.clean = s.clean
        /\ t.events = s.events /\ t.out = s.out
    BY MoveDown
  <1>2. /\ \A u : Tell(u, t) = Tell(u, s)
        /\ \A n : Ask(n, t) = Ask(n, s)
        /\ Rejects(t) <=> Rejects(s)
        /\ Lists(t)
    BY <1>1, SameQueues
  <1> HIDE DEF t
  <1>3. /\ DOMAIN r = Fields /\ Lists(r)
        /\ r.conn = "disconnected" /\ ~r.timer
        /\ r.screen = t.screen /\ r.grabbed = t.grabbed /\ r.sock = t.sock
        /\ r.hears = IF t.timer THEN t.hears \ {"close"} ELSE t.hears
        /\ r.init = t.init /\ r.retry = t.retry /\ r.clean = t.clean
        /\ r.events # <<>> /\ Last(r.events)[1] = "disconnect"
        /\ Rejects(r) <=> Rejects(t)
        /\ \A n : Ask(n, r) = Ask(n, t)
        /\ \A u : Tell(u, r) = DisconnectFinished(Tell(u, t), t.clean)
    BY <1>1, <1>2, MoveOut
  <1> HIDE DEF r
  <1>4. QED
    BY <1>1, <1>2, <1>3 DEF Ended, Gone, r, t

\* _fail of a session that lives.
LEMMA FailEnds ==
  ASSUME NEW s, DOMAIN s = Fields, Lists(s),
         s.conn \in {"connecting", "connected"}
  PROVE Ended(s, Fail(s), FALSE)
  <1> DEFINE t == [s EXCEPT !.clean = FALSE]
             r == Move(Move(t, "disconnecting"), "disconnected")
  <1>1. /\ DOMAIN t = Fields /\ t.conn = s.conn /\ t.hears = s.hears
        /\ t.init = s.init /\ t.retry = s.retry /\ t.clean = FALSE
        /\ t.events = s.events /\ t.out = s.out
    BY DEF Fields
  <1>2. /\ \A u : Tell(u, t) = Tell(u, s)
        /\ \A n : Ask(n, t) = Ask(n, s)
        /\ Rejects(t) <=> Rejects(s)
        /\ Lists(t)
    BY <1>1, SameQueues
  <1>3. Fail(s) = r
    BY DEF Fail
  <1> HIDE DEF t
  <1>4. Ended(t, r, t.clean)
    BY <1>1, <1>2, MoveEnds
  <1> HIDE DEF r
  <1>5. QED
    BY <1>1, <1>2, <1>3, <1>4 DEF Ended, Gone

\* Where there is nothing to end, only the cleanness is lost.
LEMMA FailIdle ==
  ASSUME NEW s, DOMAIN s = Fields, s.conn \in {"", "disconnected"}
  PROVE Fail(s) = [s EXCEPT !.clean = FALSE]
  <1> DEFINE t == [s EXCEPT !.clean = FALSE]
  <1>1. t.conn = s.conn
    BY DEF Fields
  <1>2. <<t.conn, "disconnecting">> \notin Transitions /\ <<t.conn, "disconnected">> \notin Transitions
    BY <1>1 DEF Transitions
  <1> HIDE DEF t
  <1>3. Move(t, "disconnecting") = t /\ Move(t, "disconnected") = t
    BY <1>2 DEF Move
  <1>4. QED
    BY <1>3 DEF Fail, t

-----------------------------------------------------------------------------
(* What has reached a session and what is under way to it.                 *)

\* q has arrived, the last of it perhaps in part, w is under way: together Q.
Fed(q, short, w, Q) ==
  IsList(q) /\ IsList(w) /\ q \o w = Q /\ (q = <<>> => ~short)
Input(s, w, Q) == Fed(s.rq, s.short, w, Q)

\* With nothing to come, nothing is there.
LEMMA FedNone ==
  ASSUME NEW s, NEW w, Input(s, w, <<>>)
  PROVE s.rq = <<>> /\ w = <<>> /\ ~s.short /\ ~Whole(s) /\ Len(s.rq) = 0
  <1>1. PICK S, T : s.rq \in Seq(S) /\ w \in Seq(T)
    BY DEF Input, Fed, IsList
  <1>2. s.rq \in Seq(S \cup T) /\ w \in Seq(S \cup T)
    BY <1>1, SeqMonotonic, S \subseteq S \cup T, T \subseteq S \cup T
  <1>3. s.rq = <<>> /\ w = <<>>
    BY <1>2, ConcatEqualIffEmpty DEF Input, Fed
  <1>4. QED
    BY <1>3 DEF Whole, Input, Fed

LEMMA ConcatTail ==
  ASSUME NEW U, NEW q \in Seq(U), NEW w \in Seq(U), q # <<>>
  PROVE /\ q \o w # <<>> /\ Head(q \o w) = Head(q)
        /\ Tail(q \o w) = Tail(q) \o w
  <1> DEFINE Q == q \o w
             r == Tail(q)
  <1>1. Len(q) \in Nat \ {0} /\ Len(w) \in Nat
    BY EmptySeq
  <1>2. /\ r \in Seq(U) /\ Len(r) = Len(q) - 1
        /\ \A i \in 1 .. Len(r) : r[i] = q[i + 1]
    BY HeadTailProperties
  <1>3. /\ Q \in Seq(U) /\ Len(Q) = Len(q) + Len(w)
        /\ \A i \in 1 .. Len(q) + Len(w) : Q[i] = IF i <= Len(q) THEN q[i] ELSE w[i - Len(q)]
    BY ConcatProperties
  <1>4. /\ r \o w \in Seq(U) /\ Len(r \o w) = Len(r) + Len(w)
        /\ \A i \in 1 .. Len(r) + Len(w) : (r \o w)[i] = IF i <= Len(r) THEN r[i] ELSE w[i - Len(r)]
    BY <1>2, ConcatProperties
  <1> HIDE DEF Q, r
  <1>5. Q # <<>> /\ Head(Q) = Head(q)
    <2>1. Len(Q) > 0 /\ Q[1] = q[1]
      BY <1>1, <1>3
    <2>2. Head(Q) = Q[1] /\ Head(q) = q[1]
      OBVIOUS
    <2>3. QED
      BY <2>1, <2>2
  <1>6. /\ Tail(Q) \in Seq(U) /\ Len(Tail(Q)) = Len(Q) - 1
        /\ \A i \in 1 .. Len(Tail(Q)) : Tail(Q)[i] = Q[i + 1]
    BY <1>3, <1>5, HeadTailProperties
  <1>7. Len(r \o w) = Len(Tail(Q))
    BY <1>1, <1>2, <1>3, <1>4, <1>6
  <1>8. ASSUME NEW i \in 1 .. Len(Tail(Q)) PROVE Tail(Q)[i] = (r \o w)[i]
    <2>1. /\ i \in Nat /\ i \in 1 .. Len(r) + Len(w) /\ i + 1 \in 1 .. Len(q) + Len(w)
          /\ Len(r) = Len(q) - 1 /\ Tail(Q)[i] = Q[i + 1]
      BY <1>1, <1>2, <1>3, <1>6
    <2>2. CASE i <= Len(r)
      <3>1. i \in 1 .. Len(r) /\ i + 1 <= Len(q)
        BY <1>1, <2>1, <2>2
      <3>2. Q[i + 1] = q[i + 1] /\ (r \o w)[i] = r[i] /\ r[i] = q[i + 1]
        BY <1>2, <1>3, <1>4, <2>1, <2>2, <3>1
      <3>3. QED
        BY <2>1, <3>2
    <2>3. CASE ~(i <= Len(r))
      <3>1. ~(i + 1 <= Len(q)) /\ i - Len(r) = (i + 1) - Len(q)
        BY <1>1, <2>1, <2>3
      <3>2. Q[i + 1] = w[(i + 1) - Len(q)] /\ (r \o w)[i] = w[i - Len(r)]
        BY <1>3, <1>4, <2>1, <2>3, <3>1
      <3>3. QED
        BY <2>1, <3>1, <3>2
    <2>4. QED
      BY <2>2, <2>3
  <1>9. Tail(Q) = r \o w
    BY <1>4, <1>6, <1>7, <1>8, SeqEqual
  <1>10. QED
    BY <1>5, <1>9 DEF Q, r

\* A whole message is the first of what has arrived.
LEMMA WholeFirst ==
  ASSUME NEW s, IsList(s.rq), Whole(s)
  PROVE s.rq # <<>> /\ IsList(Tail(s.rq)) /\ (Tail(s.rq) = <<>> => ~s.short)
  <1> DEFINE q == s.rq
  <1>1. PICK S : q \in Seq(S)
    BY DEF IsList
  <1>2. (Len(q) > 1 \/ (Len(q) = 1 /\ ~s.short)) /\ Len(q) \in Nat
    BY <1>1 DEF Whole
  <1> HIDE DEF q
  <1>3. q # <<>>
    BY <1>1, <1>2
  <1>4. Tail(q) \in Seq(S) /\ Len(Tail(q)) = Len(q) - 1
    BY <1>1, <1>3, HeadTailProperties
  <1>5. Tail(q) = <<>> => ~s.short
    <2> DEFINE r == Tail(q)
    <2>1. r \in Seq(S) /\ Len(r) = Len(q) - 1
      BY <1>4
    <2> HIDE DEF r
    <2>2. r = <<>> => Len(q) = 1
      BY <1>2, <2>1
    <2>3. r = <<>> => ~s.short
      BY <1>2, <2>2
    <2>4. QED
      BY <2>3, Zenon DEF r
  <1>6. QED
    BY <1>3, <1>4, <1>5, Zenon DEF IsList, q

\* Reading it leaves the rest.
LEMMA FedTake ==
  ASSUME NEW s, NEW w, NEW Q, Input(s, w, Q), Whole(s)
  PROVE /\ Q # <<>> /\ s.rq # <<>> /\ Head(s.rq) = Head(Q)
        /\ Fed(Tail(s.rq), s.short, w, Tail(Q))
  <1>1. IsList(s.rq) /\ IsList(w) /\ Q = s.rq \o w
    BY DEF Input, Fed
  <1>2. s.rq # <<>> /\ IsList(Tail(s.rq)) /\ (Tail(s.rq) = <<>> => ~s.short)
    BY <1>1, WholeFirst
  <1>3. PICK S, T : s.rq \in Seq(S) /\ w \in Seq(T)
    BY <1>1 DEF IsList
  <1>4. s.rq \in Seq(S \cup T) /\ w \in Seq(S \cup T)
    BY <1>3, SeqMonotonic, S \subseteq S \cup T, T \subseteq S \cup T
  <1>5. Q # <<>> /\ Head(Q) = Head(s.rq) /\ Tail(Q) = Tail(s.rq) \o w
    BY <1>1, <1>2, <1>4, ConcatTail
  <1>6. QED
    BY <1>1, <1>2, <1>5 DEF Fed

LEMMA FedOne ==
  ASSUME NEW s, NEW w, NEW a, Input(s, w, <<a>>), Whole(s)
  PROVE /\ s.rq # <<>> /\ Head(s.rq) = a /\ Tail(s.rq) = <<>>
        /\ w = <<>> /\ ~s.short
        /\ Fed(Tail(s.rq), s.short, w, <<>>)
  <1> DEFINE t == [rq |-> Tail(s.rq), short |-> s.short]
  <1>1. s.rq # <<>> /\ Head(s.rq) = a /\ Fed(Tail(s.rq), s.short, w, <<>>)
    BY FedTake, Head(<<a>>) = a, Tail(<<a>>) = <<>>
  <1>2. Input(t, w, <<>>)
    BY <1>1 DEF Input
  <1>3. t.rq = <<>> /\ w = <<>> /\ ~t.short
    BY <1>2, FedNone
  <1>4. QED
    BY <1>1, <1>3

\* What is sent to a session that has read all it was sent.
LEMMA FedReply ==
  ASSUME NEW s, NEW w, Input(s, w, <<>>), NEW a, IsList(a)
  PROVE Input(s, Join(w, a), a) /\ ~Whole(s)
  <1>1. s.rq = <<>> /\ w = <<>> /\ ~s.short /\ ~Whole(s)
    BY FedNone
  <1>2. PICK S : a \in Seq(S)
    BY DEF IsList
  <1>3. <<>> \o a = a
    BY <1>2, ConcatEmptySeq
  <1>4. QED
    BY <1>1, <1>3, ListEmpty DEF Input, Fed, Join

LEMMA ThreeLists ==
  ASSUME NEW U, NEW q \in Seq(U), NEW a \in Seq(U), NEW b \in Seq(U)
  PROVE (q \o a) \o b = q \o (a \o b)
  BY ConcatAssociative

\* More of it arrives: a, which is not all there is.
LEMMA FedMore ==
  ASSUME NEW q, NEW short, NEW Q, NEW a, NEW b, Fed(q, short, a \o b, Q),
         IsList(a), IsList(b), NEW partial, a = <<>> => q # <<>>
  PROVE Fed(q \o a, partial, b, Q)
  <1>1. PICK S, T, R : q \in Seq(S) /\ a \in Seq(T) /\ b \in Seq(R)
    BY DEF Fed, IsList
  <1>2. q \in Seq(S \cup T \cup R) /\ a \in Seq(S \cup T \cup R) /\ b \in Seq(S \cup T \cup R)
    <2>1. S \subseteq S \cup T \cup R /\ T \subseteq S \cup T \cup R /\ R \subseteq S \cup T \cup R
      OBVIOUS
    <2>2. QED
      BY <1>1, <2>1, SeqMonotonic
  <1>3. PICK U : q \in Seq(U) /\ a \in Seq(U) /\ b \in Seq(U)
    BY <1>2
  <1>4. (q \o a) \o b = q \o (a \o b)
    BY <1>3, ThreeLists
  <1>5. q \o a \in Seq(U) /\ q \o a # <<>>
    BY <1>3, ConcatProperties, ConcatEqualIffEmpty
  <1>6. QED
    BY <1>3, <1>4, <1>5 DEF Fed, IsList

\* What is under way, cut in two.
LEMMA Cut ==
  ASSUME NEW w, IsList(w), NEW n \in 0 .. Len(w)
  PROVE LET a == SubSeq(w, 1, n)
            b == SubSeq(w, n + 1, Len(w))
        IN IsList(a) /\ IsList(b) /\ a \o b = w /\ Len(a) = n
  <1>1. PICK S : w \in Seq(S)
    BY DEF IsList
  <1>2. Len(w) \in Nat /\ n \in Nat
    BY <1>1
  <1> DEFINE a == SubSeq(w, 1, n)
             b == SubSeq(w, n + 1, Len(w))
  <1>3. a \in Seq(S) /\ b \in Seq(S) /\ Len(a) = n
    <2>1. \A i \in 1 .. n : w[i] \in S
      BY <1>1, <1>2
    <2>2. \A i \in n + 1 .. Len(w) : w[i] \in S
      BY <1>1, <1>2
    <2>3. QED
      BY <1>2, <2>1, <2>2, SubSeqProperties
  <1>4. a \o b = w
    <2>1. a \o b = SubSeq(w, 1, Len(w))
      <3>1. 1 \in 1 .. Len(w) + 1 /\ n \in 1 - 1 .. Len(w) /\ Len(w) \in n .. Len(w)
        BY <1>2
      <3>2. QED
        BY <1>1, <1>2, <3>1, ConcatAdjacentSubSeq
    <2>2. QED
      BY <1>1, <1>2, <2>1, SubSeqFull
  <1> HIDE DEF a, b
  <1>5. QED
    BY <1>3, <1>4 DEF IsList, a, b

-----------------------------------------------------------------------------
(* The server.                                                             *)

SameNet(n, m) ==
  /\ DOMAIN m = NetFields
  /\ m.server = n.server /\ m.sent = n.sent /\ m.down = n.down
  /\ m.refused = n.refused /\ m.noisy = n.noisy

\* What the server answers joins what is under way.
LEMMA ServeFacts ==
  ASSUME NEW n, DOMAIN n = NetFields, NEW m, m[1] # "key"
  PROVE /\ SameNet(n, Serve(n, m))
        /\ Serve(n, m).wire = Join(n.wire, Reply(n.server, m))
  BY DEF Serve, GuestKeys, SameNet, NetFields, Join

Denied == Msg("result", "denied")
Challenge == Msg("challenge", "")
Reason == Msg("reason", TRUE)

\* What a server says at each stage.
LEMMA ResultIs ==
  ASSUME NEW server
  PROVE \/ Result(server) = <<Msg("result", "ok")>>
        \/ Result(server) = <<Denied, Reason>> /\ server.version >= 38
        \/ Result(server) = <<Denied>> /\ ~(server.version >= 38)
  <1>1. <<Denied>> \o <<Reason>> = <<Denied, Reason>> /\ <<Denied>> \o <<>> = <<Denied>>
    BY ListSmall
  <1>2. QED
    BY <1>1 DEF Result, Denied, Reason

LEMMA OfferIs ==
  ASSUME NEW server, IsServer(server)
  PROVE \/ /\ server.types \in {{}, {"invalid"}}
           /\ Offer(server) = <<Msg("types", server.types), Reason>>
        \/ /\ server.types \notin {{}, {"invalid"}}
           /\ server.version = 33 /\ server.types = {"vnc"}
           /\ Offer(server) = <<Msg("types", server.types), Challenge>>
        \/ /\ server.types \notin {{}, {"invalid"}}
           /\ ~(server.version = 33 /\ server.types = {"vnc"})
           /\ Offer(server) = <<Msg("types", server.types)>>
  <1> DEFINE m == Msg("types", server.types)
  <1>1. <<m>> \o <<Challenge>> = <<m, Challenge>> /\ <<m>> \o <<>> = <<m>>
    BY ListSmall
  <1> HIDE DEF m
  <1>2. QED
    BY <1>1 DEF Offer, Challenge, Reason, m

LEMMA Replies ==
  ASSUME NEW server
  PROVE /\ Reply(server, <<"id">>) = <<Msg("version", server.version)>>
        /\ Reply(server, <<"version">>) = Offer(server)
        /\ Reply(server, <<"none">>) = IF server.version >= 38 THEN Result(server) ELSE <<>>
        /\ Reply(server, <<"vnc">>) = <<Challenge>>
        /\ Reply(server, <<"subvncauth">>) = <<Challenge>>
        /\ Reply(server, <<"response">>) = Result(server)
        /\ Reply(server, <<"subnoauth">>) = Result(server)
        /\ Reply(server, <<"clientinit">>) = <<Msg("serverinit", "")>>
        /\ Reply(server, <<"xvp">>) = <<>>
        /\ Reply(server, <<"request">>) = <<>>
  BY DEF Reply, Challenge

\* What a Tight server says of its sub-authentications.
SubAuths(server) == Reply(server, <<"tunnel">>)

LEMMA TightReplies ==
  ASSUME NEW server
  PROVE /\ \/ /\ server.subauth = {}
              /\ SubAuths(server) = <<Msg("subauth", {})>> \o Result(server)
           \/ /\ server.subauth # {}
              /\ SubAuths(server) = <<Msg("subauth", server.subauth)>>
        /\ \/ /\ server.tunnels = {}
              /\ Reply(server, <<"tight">>) = <<Msg("tunnels", {})>> \o SubAuths(server)
           \/ /\ server.tunnels # {}
              /\ Reply(server, <<"tight">>) = <<Msg("tunnels", server.tunnels)>>
  <1> DEFINE a == Msg("subauth", server.subauth)
             t == Msg("tunnels", server.tunnels)
  <1>1. PICK S : Result(server) \in Seq(S)
    <2>1. IsList(<<Msg("result", "ok")>>) /\ IsList(<<Denied, Reason>>) /\ IsList(<<Denied>>)
      BY ListSmall
    <2>2. QED
      BY <2>1, ResultIs DEF IsList
  <1>2. /\ <<a>> \o <<>> = <<a>> /\ <<t, a>> = <<t>> \o <<a>>
        /\ <<t, a>> \o <<>> = <<t, a>>
    <2>1. <<t, a>> \in Seq({t, a})
      OBVIOUS
    <2>2. QED
      BY <2>1, ListSmall, ConcatEmptySeq
  <1>3. (<<t>> \o <<a>>) \o Result(server) = <<t>> \o (<<a>> \o Result(server))
    <2>1. <<t>> \in Seq({t, a} \cup S) /\ <<a>> \in Seq({t, a} \cup S)
      OBVIOUS
    <2>2. Result(server) \in Seq({t, a} \cup S)
      BY <1>1, SeqMonotonic, S \subseteq {t, a} \cup S
    <2> DEFINE U == {t, a} \cup S
               q == <<t>>
               r == <<a>>
    <2>3. q \in Seq(U) /\ r \in Seq(U) /\ Result(server) \in Seq(U)
      BY <2>1, <2>2
    <2> HIDE DEF U, q, r
    <2>4. (q \o r) \o Result(server) = q \o (r \o Result(server))
      BY <2>3, ThreeLists
    <2>5. QED
      BY <2>4 DEF q, r
  <1>4. SubAuths(server) = <<a>> \o IF server.subauth = {} THEN Result(server) ELSE <<>>
    BY DEF SubAuths, Reply
  <1>5. Reply(server, <<"tight">>) =
          IF server.tunnels = {}
            THEN <<t, a>> \o (IF server.subauth = {} THEN Result(server) ELSE <<>>)
            ELSE <<t>>
    BY DEF Reply
  <1> HIDE DEF a, t
  <1>6. \/ server.subauth = {} /\ SubAuths(server) = <<a>> \o Result(server)
        \/ server.subauth # {} /\ SubAuths(server) = <<a>>
    BY <1>2, <1>4
  <1>7. \/ server.tunnels = {} /\ Reply(server, <<"tight">>) = <<t>> \o SubAuths(server)
        \/ server.tunnels # {} /\ Reply(server, <<"tight">>) = <<t>>
    BY <1>2, <1>3, <1>5, <1>6
  <1>8. QED
    BY <1>6, <1>7 DEF a, t

LEMMA ReplyLists ==
  ASSUME NEW server, IsServer(server)
  PROVE /\ IsList(Result(server)) /\ IsList(Offer(server))
        /\ IsList(SubAuths(server)) /\ IsList(Reply(server, <<"tight">>))
        /\ \A a : IsList(<<a>>)
  <1>1. \A a, b : IsList(<<a>>) /\ IsList(<<a, b>>)
    BY ListSmall
  <1>2. IsList(Result(server)) /\ IsList(Offer(server))
    <2>1. /\ IsList(<<Msg("result", "ok")>>) /\ IsList(<<Denied, Reason>>) /\ IsList(<<Denied>>)
          /\ IsList(<<Msg("types", server.types)>>)
          /\ IsList(<<Msg("types", server.types), Reason>>)
          /\ IsList(<<Msg("types", server.types), Challenge>>)
      BY <1>1
    <2>2. IsList(Result(server))
      BY <2>1, ResultIs, Zenon
    <2>3. IsList(Offer(server))
      BY <2>1, OfferIs, Zenon
    <2>4. QED
      BY <2>2, <2>3
  <1>3. IsList(SubAuths(server)) /\ IsList(Reply(server, <<"tight">>))
    BY <1>1, <1>2, TightReplies, ListConcat
  <1>4. QED
    BY <1>1, <1>2, <1>3

-----------------------------------------------------------------------------
(* The handshake.                                                          *)

\* What there is to read for a session, by how far it has come.
AuthInput(s, w, server) ==
  \/ s.scheme = "vnc" /\ Input(s, w, <<Challenge>>)
  \/ s.scheme = "xvp" /\ Input(s, w, <<>>)
  \/ /\ s.scheme = "tight" /\ ~s.tight
     /\ Input(s, w, <<>>) \/ Input(s, w, Reply(server, <<"tight">>))
  \/ s.scheme = "tight" /\ s.tight /\ Input(s, w, SubAuths(server))

GreetingInput(s, w) ==
  \E Q : Input(s, w, Q) /\ Q # <<>> /\ Head(Q).kind = "serverinit"

Stage(s, w, server) ==
  \/ /\ s.init = "ProtocolVersion" /\ ~s.tight
     /\ \E g \in {Repeater, Unknown, server.version} :
          Input(s, w, <<Msg("version", g)>>)
  \/ /\ s.version = server.version
     /\ \/ s.init = "Security" /\ ~s.tight /\ Input(s, w, Offer(server))
        \/ s.init = "SecurityReason" /\ Input(s, w, <<Reason>>)
        \/ s.init = "Authentication" /\ AuthInput(s, w, server)
        \/ s.init = "SecurityResult" /\ Input(s, w, Result(server))
        \/ s.init = "ServerInitialisation" /\ GreetingInput(s, w)

\* A session that is being set up.
Setting(s) ==
  /\ DOMAIN s = Fields /\ Lists(s)
  /\ s.conn = "connecting" /\ s.sock = "open" /\ s.hears = Hearing
  /\ ~s.timer /\ ~s.pending

\* It waits for the user's password.
Waits(s, w) ==
  /\ s.conn = "connecting" /\ s.init = "Authentication"
  /\ s.scheme \in {"vnc", "xvp"} /\ w = <<>> /\ ~s.short

\* The exception of HandshakeGoesOn.
LeftAlone(s) == s.init = "SecurityResult" /\ s.scheme = "tight"

\* How a callback that goes on with the handshake may leave it: r is the session
\* after it, n the server of s and u the page.
GoesOn(s, r, n, u) ==
  /\ Setting(r) /\ r.retry = s.retry
  /\ SameNet(Ask(n, s), Ask(n, r))
  /\ Tell(u, r) = Tell(u, s) /\ (Rejects(r) <=> Rejects(s))
  /\ Stage(r, Ask(n, r).wire, Ask(n, r).server)
  /\ Whole(r) => LeftAlone(r)

Asks(s, r, n, u) ==
  /\ Setting(r) /\ r.retry = s.retry
  /\ SameNet(Ask(n, s), Ask(n, r))
  /\ Tell(u, r) = Credentials(Tell(u, s)) /\ (Rejects(r) <=> Rejects(s))
  /\ Stage(r, Ask(n, r).wire, Ask(n, r).server)
  /\ Waits(r, Ask(n, r).wire)

Fails(s, r, n, u) ==
  /\ Gone(s, r) /\ ~r.screen /\ ~r.grabbed /\ ~r.clean
  /\ r.events # <<>> /\ Last(r.events)[1] = "disconnect"
  /\ SameNet(Ask(n, s), Ask(n, r))
  /\ \/ /\ Tell(u, r) = DisconnectFinished(Tell(u, s), FALSE)
        /\ Rejects(r) <=> Rejects(s)
     \/ Tell(u, r) = DisconnectFinished(SecurityFailed(Tell(u, s)), FALSE)

Connects(s, r, n, u) ==
  /\ DOMAIN r = Fields /\ Lists(r) /\ IsList(r.rq)
  /\ r.conn = "connected" /\ r.sock = "open" /\ r.hears = Hearing
  /\ ~r.timer /\ r.init = "ServerInitialisation" /\ r.retry = s.retry
  /\ SameNet(Ask(n, s), Ask(n, r)) /\ IsList(Ask(n, r).wire)
  /\ Tell(u, r) = ConnectFinished(Tell(u, s)) /\ (Rejects(r) <=> Rejects(s))

Outcome(s, r, n, u) ==
  GoesOn(s, r, n, u) \/ Asks(s, r, n, u) \/ Fails(s, r, n, u)
  \/ Connects(s, r, n, u)

\* A step on the way.
Onward(s, t, n, u) ==
  /\ Setting(t) /\ t.retry = s.retry
  /\ SameNet(Ask(n, s), Ask(n, t))
  /\ Tell(u, t) = Tell(u, s) /\ (Rejects(t) <=> Rejects(s))

\* Outcomes compose.
LEMMA Chain ==
  ASSUME NEW s, NEW t, NEW r, NEW n, NEW u, Setting(s),
         Onward(s, t, n, u), Outcome(t, r, n, u)
  PROVE Outcome(s, r, n, u)
  <1>1. t.hears = s.hears
    BY DEF Onward, Setting
  <1>2. SameNet(Ask(n, t), Ask(n, r)) => SameNet(Ask(n, s), Ask(n, r))
    BY DEF Onward, SameNet
  <1>3. CASE GoesOn(t, r, n, u)
    BY <1>2, <1>3 DEF Onward, GoesOn, Outcome
  <1>4. CASE Asks(t, r, n, u)
    BY <1>2, <1>4 DEF Onward, Asks, Outcome
  <1>5. CASE Fails(t, r, n, u)
    BY <1>1, <1>2, <1>5 DEF Onward, Fails, Gone, Outcome
  <1>6. CASE Connects(t, r, n, u)
    BY <1>2, <1>6 DEF Onward, Connects, Outcome
  <1>7. QED
    BY <1>3, <1>4, <1>5, <1>6 DEF Outcome

LEMMA Onwards ==
  ASSUME NEW s, NEW t, NEW r, NEW n, NEW u,
         Onward(s, t, n, u), Onward(t, r, n, u)
  PROVE Onward(s, r, n, u)
  BY DEF Onward, SameNet

\* To do nothing, to take a message, to change what only the session knows.
LEMMA OnwardQuiet ==
  ASSUME NEW s, Setting(s), NEW t, NEW n, NEW u, DOMAIN Ask(n, s) = NetFields,
         DOMAIN t = Fields, t.events = s.events, t.out = s.out, t.conn = s.conn,
         t.sock = s.sock, t.hears = s.hears, t.timer = s.timer,
         t.pending = s.pending, t.retry = s.retry
  PROVE Onward(s, t, n, u) /\ Ask(n, t) = Ask(n, s)
  <1>1. /\ Tell(u, t) = Tell(u, s) /\ Ask(n, t) = Ask(n, s)
        /\ (Rejects(t) <=> Rejects(s)) /\ Lists(t)
    BY SameQueues DEF Setting
  <1>2. QED
    BY <1>1 DEF Onward, Setting, SameNet

LEMMA OnwardShift ==
  ASSUME NEW s, Setting(s), NEW n, NEW u, DOMAIN Ask(n, s) = NetFields
  PROVE /\ Onward(s, Shift(s), n, u) /\ Ask(n, Shift(s)) = Ask(n, s)
        /\ Shift(s).rq = Tail(s.rq)
        /\ Shift(s).init = s.init /\ Shift(s).version = s.version
        /\ Shift(s).scheme = s.scheme /\ Shift(s).tight = s.tight
        /\ Shift(s).short = s.short /\ Shift(s).password = s.password
  <1>1. DOMAIN s = Fields
    BY DEF Setting
  <1>2. /\ DOMAIN Shift(s) = Fields /\ Shift(s).rq = Tail(s.rq)
        /\ Shift(s).init = s.init /\ Shift(s).version = s.version
        /\ Shift(s).scheme = s.scheme /\ Shift(s).tight = s.tight
        /\ Shift(s).short = s.short /\ Shift(s).password = s.password
        /\ Shift(s).events = s.events /\ Shift(s).out = s.out /\ Shift(s).conn = s.conn
        /\ Shift(s).sock = s.sock /\ Shift(s).hears = s.hears /\ Shift(s).timer = s.timer
        /\ Shift(s).pending = s.pending /\ Shift(s).retry = s.retry
    BY <1>1 DEF Shift, Fields
  <1>3. QED
    BY <1>2, OnwardQuiet

\* To send a message to the server.
LEMMA OnwardSend ==
  ASSUME NEW s, Setting(s), NEW n, NEW u, DOMAIN Ask(n, s) = NetFields,
         NEW m, m[1] # "key"
  PROVE /\ Onward(s, Send(s, m), n, u)
        /\ Ask(n, Send(s, m)).wire = Join(Ask(n, s).wire, Reply(Ask(n, s).server, m))
        /\ Send(s, m).rq = s.rq /\ Send(s, m).init = s.init
        /\ Send(s, m).version = s.version /\ Send(s, m).scheme = s.scheme
        /\ Send(s, m).tight = s.tight /\ Send(s, m).short = s.short
        /\ Send(s, m).password = s.password
  <1> DEFINE t == Send(s, m)
  <1>1. DOMAIN s = Fields /\ s.sock = "open" /\ Lists(s)
    BY DEF Setting
  <1>2. /\ DOMAIN t = Fields /\ t.rq = s.rq /\ t.init = s.init
        /\ t.version = s.version /\ t.scheme = s.scheme /\ t.tight = s.tight
        /\ t.short = s.short /\ t.password = s.password
        /\ t.events = s.events /\ t.conn = s.conn
        /\ t.sock = s.sock /\ t.hears = s.hears /\ t.timer = s.timer
        /\ t.pending = s.pending /\ t.retry = s.retry
    BY <1>1 DEF Send, Fields
  <1>3. Ask(n, t) = Serve(Ask(n, s), m) /\ Lists(t)
    BY <1>1, AskSend
  <1>4. /\ SameNet(Ask(n, s), Ask(n, t))
        /\ Ask(n, t).wire = Join(Ask(n, s).wire, Reply(Ask(n, s).server, m))
    BY <1>3, ServeFacts
  <1>5. Tell(u, t) = Tell(u, s) /\ (Rejects(t) <=> Rejects(s))
    BY <1>2 DEF Tell, Rejects
  <1> HIDE DEF t
  <1>6. Onward(s, t, n, u)
    BY <1>2, <1>3, <1>4, <1>5 DEF Onward, Setting
  <1>7. QED
    BY <1>2, <1>4, <1>6 DEF t

\* To fail.
LEMMA OutcomeFail ==
  ASSUME NEW s, Setting(s), NEW n, NEW u, DOMAIN Ask(n, s) = NetFields
  PROVE Outcome(s, Fail(s), n, u)
  <1>1. Ended(s, Fail(s), FALSE)
    BY FailEnds DEF Setting
  <1>2. QED
    BY <1>1 DEF Ended, Outcome, Fails, SameNet

\* To stay.
LEMMA OutcomeStay ==
  ASSUME NEW s, Setting(s), NEW n, NEW u, DOMAIN Ask(n, s) = NetFields,
         Stage(s, Ask(n, s).wire, Ask(n, s).server), ~Whole(s)
  PROVE Outcome(s, s, n, u)
  BY DEF Outcome, GoesOn, SameNet

\* An event that no listener of the page does anything about.
LEMMA OnwardEmit ==
  ASSUME NEW s, Setting(s), NEW n, NEW u, DOMAIN Ask(n, s) = NetFields,
         NEW e, e[1] = "desktopname"
  PROVE Onward(s, Emit(s, e), n, u) /\ Ask(n, Emit(s, e)) = Ask(n, s)
        /\ Emit(s, e).rq = s.rq /\ Emit(s, e).init = s.init
  <1> DEFINE t == Emit(s, e)
  <1>1. DOMAIN s = Fields /\ Lists(s)
    BY DEF Setting
  <1>2. /\ DOMAIN t = Fields /\ t.rq = s.rq /\ t.init = s.init
        /\ t.out = s.out /\ t.conn = s.conn
        /\ t.sock = s.sock /\ t.hears = s.hears /\ t.timer = s.timer
        /\ t.pending = s.pending /\ t.retry = s.retry
    BY <1>1 DEF Emit, Fields
  <1>3. Tell(u, t) = Listener(Tell(u, s), e) /\ (Rejects(t) <=> Rejects(s)) /\ Lists(t)
    BY <1>1, TellEmit
  <1>4. Listener(Tell(u, s), e) = Tell(u, s)
    BY DEF Listener
  <1>5. Ask(n, t) = Ask(n, s)
    BY <1>2 DEF Ask
  <1> HIDE DEF t
  <1>6. Onward(s, t, n, u)
    BY <1>2, <1>3, <1>4, <1>5 DEF Onward, Setting, SameNet
  <1>7. QED
    BY <1>2, <1>5, <1>6 DEF t

\* The session is set up.
LEMMA OutcomeConnect ==
  ASSUME NEW s, Setting(s), NEW n, NEW u, DOMAIN Ask(n, s) = NetFields,
         s.init = "ServerInitialisation", IsList(s.rq), IsList(Ask(n, s).wire)
  PROVE Outcome(s, Move(s, "connected"), n, u)
  <1> DEFINE t == Enter(s, "connected")
             e == <<"connect">>
             r == Emit(t, e)
  <1>1. DOMAIN s = Fields /\ Lists(s)
    BY DEF Setting
  <1>2. <<s.conn, "connected">> \in Transitions
    BY DEF Setting, Transitions
  <1>3. Move(s, "connected") = r
    BY <1>2 DEF Move
  <1>4. /\ DOMAIN t = Fields /\ t.conn = "connected" /\ t.sock = "open"
        /\ t.hears = Hearing /\ ~t.timer /\ t.init = s.init /\ t.retry = s.retry
        /\ t.rq = s.rq /\ t.events = s.events /\ t.out = s.out
    BY DEF Enter, Fields, Setting
  <1>5. Tell(u, t) = Tell(u, s) /\ Ask(n, t) = Ask(n, s) /\ (Rejects(t) <=> Rejects(s)) /\ Lists(t)
    BY <1>1, <1>4, SameQueues
  <1> HIDE DEF t
  <1>6. /\ DOMAIN r = Fields /\ r.conn = t.conn /\ r.sock = t.sock /\ r.hears = t.hears
        /\ (r.timer <=> t.timer) /\ r.init = t.init /\ r.retry = t.retry /\ r.rq = t.rq
        /\ r.out = t.out
    BY <1>4 DEF Emit, Fields
  <1>7. e[1] = "connect" /\ \A v : Listener(v, e) = ConnectFinished(v)
    BY DEF Listener
  <1> HIDE DEF e
  <1>8. Tell(u, r) = Listener(Tell(u, t), e) /\ (Rejects(r) <=> Rejects(t)) /\ Lists(r)
    BY <1>4, <1>5, <1>7, TellEmit
  <1>9. Ask(n, r) = Ask(n, t)
    BY <1>6 DEF Ask
  <1> HIDE DEF r
  <1>10. Connects(s, r, n, u)
    BY <1>4, <1>5, <1>6, <1>7, <1>8, <1>9 DEF Connects, SameNet
  <1>11. QED
    BY <1>3, <1>10 DEF Outcome

\* Each stage, from the last to the first.
LEMMA ServerInitOutcome ==
  ASSUME NEW s, Setting(s), NEW n, NEW u, DOMAIN Ask(n, s) = NetFields,
         s.init = "ServerInitialisation", NEW enough,
         s.version = Ask(n, s).server.version, GreetingInput(s, Ask(n, s).wire)
  PROVE Outcome(s, NegotiateServerInit(s, enough), n, u)
  <1>1. CASE ~Whole(s)
    <2>1. NegotiateServerInit(s, enough) = s
      BY <1>1 DEF NegotiateServerInit
    <2>2. Stage(s, Ask(n, s).wire, Ask(n, s).server)
      BY DEF Stage
    <2>3. QED
      BY <1>1, <2>1, <2>2, OutcomeStay
  <1>2. CASE Whole(s)
    <2>1. PICK Q : Input(s, Ask(n, s).wire, Q) /\ Q # <<>> /\ Head(Q).kind = "serverinit"
      BY DEF GreetingInput
    <2>2. Head(s.rq).kind = "serverinit" /\ IsList(Tail(s.rq)) /\ IsList(Ask(n, s).wire)
      BY <1>2, <2>1, FedTake DEF Fed
    <2> DEFINE t == Shift(s)
               e == <<"desktopname">>
               d == Emit(t, e)
               k == [d EXCEPT !.grabbed = @ \/ ~s.viewOnly]
               m == <<"request">>
               q == Send(k, m)
    <2>3. NegotiateServerInit(s, enough) = Move(q, "connected")
      BY <1>2, <2>2 DEF NegotiateServerInit
    <2>4. /\ Onward(s, t, n, u) /\ Ask(n, t) = Ask(n, s)
          /\ t.rq = Tail(s.rq) /\ t.init = s.init
      BY OnwardShift
    <2>5. e[1] = "desktopname" /\ m[1] # "key" /\ \A v : Reply(v, m) = <<>>
      BY Replies
    <2> HIDE DEF t, e, m
    <2>6. Setting(t)
      BY <2>4 DEF Onward
    <2>7. Onward(t, d, n, u) /\ Ask(n, d) = Ask(n, t) /\ d.rq = t.rq /\ d.init = t.init
      BY <2>4, <2>5, <2>6, OnwardEmit
    <2> HIDE DEF d
    <2>8. Setting(d) /\ DOMAIN d = Fields
      BY <2>7 DEF Onward, Setting
    <2>9. /\ DOMAIN k = Fields /\ k.events = d.events /\ k.out = d.out /\ k.conn = d.conn
          /\ k.sock = d.sock /\ k.hears = d.hears /\ k.timer = d.timer
          /\ k.pending = d.pending /\ k.retry = d.retry /\ k.rq = d.rq /\ k.init = d.init
      BY <2>8 DEF Fields
    <2> HIDE DEF k
    <2>10. Onward(d, k, n, u) /\ Ask(n, k) = Ask(n, d)
      BY <2>4, <2>7, <2>8, <2>9, OnwardQuiet
    <2>11. Setting(k)
      BY <2>10 DEF Onward
    <2>12. /\ Onward(k, q, n, u) /\ Ask(n, q).wire = Join(Ask(n, k).wire, Reply(Ask(n, k).server, m))
           /\ q.rq = k.rq /\ q.init = k.init
      BY <2>4, <2>5, <2>7, <2>10, <2>11, OnwardSend
    <2> HIDE DEF q
    <2>13. IsList(Ask(n, q).wire) /\ IsList(q.rq) /\ q.init = "ServerInitialisation"
      BY <2>2, <2>4, <2>5, <2>7, <2>9, <2>10, <2>12, ListConcat, ListEmpty
    <2>14. Onward(s, q, n, u)
      BY <2>4, <2>7, <2>10, <2>12, Onwards
    <2>15. Setting(q) /\ DOMAIN Ask(n, q) = NetFields
      BY <2>14 DEF Onward, SameNet
    <2>16. Outcome(q, Move(q, "connected"), n, u)
      BY <2>13, <2>15, OutcomeConnect
    <2>17. QED
      BY <2>3, <2>14, <2>16, Chain
  <1>3. QED
    BY <1>1, <1>2

\* To send a message when all there was has been read.
LEMMA OnwardSay ==
  ASSUME NEW s, Setting(s), NEW n, NEW u, DOMAIN Ask(n, s) = NetFields,
         Input(s, Ask(n, s).wire, <<>>), NEW m, m[1] # "key",
         NEW a, a = Reply(Ask(n, s).server, m), IsList(a)
  PROVE /\ Onward(s, Send(s, m), n, u)
        /\ Setting(Send(s, m)) /\ DOMAIN Ask(n, Send(s, m)) = NetFields
        /\ Ask(n, Send(s, m)).server = Ask(n, s).server
        /\ Input(Send(s, m), Ask(n, Send(s, m)).wire, a)
        /\ Send(s, m).rq = <<>> /\ ~Send(s, m).short
        /\ Send(s, m).init = s.init
        /\ Send(s, m).version = s.version /\ Send(s, m).scheme = s.scheme
        /\ Send(s, m).tight = s.tight
  <1> DEFINE t == Send(s, m)
  <1>1. Onward(s, t, n, u)
    BY OnwardSend
  <1>2. Ask(n, t).wire = Join(Ask(n, s).wire, Reply(Ask(n, s).server, m))
    BY OnwardSend
  <1>3. /\ t.rq = s.rq /\ t.init = s.init /\ t.version = s.version
        /\ t.scheme = s.scheme /\ t.tight = s.tight /\ t.short = s.short
    BY OnwardSend
  <1> HIDE DEF t
  <1>4. Input(s, Ask(n, t).wire, a) /\ s.rq = <<>> /\ ~s.short
    BY <1>2, FedReply, FedNone
  <1>5. Setting(t) /\ DOMAIN Ask(n, t) = NetFields /\ Ask(n, t).server = Ask(n, s).server
    BY <1>1 DEF Onward, SameNet
  <1>6. QED
    BY <1>1, <1>3, <1>4, <1>5 DEF Input, t

\* What the rest of the session looks at in t is the same in r.
Like(t, r) ==
  /\ DOMAIN r = Fields /\ r.events = t.events /\ r.out = t.out /\ r.conn = t.conn
  /\ r.sock = t.sock /\ r.hears = t.hears /\ r.timer = t.timer
  /\ r.pending = t.pending /\ r.retry = t.retry /\ r.rq = t.rq /\ r.short = t.short

LEMMA LikeInput ==
  ASSUME NEW t, NEW r, Like(t, r), NEW w, NEW Q
  PROVE /\ Input(t, w, Q) <=> Input(r, w, Q)
        /\ Whole(t) <=> Whole(r)
  BY DEF Like, Input, Whole

\* Where the session gets, when nothing else is to be read.
LEMMA Reaches ==
  ASSUME NEW s, Setting(s), NEW n, NEW u, NEW r, Onward(s, r, n, u),
         Stage(r, Ask(n, r).wire, Ask(n, r).server), Whole(r) => LeftAlone(r)
  PROVE Outcome(s, r, n, u)
  BY DEF Onward, Outcome, GoesOn

\* To send a message, and to remember something.
LEMMA Says ==
  ASSUME NEW s, Setting(s), NEW n, NEW u, DOMAIN Ask(n, s) = NetFields,
         Input(s, Ask(n, s).wire, <<>>), NEW m, m[1] # "key",
         NEW a, a = Reply(Ask(n, s).server, m), IsList(a),
         NEW r, Like(Send(s, m), r)
  PROVE /\ Onward(s, r, n, u) /\ Setting(r) /\ DOMAIN Ask(n, r) = NetFields
        /\ Ask(n, r).server = Ask(n, s).server
        /\ Input(r, Ask(n, r).wire, a) /\ ~Whole(r)
  <1> DEFINE t == Send(s, m)
  <1>1. /\ Onward(s, t, n, u) /\ Setting(t) /\ DOMAIN Ask(n, t) = NetFields
        /\ Ask(n, t).server = Ask(n, s).server
        /\ Input(t, Ask(n, t).wire, a) /\ t.rq = <<>> /\ ~t.short
    BY OnwardSay
  <1>2. Like(t, r)
    OBVIOUS
  <1> HIDE DEF t
  <1>3. Onward(t, r, n, u) /\ Ask(n, r) = Ask(n, t)
    BY <1>1, <1>2, OnwardQuiet DEF Like
  <1>4. Onward(s, r, n, u) /\ Setting(r)
    BY <1>1, <1>3, Onwards DEF Onward
  <1>5. Input(r, Ask(n, r).wire, a)
    BY <1>1, <1>2, <1>3, LikeInput
  <1>6. ~Whole(r)
    BY <1>1, <1>2 DEF Whole, Like
  <1>7. QED
    BY <1>1, <1>3, <1>4, <1>5, <1>6

\* To take a message, and to remember something.
LEMMA Takes ==
  ASSUME NEW s, Setting(s), NEW n, NEW u, DOMAIN Ask(n, s) = NetFields,
         NEW Q, Input(s, Ask(n, s).wire, Q), Whole(s),
         NEW r, Like(Shift(s), r)
  PROVE /\ Onward(s, r, n, u) /\ Setting(r) /\ Ask(n, r) = Ask(n, s)
        /\ Head(s.rq) = Head(Q)
        /\ Input(r, Ask(n, r).wire, Tail(Q))
  <1> DEFINE t == Shift(s)
  <1>1. /\ Onward(s, t, n, u) /\ Ask(n, t) = Ask(n, s)
        /\ t.rq = Tail(s.rq) /\ t.short = s.short
    BY OnwardShift
  <1>2. Head(s.rq) = Head(Q) /\ Fed(Tail(s.rq), s.short, Ask(n, s).wire, Tail(Q))
    BY FedTake
  <1>3. Like(t, r)
    OBVIOUS
  <1> HIDE DEF t
  <1>4. Setting(t)
    BY <1>1 DEF Onward
  <1>5. Onward(t, r, n, u) /\ Ask(n, r) = Ask(n, t)
    BY <1>1, <1>3, <1>4, OnwardQuiet DEF Like
  <1>6. Onward(s, r, n, u) /\ Setting(r)
    BY <1>1, <1>5, Onwards DEF Onward
  <1>7. Input(r, Ask(n, r).wire, Tail(Q))
    BY <1>1, <1>2, <1>3, <1>5 DEF Input, Like
  <1>8. QED
    BY <1>1, <1>2, <1>5, <1>6, <1>7

\* What the operators of the handshake leave alone.
LEMMA AreLike ==
  ASSUME NEW s, DOMAIN s = Fields
  PROVE /\ Like(s, s) /\ Like(Shift(s), Shift(s))
        /\ \A m : DOMAIN Send(s, m) = Fields /\ DOMAIN Shift(s) = Fields
        /\ \A x : Like(s, [s EXCEPT !.init = x])
        /\ \A x : Like(s, [s EXCEPT !.scheme = x])
        /\ \A x : Like(s, [s EXCEPT !.tight = x])
        /\ \A x, y : Like(s, [s EXCEPT !.version = x, !.init = y])
        /\ \A x, y : Like(s, [s EXCEPT !.scheme = x, !.init = y])
  <1>1. DOMAIN Shift(s) = Fields /\ \A m : DOMAIN Send(s, m) = Fields
    BY DEF Shift, Send
  <1>2. QED
    BY <1>1 DEF Like, Fields

LEMMA ClientInitOutcome ==
  ASSUME NEW s, Setting(s), NEW n, NEW u, DOMAIN Ask(n, s) = NetFields,
         s.version = Ask(n, s).server.version, Input(s, Ask(n, s).wire, <<>>)
  PROVE Outcome(s, ClientInit(s), n, u)
  <1> DEFINE m == <<"clientinit">>
             t == Send(s, m)
             r == [t EXCEPT !.init = "ServerInitialisation"]
             x == Msg("serverinit", "")
             a == <<x>>
  <1>1. ClientInit(s) = r
    BY DEF ClientInit
  <1>2. m[1] # "key"
    OBVIOUS
  <1>3. a = Reply(Ask(n, s).server, m)
    BY Replies
  <1>4. x.kind = "serverinit"
    BY DEF Msg
  <1> HIDE DEF x
  <1>5. IsList(a)
    BY ListSmall
  <1>6. a # <<>> /\ Head(a).kind = "serverinit"
    BY <1>4, ListHeads
  <1>7. DOMAIN t = Fields /\ t.version = s.version
    BY AreLike, OnwardSend, <1>2 DEF Setting
  <1>8. Like(t, r) /\ r.init = "ServerInitialisation" /\ r.version = t.version
    BY <1>7, AreLike DEF Fields
  <1> HIDE DEF m, a, r
  <1>9. /\ Onward(s, r, n, u) /\ Ask(n, r).server = Ask(n, s).server
        /\ Input(r, Ask(n, r).wire, a) /\ ~Whole(r)
    BY <1>2, <1>3, <1>5, <1>8, Says
  <1>10. Stage(r, Ask(n, r).wire, Ask(n, r).server)
    BY <1>6, <1>7, <1>8, <1>9 DEF Stage, GreetingInput
  <1>11. QED
    BY <1>1, <1>9, <1>10, Reaches

\* The connection is refused.
LEMMA RejectOutcome ==
  ASSUME NEW s, Setting(s), NEW n, NEW u, DOMAIN Ask(n, s) = NetFields
  PROVE Outcome(s, Fail(Emit(s, <<"securityfailure">>)), n, u)
  <1> DEFINE e == <<"securityfailure">>
             t == Emit(s, e)
             r == Fail(t)
  <1>1. DOMAIN s = Fields /\ Lists(s)
    BY DEF Setting
  <1>2. /\ DOMAIN t = Fields /\ t.conn = s.conn /\ t.out = s.out
        /\ t.hears = s.hears /\ t.retry = s.retry
    BY <1>1 DEF Emit, Fields
  <1>3. \A v : Listener(v, e) = SecurityFailed(v)
    BY DEF Listener
  <1> HIDE DEF e
  <1>4. Tell(u, t) = SecurityFailed(Tell(u, s)) /\ Lists(t)
    BY <1>1, <1>3, TellEmit
  <1>5. Ask(n, t) = Ask(n, s)
    BY <1>2 DEF Ask
  <1> HIDE DEF t
  <1>6. Ended(t, r, FALSE)
    BY <1>2, <1>4, FailEnds DEF Setting
  <1> HIDE DEF r
  <1>7. Fails(s, r, n, u)
    BY <1>2, <1>4, <1>5, <1>6 DEF Ended, Fails, Gone, SameNet
  <1>8. QED
    BY <1>7 DEF Outcome, r, t, e

LEMMA ReasonOutcome ==
  ASSUME NEW s, Setting(s), NEW n, NEW u, DOMAIN Ask(n, s) = NetFields,
         s.version = Ask(n, s).server.version, s.init = "SecurityReason",
         Input(s, Ask(n, s).wire, <<Reason>>)
  PROVE Outcome(s, SecurityReason(s), n, u)
  <1>1. CASE ~Whole(s)
    <2>1. SecurityReason(s) = s
      BY <1>1 DEF SecurityReason
    <2>2. Stage(s, Ask(n, s).wire, Ask(n, s).server)
      BY DEF Stage
    <2>3. QED
      BY <1>1, <2>1, <2>2, OutcomeStay
  <1>2. CASE Whole(s)
    <2> DEFINE t == Shift(s)
    <2>1. SecurityReason(s) = Fail(Emit(t, <<"securityfailure">>))
      BY <1>2 DEF SecurityReason
    <2>2. Like(t, t)
      BY AreLike DEF Setting
    <2>3. Onward(s, t, n, u) /\ Setting(t) /\ Ask(n, t) = Ask(n, s)
      BY <1>2, <2>2, Takes
    <2> HIDE DEF t
    <2>4. Outcome(t, Fail(Emit(t, <<"securityfailure">>)), n, u)
      BY <2>3, RejectOutcome
    <2>5. QED
      BY <2>1, <2>3, <2>4, Chain
  <1>3. QED
    BY <1>1, <1>2

LEMMA ToReasonOutcome ==
  ASSUME NEW s, Setting(s), NEW n, NEW u, DOMAIN Ask(n, s) = NetFields,
         s.version = Ask(n, s).server.version,
         Input(s, Ask(n, s).wire, <<Reason>>)
  PROVE Outcome(s, ToReason(s), n, u)
  <1> DEFINE r == [s EXCEPT !.init = "SecurityReason"]
  <1>1. ToReason(s) = SecurityReason(r)
    BY DEF ToReason
  <1>2. DOMAIN s = Fields
    BY DEF Setting
  <1>3. Like(s, r) /\ r.init = "SecurityReason" /\ r.version = s.version
    BY <1>2, AreLike DEF Fields
  <1> HIDE DEF r
  <1>4. Onward(s, r, n, u) /\ Ask(n, r) = Ask(n, s)
    BY <1>3, OnwardQuiet DEF Like
  <1>5. Setting(r)
    BY <1>4 DEF Onward
  <1>6. Input(r, Ask(n, r).wire, <<Reason>>)
    BY <1>3, <1>4, LikeInput
  <1>7. Outcome(r, SecurityReason(r), n, u)
    BY <1>3, <1>4, <1>5, <1>6, ReasonOutcome
  <1>8. QED
    BY <1>1, <1>4, <1>7, Chain

LEMMA ResultOutcome ==
  ASSUME NEW s, Setting(s), NEW n, NEW u, DOMAIN Ask(n, s) = NetFields,
         s.version = Ask(n, s).server.version, s.init = "SecurityResult",
         Input(s, Ask(n, s).wire, Result(Ask(n, s).server))
  PROVE Outcome(s, SecurityResult(s), n, u)
  <1>1. CASE ~Whole(s)
    <2>1. SecurityResult(s) = s
      BY <1>1 DEF SecurityResult
    <2>2. Stage(s, Ask(n, s).wire, Ask(n, s).server)
      BY DEF Stage
    <2>3. QED
      BY <1>1, <2>1, <2>2, OutcomeStay
  <1>2. CASE Whole(s)
    <2> DEFINE t == Shift(s)
               server == Ask(n, s).server
    <2>1. SecurityResult(s) =
            IF Head(s.rq).val = "ok" THEN ClientInit(t)
            ELSE IF s.version >= 38 THEN ToReason(t)
            ELSE Fail(Emit(t, <<"securityfailure">>))
      BY <1>2 DEF SecurityResult
    <2>2. Like(t, t)
      BY AreLike DEF Setting
    <2>3. /\ Onward(s, t, n, u) /\ Setting(t) /\ Ask(n, t) = Ask(n, s)
          /\ Head(s.rq) = Head(Result(server))
          /\ Input(t, Ask(n, t).wire, Tail(Result(server)))
      BY <1>2, <2>2, Takes
    <2>4. t.version = s.version
      BY OnwardShift
    <2> HIDE DEF t
    <2>5. DOMAIN Ask(n, t) = NetFields
      BY <2>3
    <2>6. CASE Result(server) = <<Msg("result", "ok")>>
      <3> DEFINE x == Msg("result", "ok")
      <3>1. x.val = "ok"
        BY DEF Msg
      <3> HIDE DEF x
      <3>2. Result(server) = <<x>>
        BY <2>6 DEF x
      <3>3. Head(Result(server)).val = "ok"
        BY <3>1, <3>2, ListHeads
      <3>4. Tail(Result(server)) = <<>>
        BY <3>2, ListHeads
      <3>5. SecurityResult(s) = ClientInit(t)
        BY <2>1, <2>3, <3>3
      <3>6. Input(t, Ask(n, t).wire, <<>>)
        BY <2>3, <3>4
      <3>7. Outcome(t, ClientInit(t), n, u)
        BY <2>3, <2>4, <2>5, <3>6, ClientInitOutcome
      <3>8. QED
        BY <2>3, <3>5, <3>7, Chain
    <2>7. CASE Result(server) = <<Denied, Reason>> /\ server.version >= 38
      <3>1. Denied.val # "ok"
        BY DEF Denied, Msg
      <3>2. Head(Result(server)) = Denied
        BY <2>7, ListHeads
      <3>3. Tail(Result(server)) = <<Reason>>
        BY <2>7, ListHeads
      <3>4. SecurityResult(s) = ToReason(t)
        BY <2>1, <2>3, <2>7, <3>1, <3>2
      <3>5. Input(t, Ask(n, t).wire, <<Reason>>)
        BY <2>3, <3>3
      <3>6. Outcome(t, ToReason(t), n, u)
        BY <2>3, <2>4, <2>5, <3>5, ToReasonOutcome
      <3>7. QED
        BY <2>3, <3>4, <3>6, Chain
    <2>8. CASE Result(server) = <<Denied>> /\ ~(server.version >= 38)
      <3>1. Denied.val # "ok"
        BY DEF Denied, Msg
      <3>2. Head(Result(server)) = Denied
        BY <2>8, ListHeads
      <3>3. SecurityResult(s) = Fail(Emit(t, <<"securityfailure">>))
        BY <2>1, <2>3, <2>8, <3>1, <3>2
      <3>4. Outcome(t, Fail(Emit(t, <<"securityfailure">>)), n, u)
        BY <2>3, <2>5, RejectOutcome
      <3>5. QED
        BY <2>3, <3>3, <3>4, Chain
    <2>9. QED
      BY <2>6, <2>7, <2>8, ResultIs
  <1>3. QED
    BY <1>1, <1>2

\* The page is asked for a password.
LEMMA AskOutcome ==
  ASSUME NEW s, Setting(s), NEW n, NEW u, DOMAIN Ask(n, s) = NetFields,
         Stage(s, Ask(n, s).wire, Ask(n, s).server), Waits(s, Ask(n, s).wire)
  PROVE Outcome(s, Emit(s, <<"credentialsrequired">>), n, u)
  <1> DEFINE e == <<"credentialsrequired">>
             r == Emit(s, e)
  <1>1. DOMAIN s = Fields /\ Lists(s)
    BY DEF Setting
  <1>2. /\ DOMAIN r = Fields /\ r.conn = s.conn /\ r.out = s.out /\ r.init = s.init
        /\ r.hears = s.hears /\ r.retry = s.retry /\ r.sock = s.sock
        /\ r.timer = s.timer /\ r.pending = s.pending /\ r.rq = s.rq
        /\ r.short = s.short /\ r.scheme = s.scheme /\ r.tight = s.tight
        /\ r.version = s.version
    BY <1>1 DEF Emit, Fields
  <1>3. e[1] # "securityfailure" /\ \A v : Listener(v, e) = Credentials(v)
    BY DEF Listener
  <1> HIDE DEF e
  <1>4. Tell(u, r) = Credentials(Tell(u, s)) /\ Lists(r) /\ (Rejects(r) <=> Rejects(s))
    BY <1>1, <1>3, TellEmit
  <1>5. Ask(n, r) = Ask(n, s)
    BY <1>2 DEF Ask
  <1> HIDE DEF r
  <1>6. Setting(r) /\ Waits(r, Ask(n, r).wire)
    BY <1>2, <1>4, <1>5 DEF Setting, Waits
  <1>7. Stage(r, Ask(n, r).wire, Ask(n, r).server)
    BY <1>2, <1>5 DEF Stage, AuthInput, GreetingInput, Input
  <1>8. Asks(s, r, n, u)
    BY <1>2, <1>4, <1>5, <1>6, <1>7 DEF Asks, SameNet
  <1>9. QED
    BY <1>8 DEF Outcome, r, e

LEMMA VncAuthOutcome ==
  ASSUME NEW s, Setting(s), NEW n, NEW u, DOMAIN Ask(n, s) = NetFields,
         IsServer(Ask(n, s).server),
         s.version = Ask(n, s).server.version, s.init = "Authentication",
         s.scheme = "vnc", Input(s, Ask(n, s).wire, <<Challenge>>)
  PROVE Outcome(s, VncAuth(s), n, u)
  <1>1. Stage(s, Ask(n, s).wire, Ask(n, s).server)
    BY DEF Stage, AuthInput
  <1>2. CASE ~Whole(s)
    BY <1>1, <1>2, OutcomeStay DEF VncAuth
  <1>3. CASE Whole(s) /\ ~s.password
    <2>1. VncAuth(s) = Emit(s, <<"credentialsrequired">>)
      BY <1>3 DEF VncAuth
    <2>2. Ask(n, s).wire = <<>> /\ ~s.short
      BY <1>3, FedOne
    <2>3. Waits(s, Ask(n, s).wire)
      BY <2>2 DEF Waits, Setting
    <2>4. QED
      BY <1>1, <2>1, <2>3, AskOutcome
  <1>4. CASE Whole(s) /\ s.password
    <2> DEFINE t == Shift(s)
               m == <<"response">>
               k == Send(t, m)
               r == [k EXCEPT !.init = "SecurityResult"]
               a == Result(Ask(n, s).server)
    <2>1. VncAuth(s) = r
      BY <1>4 DEF VncAuth
    <2>2. m[1] # "key"
      OBVIOUS
    <2>3. a = Reply(Ask(n, s).server, m)
      BY Replies
    <2>4. IsList(a)
      BY ReplyLists
    <2>5. Like(t, t) /\ DOMAIN t = Fields
      BY AreLike DEF Setting, Like
    <2>6. /\ Onward(s, t, n, u) /\ Setting(t) /\ Ask(n, t) = Ask(n, s)
          /\ Input(t, Ask(n, t).wire, Tail(<<Challenge>>))
      BY <1>4, <2>5, Takes
    <2>7. t.version = s.version
      BY OnwardShift
    <2>8. Input(t, Ask(n, t).wire, <<>>)
      BY <2>6, ListHeads
    <2> HIDE DEF t, m
    <2>8a. DOMAIN Ask(n, t) = NetFields
      BY <2>6
    <2>9. DOMAIN k = Fields /\ k.version = t.version
      BY <2>2, <2>5, <2>6, <2>8a, AreLike, OnwardSend
    <2>10. Like(k, r) /\ r.init = "SecurityResult" /\ r.version = k.version
      BY <2>9, AreLike DEF Fields
    <2> HIDE DEF r, a
    <2>11. a = Reply(Ask(n, t).server, m)
      BY <2>3, <2>6
    <2>12. /\ Onward(t, r, n, u) /\ Ask(n, r).server = Ask(n, t).server
           /\ Input(r, Ask(n, r).wire, a) /\ ~Whole(r)
      BY <2>2, <2>4, <2>6, <2>8, <2>10, <2>11, Says
    <2>13. Stage(r, Ask(n, r).wire, Ask(n, r).server)
      BY <2>6, <2>7, <2>9, <2>10, <2>12 DEF Stage, a
    <2>14. Outcome(t, r, n, u)
      BY <2>6, <2>12, <2>13, Reaches
    <2>15. QED
      BY <2>1, <2>6, <2>14, Chain
  <1>5. QED
    BY <1>2, <1>3, <1>4

LEMMA XvpAuthOutcome ==
  ASSUME NEW s, Setting(s), NEW n, NEW u, DOMAIN Ask(n, s) = NetFields,
         s.version = Ask(n, s).server.version, s.init = "Authentication",
         s.scheme = "xvp", Input(s, Ask(n, s).wire, <<>>)
  PROVE Outcome(s, XvpAuth(s), n, u)
  <1>1. Stage(s, Ask(n, s).wire, Ask(n, s).server)
    BY DEF Stage, AuthInput
  <1>2. Ask(n, s).wire = <<>> /\ ~s.short
    BY FedNone
  <1>3. Waits(s, Ask(n, s).wire)
    BY <1>2 DEF Waits, Setting
  <1>4. QED
    BY <1>1, <1>3, AskOutcome DEF XvpAuth

\* A list of the server, before the rest of what it says.
LEMMA ListThen ==
  ASSUME NEW x, NEW q, IsList(q)
  PROVE Head(<<x>> \o q) = x /\ Tail(<<x>> \o q) = q
  <1>1. PICK S : q \in Seq(S)
    BY DEF IsList
  <1> DEFINE U == S \cup {x}
  <1>2. q \in Seq(U) /\ <<x>> \in Seq(U)
    BY <1>1
  <1> HIDE DEF U
  <1> DEFINE p == <<x>>
  <1>3. p # <<>> /\ Head(p) = x /\ Tail(p) = <<>>
    BY ListHeads
  <1>4. p \in Seq(U)
    BY <1>2
  <1>5. <<>> \o q = q
    BY <1>2
  <1> HIDE DEF p
  <1>6. Head(p \o q) = Head(p) /\ Tail(p \o q) = Tail(p) \o q
    BY <1>2, <1>3, <1>4, ConcatTail
  <1>7. Tail(p \o q) = q
    BY <1>3, <1>5, <1>6
  <1>8. Head(p \o q) = x
    BY <1>3, <1>6
  <1>9. QED
    BY <1>7, <1>8 DEF p

LEMMA TightSubOutcome ==
  ASSUME NEW s, Setting(s), NEW n, NEW u, DOMAIN Ask(n, s) = NetFields,
         IsServer(Ask(n, s).server),
         s.version = Ask(n, s).server.version, s.init = "Authentication",
         s.scheme = "tight", s.tight,
         Input(s, Ask(n, s).wire, SubAuths(Ask(n, s).server))
  PROVE Outcome(s, TightSubAuth(s), n, u)
  <1> DEFINE server == Ask(n, s).server
  <1>1. CASE ~Whole(s)
    <2>1. Stage(s, Ask(n, s).wire, Ask(n, s).server)
      BY DEF Stage, AuthInput
    <2>2. QED
      BY <1>1, <2>1, OutcomeStay DEF TightSubAuth
  <1>2. CASE Whole(s)
    <2> DEFINE t == Shift(s)
               x == Msg("subauth", server.subauth)
    <2>1. Like(t, t) /\ DOMAIN t = Fields
      BY AreLike DEF Setting, Like
    <2>2. /\ Onward(s, t, n, u) /\ Setting(t) /\ Ask(n, t) = Ask(n, s)
          /\ Head(s.rq) = Head(SubAuths(server))
          /\ Input(t, Ask(n, t).wire, Tail(SubAuths(server)))
      BY <1>2, <2>1, Takes
    <2>3. t.version = s.version /\ t.init = s.init /\ t.scheme = s.scheme
      BY OnwardShift
    <2>4. DOMAIN Ask(n, t) = NetFields
      BY <2>2
    <2>5. IsList(Result(server))
      BY ReplyLists
    <2>6. CASE server.subauth = {}
      <3> DEFINE r == [t EXCEPT !.init = "SecurityResult"]
      <3>1. SubAuths(server) = <<Msg("subauth", {})>> \o Result(server)
        BY <2>6, TightReplies
      <3>2. /\ Head(SubAuths(server)) = Msg("subauth", {})
            /\ Tail(SubAuths(server)) = Result(server)
        BY <2>5, <3>1, ListThen
      <3>3. Head(s.rq).val = {}
        BY <2>2, <3>2 DEF Msg
      <3>4. TightSubAuth(s) = r
        BY <1>2, <3>3 DEF TightSubAuth
      <3>5. Like(t, r) /\ r.init = "SecurityResult" /\ r.version = t.version /\ r.scheme = t.scheme
        BY <2>1, AreLike DEF Fields
      <3> HIDE DEF r, t
      <3>6. Onward(t, r, n, u) /\ Ask(n, r) = Ask(n, t)
        BY <2>2, <2>4, <3>5, OnwardQuiet DEF Like
      <3>7. Input(r, Ask(n, r).wire, Result(server))
        BY <2>2, <3>2, <3>5, <3>6, LikeInput
      <3>8. Stage(r, Ask(n, r).wire, Ask(n, r).server) /\ LeftAlone(r)
        BY <2>2, <2>3, <3>5, <3>6, <3>7 DEF Stage, LeftAlone
      <3>9. Outcome(t, r, n, u)
        BY <2>2, <2>4, <3>6, <3>8, Reaches
      <3>10. QED
        BY <2>2, <3>4, <3>9, Chain
    <2>7. CASE server.subauth # {}
      <3>1. SubAuths(server) = <<x>>
        BY <2>7, TightReplies
      <3>2. Head(SubAuths(server)) = x /\ Tail(SubAuths(server)) = <<>>
        BY <3>1, ListHeads
      <3>3. Head(s.rq).val = server.subauth
        BY <2>2, <3>2 DEF Msg
      <3>4. Input(t, Ask(n, t).wire, <<>>)
        BY <2>2, <3>2
      <3>5. CASE "noauth" \in server.subauth
        <4> DEFINE m == <<"subnoauth">>
                   k == Send(t, m)
                   r == [k EXCEPT !.init = "SecurityResult"]
                   a == Result(server)
        <4>1. TightSubAuth(s) = r
          BY <1>2, <2>7, <3>3, <3>5 DEF TightSubAuth
        <4>2. m[1] # "key"
          OBVIOUS
        <4>3. a = Reply(server, m)
          BY Replies
        <4> HIDE DEF t, m
        <4>4. DOMAIN k = Fields /\ k.version = t.version
          BY <2>1, <2>2, <2>4, <4>2, AreLike, OnwardSend
        <4>5. Like(k, r) /\ r.init = "SecurityResult" /\ r.version = k.version
          BY <4>4, AreLike DEF Fields
        <4> HIDE DEF r, a
        <4>6. a = Reply(Ask(n, t).server, m)
          BY <2>2, <4>3
        <4>7. IsList(a)
          BY <2>5 DEF a
        <4>8. /\ Onward(t, r, n, u) /\ Ask(n, r).server = Ask(n, t).server
              /\ Input(r, Ask(n, r).wire, a) /\ ~Whole(r)
          BY <2>2, <2>4, <3>4, <4>2, <4>5, <4>6, <4>7, Says
        <4>9. Stage(r, Ask(n, r).wire, Ask(n, r).server)
          BY <2>2, <2>3, <4>4, <4>5, <4>8 DEF Stage, a
        <4>10. Outcome(t, r, n, u)
          BY <2>2, <2>4, <4>8, <4>9, Reaches
        <4>11. QED
          BY <2>2, <4>1, <4>10, Chain
      <3>6. CASE "noauth" \notin server.subauth /\ "vncauth" \in server.subauth
        <4> DEFINE m == <<"subvncauth">>
                   k == Send(t, m)
                   r == [k EXCEPT !.scheme = "vnc"]
                   a == <<Challenge>>
        <4>1. TightSubAuth(s) = VncAuth(r)
          BY <1>2, <2>7, <3>3, <3>6 DEF TightSubAuth
        <4>2. m[1] # "key"
          OBVIOUS
        <4>3. a = Reply(server, m)
          BY Replies
        <4>4. IsList(a)
          BY ListSmall
        <4> HIDE DEF t, m
        <4>5. DOMAIN k = Fields /\ k.version = t.version /\ k.init = t.init
          BY <2>1, <2>2, <2>4, <4>2, AreLike, OnwardSend
        <4>6. Like(k, r) /\ r.init = k.init /\ r.version = k.version /\ r.scheme = "vnc"
          BY <4>5, AreLike DEF Fields
        <4> HIDE DEF r, a
        <4>7. a = Reply(Ask(n, t).server, m)
          BY <2>2, <4>3
        <4>8. /\ Onward(t, r, n, u) /\ Ask(n, r).server = Ask(n, t).server
              /\ Setting(r) /\ DOMAIN Ask(n, r) = NetFields
              /\ Input(r, Ask(n, r).wire, a)
          BY <2>2, <2>4, <3>4, <4>2, <4>4, <4>6, <4>7, Says
        <4>9. Input(r, Ask(n, r).wire, <<Challenge>>)
          BY <4>8 DEF a
        <4>10. Outcome(r, VncAuth(r), n, u)
          BY <2>2, <2>3, <4>5, <4>6, <4>8, <4>9, VncAuthOutcome
        <4>11. Outcome(t, VncAuth(r), n, u)
          BY <2>2, <4>8, <4>10, Chain
        <4>12. QED
          BY <2>2, <4>1, <4>11, Chain
      <3>7. CASE "noauth" \notin server.subauth /\ "vncauth" \notin server.subauth
        <4>1. TightSubAuth(s) = Fail(t)
          BY <1>2, <2>7, <3>3, <3>7 DEF TightSubAuth
        <4> HIDE DEF t
        <4>2. Outcome(t, Fail(t), n, u)
          BY <2>2, <2>4, OutcomeFail
        <4>3. QED
          BY <2>2, <4>1, <4>2, Chain
      <3>8. QED
        BY <3>5, <3>6, <3>7
    <2>8. QED
      BY <2>6, <2>7
  <1>3. QED
    BY <1>1, <1>2

LEMMA TightOutcome ==
  ASSUME NEW s, Setting(s), NEW n, NEW u, DOMAIN Ask(n, s) = NetFields,
         IsServer(Ask(n, s).server),
         s.version = Ask(n, s).server.version, s.init = "Authentication",
         s.scheme = "tight", AuthInput(s, Ask(n, s).wire, Ask(n, s).server)
  PROVE Outcome(s, TightAuth(s), n, u)
  <1> DEFINE server == Ask(n, s).server
  <1>1. CASE s.tight
    <2>1. Input(s, Ask(n, s).wire, SubAuths(Ask(n, s).server))
      BY <1>1 DEF AuthInput
    <2>2. QED
      BY <1>1, <2>1, TightSubOutcome DEF TightAuth
  <1>2. CASE ~s.tight /\ ~Whole(s)
    <2>1. Stage(s, Ask(n, s).wire, Ask(n, s).server)
      BY DEF Stage
    <2>2. QED
      BY <1>2, <2>1, OutcomeStay DEF TightAuth
  <1>3. CASE ~s.tight /\ Whole(s)
    <2> DEFINE t == [Shift(s) EXCEPT !.tight = TRUE]
               h == Shift(s)
               x == Msg("tunnels", server.tunnels)
    <2>1. DOMAIN s = Fields /\ DOMAIN h = Fields
      BY AreLike DEF Setting
    <2>2. Like(h, t) /\ DOMAIN t = Fields
      BY <2>1, AreLike DEF Like
    <2>3. /\ t.version = h.version /\ t.init = h.init /\ t.scheme = h.scheme
          /\ t.tight
      BY <2>1 DEF Fields
    <2>4. h.version = s.version /\ h.init = s.init /\ h.scheme = s.scheme
      BY OnwardShift
    <2>5. ~Input(s, Ask(n, s).wire, <<>>)
      BY <1>3, FedNone
    <2>6. Input(s, Ask(n, s).wire, Reply(server, <<"tight">>))
      BY <1>3, <2>5 DEF AuthInput
    <2> HIDE DEF t
    <2>7. /\ Onward(s, t, n, u) /\ Setting(t) /\ Ask(n, t) = Ask(n, s)
          /\ Head(s.rq) = Head(Reply(server, <<"tight">>))
          /\ Input(t, Ask(n, t).wire, Tail(Reply(server, <<"tight">>)))
      BY <1>3, <2>2, <2>6, Takes
    <2>8. DOMAIN Ask(n, t) = NetFields
      BY <2>7
    <2>9. CASE server.tunnels = {}
      <3>1. Reply(server, <<"tight">>) = <<Msg("tunnels", {})>> \o SubAuths(server)
        BY <2>9, TightReplies
      <3>2. IsList(SubAuths(server))
        BY ReplyLists
      <3>3. /\ Head(Reply(server, <<"tight">>)) = Msg("tunnels", {})
            /\ Tail(Reply(server, <<"tight">>)) = SubAuths(server)
        BY <3>1, <3>2, ListThen
      <3>4. Head(s.rq).val = {}
        BY <2>7, <3>3 DEF Msg
      <3>5. TightAuth(s) = TightSubAuth(t)
        BY <1>3, <3>4 DEF TightAuth, t
      <3>6. Input(t, Ask(n, t).wire, SubAuths(Ask(n, t).server))
        BY <2>7, <3>3
      <3>7. Outcome(t, TightSubAuth(t), n, u)
        BY <2>3, <2>4, <2>7, <2>8, <3>6, TightSubOutcome
      <3>8. QED
        BY <2>7, <3>5, <3>7, Chain
    <2>10. CASE server.tunnels # {}
      <3>1. Reply(server, <<"tight">>) = <<x>>
        BY <2>10, TightReplies
      <3>2. /\ Head(Reply(server, <<"tight">>)) = x
            /\ Tail(Reply(server, <<"tight">>)) = <<>>
        BY <3>1, ListHeads
      <3>3. Head(s.rq).val = server.tunnels
        BY <2>7, <3>2 DEF Msg
      <3>4. Input(t, Ask(n, t).wire, <<>>)
        BY <2>7, <3>2
      <3>5. CASE "notunnel" \in server.tunnels
        <4> DEFINE m == <<"tunnel">>
                   r == Send(t, m)
                   a == SubAuths(server)
        <4>1. TightAuth(s) = r
          BY <1>3, <2>10, <3>3, <3>5 DEF TightAuth, t
        <4>2. m[1] # "key"
          OBVIOUS
        <4>3. a = Reply(server, m)
          BY DEF SubAuths
        <4>4. IsList(a)
          BY ReplyLists
        <4> HIDE DEF m, a
        <4>0. DOMAIN r = Fields
          BY <2>2, AreLike
        <4>5. /\ r.version = t.version /\ r.init = t.init
              /\ r.scheme = t.scheme /\ r.tight = t.tight
          BY <2>7, <2>8, <4>2, OnwardSend
        <4>6. Like(r, r)
          BY <4>0, AreLike
        <4>7. a = Reply(Ask(n, t).server, m)
          BY <2>7, <4>3
        <4>8. Like(Send(t, m), r)
          BY <4>6
        <4> HIDE DEF r
        <4>9. /\ Onward(t, r, n, u) /\ Ask(n, r).server = Ask(n, t).server
              /\ Input(r, Ask(n, r).wire, a) /\ ~Whole(r)
          BY <2>7, <2>8, <3>4, <4>2, <4>4, <4>7, <4>8, Says
        <4>10. Stage(r, Ask(n, r).wire, Ask(n, r).server)
          BY <2>3, <2>4, <2>7, <4>5, <4>9 DEF Stage, AuthInput, a
        <4>11. Outcome(t, r, n, u)
          BY <2>7, <2>8, <4>9, <4>10, Reaches
        <4>12. QED
          BY <2>7, <4>1, <4>11, Chain
      <3>6. CASE "notunnel" \notin server.tunnels
        <4>1. TightAuth(s) = Fail(t)
          BY <1>3, <2>10, <3>3, <3>6 DEF TightAuth, t
        <4>2. Outcome(t, Fail(t), n, u)
          BY <2>7, <2>8, OutcomeFail
        <4>3. QED
          BY <2>7, <4>1, <4>2, Chain
      <3>7. QED
        BY <3>5, <3>6
    <2>11. QED
      BY <2>9, <2>10
  <1>4. QED
    BY <1>1, <1>2, <1>3

LEMMA AuthOutcome ==
  ASSUME NEW s, Setting(s), NEW n, NEW u, DOMAIN Ask(n, s) = NetFields,
         IsServer(Ask(n, s).server),
         s.version = Ask(n, s).server.version, s.init = "Authentication",
         \/ AuthInput(s, Ask(n, s).wire, Ask(n, s).server)
         \/ s.scheme \notin {"none", "vnc", "xvp", "tight"}
  PROVE Outcome(s, Authentication(s), n, u)
  <1>1. CASE s.scheme = "vnc"
    <2>1. Input(s, Ask(n, s).wire, <<Challenge>>)
      BY <1>1 DEF AuthInput
    <2>2. QED
      BY <1>1, <2>1, VncAuthOutcome DEF Authentication
  <1>2. CASE s.scheme = "xvp"
    <2>1. Input(s, Ask(n, s).wire, <<>>)
      BY <1>2 DEF AuthInput
    <2>2. QED
      BY <1>2, <2>1, XvpAuthOutcome DEF Authentication
  <1>3. CASE s.scheme = "tight"
    <2>1. AuthInput(s, Ask(n, s).wire, Ask(n, s).server)
      BY <1>3
    <2>2. QED
      BY <1>3, <2>1, TightOutcome DEF Authentication
  <1>4. CASE s.scheme \notin {"none", "vnc", "xvp", "tight"}
    <2>1. Authentication(s) = Fail(s)
      BY <1>4 DEF Authentication
    <2>2. QED
      BY <2>1, OutcomeFail
  <1>5. s.scheme # "none"
    BY DEF AuthInput
  <1>6. QED
    BY <1>1, <1>2, <1>3, <1>4, <1>5

\* Without authentication there is a result from 3.8 on.
LEMMA NoAuthOutcome ==
  ASSUME NEW s, Setting(s), NEW n, NEW u, DOMAIN Ask(n, s) = NetFields,
         s.version = Ask(n, s).server.version, s.scheme = "none", ~Whole(s),
         s.version >= 38 => Input(s, Ask(n, s).wire, Result(Ask(n, s).server)),
         ~(s.version >= 38) => Input(s, Ask(n, s).wire, <<>>)
  PROVE Outcome(s, Authentication(s), n, u)
  <1>1. CASE s.version >= 38
    <2> DEFINE r == [s EXCEPT !.init = "SecurityResult"]
    <2>1. Authentication(s) = r
      BY <1>1 DEF Authentication
    <2>2. DOMAIN s = Fields
      BY DEF Setting
    <2>3. Like(s, r) /\ r.init = "SecurityResult" /\ r.version = s.version
      BY <2>2, AreLike DEF Fields
    <2> HIDE DEF r
    <2>4. Onward(s, r, n, u) /\ Ask(n, r) = Ask(n, s)
      BY <2>3, OnwardQuiet DEF Like
    <2>5. Input(r, Ask(n, r).wire, Result(Ask(n, r).server)) /\ ~Whole(r)
      BY <1>1, <2>3, <2>4, LikeInput
    <2>6. Stage(r, Ask(n, r).wire, Ask(n, r).server)
      BY <2>3, <2>4, <2>5 DEF Stage
    <2>7. QED
      BY <2>1, <2>4, <2>5, <2>6, Reaches
  <1>2. CASE ~(s.version >= 38)
    <2>1. Authentication(s) = ClientInit(s)
      BY <1>2 DEF Authentication
    <2>2. QED
      BY <1>2, <2>1, ClientInitOutcome
  <1>3. QED
    BY <1>1, <1>2

LEMMA SecurityOutcome ==
  ASSUME NEW s, Setting(s), NEW n, NEW u, DOMAIN Ask(n, s) = NetFields,
         IsServer(Ask(n, s).server),
         s.version = Ask(n, s).server.version, s.init = "Security", ~s.tight,
         Input(s, Ask(n, s).wire, Offer(Ask(n, s).server))
  PROVE Outcome(s, NegotiateSecurity(s), n, u)
  <1> DEFINE server == Ask(n, s).server
  <1>1. CASE ~Whole(s)
    <2>1. Stage(s, Ask(n, s).wire, Ask(n, s).server)
      BY DEF Stage
    <2>2. QED
      BY <1>1, <2>1, OutcomeStay DEF NegotiateSecurity
  <1>2. CASE Whole(s)
    <2> DEFINE t == Shift(s)
               offer == server.types
               x == Msg("types", server.types)
               known == {k \in DOMAIN Preference : Preference[k] \in offer}
               best == Preference[Min(known)]
               Choose(v, c) == [v EXCEPT !.scheme = c, !.init = "Authentication"]
    <2>1. Like(t, t) /\ DOMAIN t = Fields
      BY AreLike DEF Setting, Like
    <2>2. /\ Onward(s, t, n, u) /\ Setting(t) /\ Ask(n, t) = Ask(n, s)
          /\ Head(s.rq) = Head(Offer(server))
          /\ Input(t, Ask(n, t).wire, Tail(Offer(server)))
      BY <1>2, <2>1, Takes
    <2>3. t.version = s.version /\ t.tight = s.tight
      BY OnwardShift
    <2>4. DOMAIN Ask(n, t) = NetFields
      BY <2>2
    <2>5. Head(Offer(server)) = x
      BY OfferIs, ListHeads
    <2>6. Head(s.rq).val = offer
      BY <2>2, <2>5 DEF Msg
    <2>7. NegotiateSecurity(s) = ChooseSecurity(t, offer)
      BY <1>2, <2>6 DEF NegotiateSecurity
    <2> HIDE DEF t
    <2>7a. ChooseSecurity(t, offer) =
            IF t.version >= 37
              THEN IF offer = {} THEN ToReason(t)
                   ELSE IF known = {} THEN Fail(t)
                   ELSE Authentication(Choose(Send(t, <<best>>), best))
              ELSE IF offer = {"invalid"} THEN ToReason(t)
                   ELSE Authentication(Choose(t, CHOOSE c \in offer : TRUE))
      BY DEF ChooseSecurity
    <2>8. CASE server.types \in {{}, {"invalid"}}
      <3>1. Offer(server) = <<x, Reason>>
        BY <2>8, OfferIs
      <3>2. Input(t, Ask(n, t).wire, <<Reason>>)
        BY <2>2, <3>1, ListHeads
      <3>3. NegotiateSecurity(s) = ToReason(t)
        BY <2>3, <2>7, <2>7a, <2>8 DEF IsServer
      <3>4. Outcome(t, ToReason(t), n, u)
        BY <2>2, <2>3, <2>4, <3>2, ToReasonOutcome
      <3>5. QED
        BY <2>2, <3>3, <3>4, Chain
    <2>9. CASE server.types \notin {{}, {"invalid"}} /\ s.version >= 37
      <3>1. Offer(server) = <<x>>
        BY <2>9, OfferIs
      <3>2. Input(t, Ask(n, t).wire, <<>>)
        BY <2>2, <3>1, ListHeads
      <3>3. CASE known = {}
        <4>1. NegotiateSecurity(s) = Fail(t)
          BY <2>3, <2>7, <2>7a, <2>9, <3>3
        <4>2. Outcome(t, Fail(t), n, u)
          BY <2>2, <2>4, OutcomeFail
        <4>3. QED
          BY <2>2, <4>1, <4>2, Chain
      <3>4. CASE known # {}
        <4> DEFINE m == <<best>>
                   k == Send(t, m)
                   r == Choose(k, best)
        <4>1. Min(known) \in known
          <5>1. known \subseteq 1 .. 4 /\ known # {}
            BY <3>4 DEF Preference
          <5> HIDE DEF known
          <5>2. \E c \in known : \A d \in known : c <= d
            <6>1. CASE 1 \in known
              <7>1. \A d \in known : 1 <= d
                BY <5>1
              <7>2. QED
                BY <6>1, <7>1
            <6>2. CASE 1 \notin known /\ 2 \in known
              <7>1. \A d \in known : 2 <= d
                BY <5>1, <6>2
              <7>2. QED
                BY <6>2, <7>1
            <6>3. CASE 1 \notin known /\ 2 \notin known /\ 3 \in known
              <7>1. \A d \in known : 3 <= d
                BY <5>1, <6>3
              <7>2. QED
                BY <6>3, <7>1
            <6>4. CASE 1 \notin known /\ 2 \notin known /\ 3 \notin known
              <7>1. \A d \in known : d = 4
                BY <5>1, <6>4
              <7>2. PICK d \in known : TRUE
                BY <5>1
              <7>3. QED
                BY <7>1, <7>2
            <6>5. QED
              BY <6>1, <6>2, <6>3, <6>4
          <5>3. QED
            BY <5>2 DEF Min
        <4>2. best \in {"none", "xvp", "tight", "vnc"}
          BY <4>1 DEF Preference
        <4>3. NegotiateSecurity(s) = Authentication(r)
          BY <2>3, <2>7, <2>7a, <2>9, <3>4
        <4> HIDE DEF best
        <4>4. m[1] # "key"
          BY <4>2
        <4> DEFINE a == Reply(server, m)
        <4>5. /\ best = "none" => a = IF server.version >= 38 THEN Result(server) ELSE <<>>
              /\ best = "vnc" => a = <<Challenge>>
              /\ best = "xvp" => a = <<>>
              /\ best = "tight" => a = Reply(server, <<"tight">>)
          BY Replies
        <4>6. IsList(a)
          BY <4>2, <4>5, ReplyLists, ListEmpty
        <4> HIDE DEF m, a
        <4>7. DOMAIN k = Fields
          BY <2>1, AreLike
        <4>8. k.version = t.version /\ k.tight = t.tight
          BY <2>2, <2>4, <4>4, OnwardSend
        <4>9. /\ Like(k, r) /\ r.init = "Authentication" /\ r.scheme = best
              /\ r.version = k.version /\ r.tight = k.tight
          BY <4>7, AreLike DEF Fields
        <4> HIDE DEF r
        <4>10. a = Reply(Ask(n, t).server, m)
          BY <2>2 DEF a
        <4>11. /\ Onward(t, r, n, u) /\ Ask(n, r).server = Ask(n, t).server
               /\ Setting(r) /\ DOMAIN Ask(n, r) = NetFields
               /\ Input(r, Ask(n, r).wire, a) /\ ~Whole(r)
          BY <2>2, <2>4, <3>2, <4>4, <4>6, <4>9, <4>10, Says
        <4>12. r.version = server.version /\ Ask(n, r).server = server /\ ~r.tight
          BY <2>2, <2>3, <4>8, <4>9, <4>11
        <4>13. Outcome(r, Authentication(r), n, u)
          <5>1. CASE best = "none"
            BY <4>5, <4>9, <4>11, <4>12, <5>1, NoAuthOutcome
          <5>2. CASE best \in {"vnc", "xvp", "tight"}
            <6>1. AuthInput(r, Ask(n, r).wire, Ask(n, r).server)
              BY <4>5, <4>9, <4>11, <4>12, <5>2 DEF AuthInput
            <6>2. QED
              BY <4>9, <4>11, <4>12, <6>1, AuthOutcome
          <5>3. QED
            BY <4>2, <5>1, <5>2
        <4>14. Outcome(t, Authentication(r), n, u)
          BY <2>2, <4>11, <4>13, Chain
        <4>15. QED
          BY <2>2, <4>3, <4>14, Chain
      <3>5. QED
        BY <3>3, <3>4
    <2>10. CASE server.types \notin {{}, {"invalid"}} /\ ~(s.version >= 37)
      <3> DEFINE c == CHOOSE y \in offer : TRUE
                 r == Choose(t, c)
      <3>1. server.version = 33 /\ offer = {c}
        BY <2>10 DEF IsServer
      <3>2. NegotiateSecurity(s) = Authentication(r)
        BY <2>3, <2>7, <2>7a, <2>10
      <3> HIDE DEF c
      <3>3. /\ Like(t, r) /\ r.init = "Authentication" /\ r.scheme = c
            /\ r.version = t.version /\ r.tight = t.tight
        BY <2>1, AreLike DEF Fields
      <3> HIDE DEF r
      <3>4. Onward(t, r, n, u) /\ Ask(n, r) = Ask(n, t)
        BY <2>2, <2>4, <3>3, OnwardQuiet DEF Like
      <3>5. Setting(r)
        BY <3>4 DEF Onward
      <3>6. CASE c = "vnc"
        <4>1. Offer(server) = <<x, Challenge>>
          BY <2>10, <3>1, <3>6, OfferIs
        <4>2. Input(t, Ask(n, t).wire, <<Challenge>>)
          BY <2>2, <4>1, ListHeads
        <4>3. Input(r, Ask(n, r).wire, <<Challenge>>)
          BY <3>3, <3>4, <4>2, LikeInput
        <4>4. AuthInput(r, Ask(n, r).wire, Ask(n, r).server)
          BY <3>3, <3>6, <4>3 DEF AuthInput
        <4>5. Outcome(r, Authentication(r), n, u)
          BY <2>2, <2>3, <2>4, <3>3, <3>4, <3>5, <4>4, AuthOutcome
        <4>6. Outcome(t, Authentication(r), n, u)
          BY <2>2, <3>4, <4>5, Chain
        <4>7. QED
          BY <2>2, <3>2, <4>6, Chain
      <3>7. CASE c # "vnc"
        <4>1. Offer(server) = <<x>>
          BY <2>10, <3>1, <3>7, OfferIs
        <4>2. Input(t, Ask(n, t).wire, <<>>)
          BY <2>2, <4>1, ListHeads
        <4>3. Input(r, Ask(n, r).wire, <<>>) /\ ~Whole(r)
          BY <3>3, <3>4, <4>2, LikeInput, FedNone
        <4>4. Outcome(r, Authentication(r), n, u)
          <5>1. CASE c = "none"
            BY <2>2, <2>3, <2>4, <3>1, <3>3, <3>4, <3>5, <4>3, <5>1, NoAuthOutcome
          <5>2. CASE c # "none"
            <6>1. \/ AuthInput(r, Ask(n, r).wire, Ask(n, r).server)
                  \/ r.scheme \notin {"none", "vnc", "xvp", "tight"}
              BY <2>3, <3>3, <3>7, <4>3, <5>2 DEF AuthInput
            <6>2. QED
              BY <2>2, <2>3, <2>4, <3>3, <3>4, <3>5, <6>1, AuthOutcome
          <5>3. QED
            BY <5>1, <5>2
        <4>5. Outcome(t, Authentication(r), n, u)
          BY <2>2, <3>4, <4>4, Chain
        <4>6. QED
          BY <2>2, <3>2, <4>5, Chain
      <3>8. QED
        BY <3>6, <3>7
    <2>11. QED
      BY <2>8, <2>9, <2>10
  <1>3. QED
    BY <1>1, <1>2

LEMMA VersionOutcome ==
  ASSUME NEW s, Setting(s), NEW n, NEW u, DOMAIN Ask(n, s) = NetFields,
         IsServer(Ask(n, s).server), s.init = "ProtocolVersion", ~s.tight,
         NEW g \in {Repeater, Unknown, Ask(n, s).server.version},
         Input(s, Ask(n, s).wire, <<Msg("version", g)>>)
  PROVE Outcome(s, NegotiateVersion(s), n, u)
  <1> DEFINE server == Ask(n, s).server
  <1>1. CASE ~Whole(s)
    <2>1. Stage(s, Ask(n, s).wire, Ask(n, s).server)
      BY DEF Stage
    <2>2. QED
      BY <1>1, <2>1, OutcomeStay DEF NegotiateVersion
  <1>2. CASE Whole(s)
    <2> DEFINE t == Shift(s)
               x == Msg("version", g)
    <2>1. Like(t, t) /\ DOMAIN t = Fields
      BY AreLike DEF Setting, Like
    <2>2. /\ Onward(s, t, n, u) /\ Setting(t) /\ Ask(n, t) = Ask(n, s)
          /\ Head(s.rq) = Head(<<x>>)
          /\ Input(t, Ask(n, t).wire, Tail(<<x>>))
      BY <1>2, <2>1, Takes
    <2>3. t.init = s.init /\ t.tight = s.tight
      BY OnwardShift
    <2>4. DOMAIN Ask(n, t) = NetFields
      BY <2>2
    <2>5. Head(s.rq).val = g
      BY <2>2, ListHeads DEF Msg
    <2>6. Input(t, Ask(n, t).wire, <<>>)
      BY <2>2, ListHeads
    <2>7. NegotiateVersion(s) =
            CASE g = Repeater -> Send(t, <<"id">>)
              [] g = Unknown -> Fail(t)
              [] OTHER -> [Send(t, <<"version">>) EXCEPT !.version = g,
                                                        !.init = "Security"]
      BY <1>2, <2>5 DEF NegotiateVersion
    <2>8. Repeater # Unknown /\ server.version \notin {Repeater, Unknown}
      BY DEF IsServer, Repeater, Unknown
    <2>7a. /\ g = Repeater => NegotiateVersion(s) = Send(t, <<"id">>)
           /\ g = Unknown => NegotiateVersion(s) = Fail(t)
           /\ g # Repeater /\ g # Unknown =>
                NegotiateVersion(s) = [Send(t, <<"version">>) EXCEPT !.version = g,
                                                                     !.init = "Security"]
      <3> DEFINE A == Send(t, <<"id">>)
                 B == Fail(t)
                 C == [Send(t, <<"version">>) EXCEPT !.version = g, !.init = "Security"]
      <3>1. NegotiateVersion(s) =
              CASE g = Repeater -> A [] g = Unknown -> B [] OTHER -> C
        BY <2>7
      <3> HIDE DEF A, B, C
      <3>2. g # Repeater /\ g # Unknown => NegotiateVersion(s) = C
        BY <3>1
      <3>3. g = Repeater => NegotiateVersion(s) = A
        BY <2>8, <3>1
      <3>4. g = Unknown => NegotiateVersion(s) = B
        BY <2>8, <3>1
      <3>5. QED
        BY <3>2, <3>3, <3>4 DEF A, B, C
    <2> HIDE DEF t
    <2>9. CASE g = Repeater
      <3> DEFINE m == <<"id">>
                 r == Send(t, m)
                 a == <<Msg("version", server.version)>>
      <3>1. NegotiateVersion(s) = r
        BY <2>7a, <2>9
      <3>2. m[1] # "key"
        OBVIOUS
      <3>3. a = Reply(server, m)
        BY Replies
      <3>4. IsList(a)
        BY ListSmall
      <3> HIDE DEF m
      <3>5. DOMAIN r = Fields
        BY <2>1, AreLike
      <3>6. r.init = t.init /\ r.tight = t.tight
        BY <2>2, <2>4, <3>2, OnwardSend
      <3>7. Like(Send(t, m), r)
        BY <3>5, AreLike
      <3> HIDE DEF r, a
      <3>8. a = Reply(Ask(n, t).server, m)
        BY <2>2, <3>3
      <3>9. /\ Onward(t, r, n, u) /\ Ask(n, r).server = Ask(n, t).server
            /\ Input(r, Ask(n, r).wire, a) /\ ~Whole(r)
        BY <2>2, <2>4, <2>6, <3>2, <3>4, <3>7, <3>8, Says
      <3>10. Stage(r, Ask(n, r).wire, Ask(n, r).server)
        BY <2>2, <2>3, <3>6, <3>9 DEF Stage, a
      <3>11. Outcome(t, r, n, u)
        BY <2>2, <2>4, <3>9, <3>10, Reaches
      <3>12. QED
        BY <2>2, <3>1, <3>11, Chain
    <2>10. CASE g = Unknown
      <3>1. NegotiateVersion(s) = Fail(t)
        BY <2>7a, <2>10
      <3>2. Outcome(t, Fail(t), n, u)
        BY <2>2, <2>4, OutcomeFail
      <3>3. QED
        BY <2>2, <3>1, <3>2, Chain
    <2>11. CASE g = server.version
      <3> DEFINE m == <<"version">>
                 k == Send(t, m)
                 r == [k EXCEPT !.version = g, !.init = "Security"]
                 a == Offer(server)
      <3>1. NegotiateVersion(s) = r
        <4>1. g # Repeater /\ g # Unknown
          BY <2>8, <2>11
        <4>2. QED
          BY <2>7a, <4>1
      <3>2. m[1] # "key"
        OBVIOUS
      <3>3. a = Reply(server, m)
        BY Replies
      <3>4. IsList(a)
        BY ReplyLists
      <3> HIDE DEF m
      <3>5. DOMAIN k = Fields
        BY <2>1, AreLike
      <3>6. k.tight = t.tight
        BY <2>2, <2>4, <3>2, OnwardSend
      <3>7. Like(k, r) /\ r.init = "Security" /\ r.version = g /\ r.tight = k.tight
        BY <3>5, AreLike DEF Fields
      <3> HIDE DEF r, a
      <3>8. a = Reply(Ask(n, t).server, m)
        BY <2>2, <3>3
      <3>9. /\ Onward(t, r, n, u) /\ Ask(n, r).server = Ask(n, t).server
            /\ Input(r, Ask(n, r).wire, a) /\ ~Whole(r)
        BY <2>2, <2>4, <2>6, <3>2, <3>4, <3>7, <3>8, Says
      <3>10. Stage(r, Ask(n, r).wire, Ask(n, r).server)
        BY <2>2, <2>3, <2>11, <3>6, <3>7, <3>9 DEF Stage, a
      <3>11. Outcome(t, r, n, u)
        BY <2>2, <2>4, <3>9, <3>10, Reaches
      <3>12. QED
        BY <2>2, <3>1, <3>11, Chain
    <2>12. QED
      BY <2>9, <2>10, <2>11
  <1>3. QED
    BY <1>1, <1>2

\* One callback of the handshake.
LEMMA HandshakeOutcome ==
  ASSUME NEW s, Setting(s), NEW n, NEW u, DOMAIN Ask(n, s) = NetFields,
         IsServer(Ask(n, s).server), NEW enough,
         Stage(s, Ask(n, s).wire, Ask(n, s).server)
  PROVE Outcome(s, InitMsg(s, enough), n, u)
  <1>1. CASE s.init = "ProtocolVersion"
    BY <1>1, VersionOutcome DEF Stage, InitMsg
  <1>2. CASE s.init = "Security"
    BY <1>2, SecurityOutcome DEF Stage, InitMsg
  <1>3. CASE s.init = "Authentication"
    BY <1>3, AuthOutcome DEF Stage, InitMsg
  <1>4. CASE s.init = "SecurityResult"
    BY <1>4, ResultOutcome DEF Stage, InitMsg
  <1>5. CASE s.init = "SecurityReason"
    BY <1>5, ReasonOutcome DEF Stage, InitMsg
  <1>6. CASE s.init = "ServerInitialisation"
    BY <1>6, ServerInitOutcome DEF Stage, InitMsg
  <1>7. QED
    BY <1>1, <1>2, <1>3, <1>4, <1>5, <1>6 DEF Stage

-----------------------------------------------------------------------------
(* The page.                                                               *)

PageFields ==
  {"cur", "connected", "inhibit", "reconnect", "password", "wantsReconnect",
   "viewOnly", "visual", "dlg", "ask", "status", "hide", "bar", "barTimer",
   "panel", "power", "mods"}

\* The power panel is open only while there is a power button, and that only
\* while there is a connection.
PowerFits(u) == (u.panel = "power" => u.power) /\ (u.power => u.connected)

\* What each listener does to the page.
LEMMA StatusPage ==
  ASSUME NEW u, DOMAIN u = PageFields, NEW kind, NEW text
  PROVE LET v == ShowStatus(u, kind, text)
        IN /\ DOMAIN v = PageFields
           /\ v.cur = u.cur /\ v.connected = u.connected /\ v.reconnect = u.reconnect
           /\ v.visual = u.visual /\ v.ask = u.ask /\ v.mods = u.mods
           /\ v.power = u.power /\ v.panel = u.panel
           /\ v.inhibit = u.inhibit /\ v.wantsReconnect = u.wantsReconnect
           /\ v.status.text \in {u.status.text, text}
           /\ kind = "error" => v.status.kind = "error"
           /\ u.status.kind = "error" => v.status = u.status
  <1> DEFINE keep == u.status.kind = "error"
                     \/ (u.status.kind = "warn" /\ kind = "normal")
             a == [u EXCEPT !.hide = FALSE]
             x == [kind |-> kind, text |-> text]
             b == [u EXCEPT !.status = x, !.hide = kind # "error"]
             v == ShowStatus(u, kind, text)
  <1>1. /\ DOMAIN a = PageFields
        /\ a.cur = u.cur /\ a.connected = u.connected /\ a.reconnect = u.reconnect
        /\ a.visual = u.visual /\ a.ask = u.ask /\ a.mods = u.mods
        /\ a.power = u.power /\ a.panel = u.panel /\ a.status = u.status
        /\ a.inhibit = u.inhibit /\ a.wantsReconnect = u.wantsReconnect
    BY DEF PageFields
  <1>2. x.kind = kind /\ x.text = text
    OBVIOUS
  <1>3. v = IF keep THEN a ELSE b
    BY DEF ShowStatus
  <1> HIDE DEF x
  <1>4. /\ DOMAIN b = PageFields
        /\ b.cur = u.cur /\ b.connected = u.connected /\ b.reconnect = u.reconnect
        /\ b.visual = u.visual /\ b.ask = u.ask /\ b.mods = u.mods
        /\ b.power = u.power /\ b.panel = u.panel /\ b.status = x
        /\ b.inhibit = u.inhibit /\ b.wantsReconnect = u.wantsReconnect
    BY DEF PageFields
  <1> HIDE DEF a, b, v
  <1>5. CASE keep
    <2>1. v = a
      BY <1>3, <1>5
    <2>2. kind = "error" => u.status.kind = "error"
      BY <1>5
    <2>3. QED
      BY <1>1, <2>1, <2>2 DEF v
  <1>6. CASE ~keep
    <2>1. v = b
      BY <1>3, <1>6
    <2>2. u.status.kind # "error"
      BY <1>6
    <2>3. QED
      BY <1>2, <1>4, <2>1, <2>2 DEF v
  <1>7. QED
    BY <1>5, <1>6

LEMMA VisualPage ==
  ASSUME NEW u, DOMAIN u = PageFields, NEW state
  PROVE LET v == UpdateVisualState(u, state)
        IN /\ DOMAIN v = PageFields
           /\ v.cur = u.cur /\ v.connected = u.connected /\ v.reconnect = u.reconnect
           /\ v.visual = state /\ ~v.ask /\ v.mods = u.mods /\ v.status = u.status
           /\ u.connected => v.power = u.power /\ v.panel = u.panel
           /\ ~u.connected => ~v.power /\ v.panel # "power"
           /\ v.inhibit = u.inhibit /\ v.wantsReconnect = u.wantsReconnect
  <1> DEFINE w == [u EXCEPT !.visual = state, !.ask = FALSE]
             a == [w EXCEPT !.barTimer = TRUE]
             b == [w EXCEPT !.barTimer = FALSE, !.power = FALSE,
                            !.panel = IF @ = "power" THEN "none" ELSE @]
             v == UpdateVisualState(u, state)
  <1>1. v = IF u.connected THEN a ELSE b
    BY DEF UpdateVisualState
  <1>2. /\ DOMAIN w = PageFields
        /\ w.cur = u.cur /\ w.connected = u.connected /\ w.reconnect = u.reconnect
        /\ w.visual = state /\ ~w.ask /\ w.mods = u.mods /\ w.status = u.status
        /\ w.power = u.power /\ w.panel = u.panel
        /\ w.inhibit = u.inhibit /\ w.wantsReconnect = u.wantsReconnect
    BY DEF PageFields
  <1> HIDE DEF w
  <1>3. /\ DOMAIN a = PageFields
        /\ a.cur = w.cur /\ a.connected = w.connected /\ a.reconnect = w.reconnect
        /\ a.visual = w.visual /\ a.ask = w.ask /\ a.mods = w.mods /\ a.status = w.status
        /\ a.power = w.power /\ a.panel = w.panel
        /\ a.inhibit = w.inhibit /\ a.wantsReconnect = w.wantsReconnect
    BY <1>2 DEF PageFields
  <1>4. /\ DOMAIN b = PageFields
        /\ b.cur = w.cur /\ b.connected = w.connected /\ b.reconnect = w.reconnect
        /\ b.visual = w.visual /\ b.ask = w.ask /\ b.mods = w.mods /\ b.status = w.status
        /\ ~b.power /\ b.panel # "power"
        /\ b.inhibit = w.inhibit /\ b.wantsReconnect = w.wantsReconnect
    BY <1>2 DEF PageFields
  <1> HIDE DEF a, b, v
  <1>5. CASE u.connected
    <2>1. v = a
      BY <1>1, <1>5
    <2>2. QED
      BY <1>2, <1>3, <1>5, <2>1 DEF v
  <1>6. CASE ~u.connected
    <2>1. v = b
      BY <1>1, <1>6
    <2>2. QED
      BY <1>2, <1>4, <1>6, <2>1 DEF v
  <1>7. QED
    BY <1>5, <1>6

\* What the page knows of a connection does not change.
SamePage(u, v) ==
  /\ DOMAIN v = PageFields
  /\ v.cur = u.cur /\ v.connected = u.connected /\ v.reconnect = u.reconnect
  /\ v.visual = u.visual /\ v.ask = u.ask /\ v.mods = u.mods
  /\ v.status = u.status
  /\ PowerFits(u) => PowerFits(v)

LEMMA PowerPage ==
  ASSUME NEW u, DOMAIN u = PageFields, NEW may
  PROVE SamePage(u, UpdatePowerButton(u, may))
  <1> DEFINE on == u.connected /\ may
             v == [u EXCEPT !.power = on,
                            !.panel = IF ~on /\ @ = "power" THEN "none" ELSE @]
  <1>1. UpdatePowerButton(u, may) = v
    BY DEF UpdatePowerButton
  <1>2. on => u.connected
    OBVIOUS
  <1> HIDE DEF on
  <1>3. /\ DOMAIN v = PageFields
        /\ v.cur = u.cur /\ v.connected = u.connected /\ v.reconnect = u.reconnect
        /\ v.visual = u.visual /\ v.ask = u.ask /\ v.mods = u.mods /\ v.status = u.status
        /\ v.power = on /\ v.panel = IF ~on /\ u.panel = "power" THEN "none" ELSE u.panel
    BY DEF PageFields
  <1> HIDE DEF v
  <1>4. PowerFits(v)
    BY <1>2, <1>3 DEF PowerFits
  <1>5. QED
    BY <1>1, <1>3, <1>4 DEF SamePage

LEMMA ConnectPage ==
  ASSUME NEW u, DOMAIN u = PageFields
  PROVE LET v == ConnectFinished(u)
        IN /\ DOMAIN v = PageFields
           /\ v.cur = u.cur /\ v.connected /\ v.reconnect = u.reconnect
           /\ v.visual = "connected" /\ ~v.ask /\ v.mods = u.mods
           /\ v.status.text \in {u.status.text, "connected"}
           /\ PowerFits(u) => PowerFits(v)
  <1> DEFINE a == [u EXCEPT !.connected = TRUE, !.inhibit = FALSE]
             b == ShowStatus(a, "normal", "connected")
             v == UpdateVisualState(b, "connected")
  <1>1. ConnectFinished(u) = v
    BY DEF ConnectFinished
  <1>2. /\ DOMAIN a = PageFields
        /\ a.cur = u.cur /\ a.connected /\ a.reconnect = u.reconnect
        /\ a.mods = u.mods /\ a.status = u.status /\ a.power = u.power /\ a.panel = u.panel
    BY DEF PageFields
  <1> HIDE DEF a
  <1>3. /\ DOMAIN b = PageFields
        /\ b.cur = a.cur /\ b.connected = a.connected /\ b.reconnect = a.reconnect
        /\ b.mods = a.mods /\ b.power = a.power /\ b.panel = a.panel
        /\ b.status.text \in {a.status.text, "connected"}
    BY <1>2, StatusPage
  <1> HIDE DEF b
  <1>4. /\ DOMAIN v = PageFields
        /\ v.cur = b.cur /\ v.connected = b.connected /\ v.reconnect = b.reconnect
        /\ v.visual = "connected" /\ ~v.ask /\ v.mods = b.mods /\ v.status = b.status
        /\ b.connected => v.power = b.power /\ v.panel = b.panel
    BY <1>3, VisualPage
  <1> HIDE DEF v
  <1>5. PowerFits(u) => PowerFits(v)
    BY <1>2, <1>3, <1>4 DEF PowerFits
  <1>6. QED
    BY <1>1, <1>2, <1>3, <1>4, <1>5

\* The page when a connection has ended.
Closed(u, v) ==
  /\ DOMAIN v = PageFields
  /\ v.cur = NONE /\ ~v.connected /\ ~v.ask /\ v.mods = u.mods
  /\ v.visual \in {"disconnected", "reconnecting"}
  /\ v.reconnect => u.reconnect \/ v.visual = "reconnecting"
  /\ ~v.power /\ v.panel # "power"

LEMMA DisconnectPage ==
  ASSUME NEW u, DOMAIN u = PageFields, NEW clean
  PROVE LET v == DisconnectFinished(u, clean)
        IN /\ Closed(u, v)
           /\ ~clean /\ u.status.kind = "error" => v.status = u.status
  <1> DEFINE a == [u EXCEPT !.connected = FALSE, !.cur = NONE]
             b == UpdateVisualState(a, "disconnected")
             c == UpdateVisualState(a, "reconnecting")
             k == IF u.connected THEN "wrong" ELSE "failed"
             Panels(x) == [x EXCEPT !.bar = TRUE, !.dlg = TRUE]
             d == ShowStatus(b, "error", k)
             e == ShowStatus(b, "normal", "disconnected")
             f == [c EXCEPT !.reconnect = TRUE]
             v == DisconnectFinished(u, clean)
  <1>1. \/ ~clean /\ v = Panels(d)
        \/ clean /\ v = f
        \/ clean /\ v = Panels(e)
    BY DEF DisconnectFinished
  <1>2. /\ DOMAIN a = PageFields
        /\ a.cur = NONE /\ ~a.connected /\ a.reconnect = u.reconnect
        /\ a.mods = u.mods /\ a.status = u.status
    BY DEF PageFields
  <1> HIDE DEF a, v
  <1>3. /\ Closed(u, b) /\ b.status = a.status
    <2>1. DOMAIN b = PageFields /\ ~b.power /\ b.panel # "power"
      BY <1>2, VisualPage
    <2>2. /\ b.cur = a.cur /\ b.connected = a.connected /\ b.reconnect = a.reconnect
          /\ b.visual = "disconnected" /\ ~b.ask /\ b.mods = a.mods /\ b.status = a.status
      BY <1>2, VisualPage
    <2>3. QED
      BY <1>2, <2>1, <2>2 DEF Closed
  <1>4. Closed(u, c) /\ c.visual = "reconnecting"
    <2>1. DOMAIN c = PageFields /\ ~c.power /\ c.panel # "power"
      BY <1>2, VisualPage
    <2>2. /\ c.cur = a.cur /\ c.connected = a.connected /\ c.reconnect = a.reconnect
          /\ c.visual = "reconnecting" /\ ~c.ask /\ c.mods = a.mods
      BY <1>2, VisualPage
    <2>3. QED
      BY <1>2, <2>1, <2>2 DEF Closed
  <1> HIDE DEF b, c
  <1>5. Closed(u, d) /\ (b.status.kind = "error" => d.status = b.status)
    BY <1>3, StatusPage DEF Closed
  <1>6. Closed(u, e)
    BY <1>3, StatusPage DEF Closed
  <1> HIDE DEF d, e
  <1>7. \A x : Closed(u, x) => Closed(u, Panels(x)) /\ Panels(x).status = x.status
    BY DEF Closed, PageFields
  <1>8. Closed(u, f)
    BY <1>4 DEF Closed, PageFields
  <1> HIDE DEF Panels, f
  <1>9. QED
    BY <1>1, <1>2, <1>3, <1>5, <1>6, <1>7, <1>8 DEF v

LEMMA CredentialsPage ==
  ASSUME NEW u, DOMAIN u = PageFields
  PROVE LET v == Credentials(u)
        IN /\ DOMAIN v = PageFields
           /\ v.cur = u.cur /\ v.connected = u.connected /\ v.reconnect = u.reconnect
           /\ v.visual = u.visual /\ v.ask /\ v.mods = u.mods
           /\ v.power = u.power /\ v.panel = u.panel
           /\ v.status.text \in {u.status.text, "password"}
  <1> DEFINE a == [u EXCEPT !.ask = TRUE]
  <1>1. /\ DOMAIN a = PageFields
        /\ a.cur = u.cur /\ a.connected = u.connected /\ a.reconnect = u.reconnect
        /\ a.visual = u.visual /\ a.ask /\ a.mods = u.mods /\ a.status = u.status
        /\ a.power = u.power /\ a.panel = u.panel
    BY DEF PageFields
  <1> HIDE DEF a
  <1>2. QED
    BY <1>1, StatusPage DEF Credentials, a

LEMMA RejectedPage ==
  ASSUME NEW u, DOMAIN u = PageFields
  PROVE LET v == SecurityFailed(u)
        IN /\ DOMAIN v = PageFields
           /\ v.cur = u.cur /\ v.connected = u.connected /\ v.reconnect = u.reconnect
           /\ v.visual = u.visual /\ v.ask = u.ask /\ v.mods = u.mods
           /\ v.power = u.power /\ v.panel = u.panel
           /\ v.status.text \in {u.status.text, "rejected"}
           /\ v.status.kind = "error"
  BY StatusPage DEF SecurityFailed

-----------------------------------------------------------------------------
(* A session that has ended goes through the same code.                    *)

\* What such a session can tell the page, and what the page makes of it.
StillPage(u, v) ==
  /\ DOMAIN v = PageFields
  /\ v.cur = u.cur /\ v.connected = u.connected /\ v.reconnect = u.reconnect
  /\ v.visual = u.visual /\ v.mods = u.mods /\ v.power = u.power /\ v.panel = u.panel
  /\ v.status.text = "failed" => u.status.text = "failed"
  /\ u.ask => v.ask

Still(s, r) ==
  /\ DOMAIN r = Fields /\ Lists(r)
  /\ r.conn = s.conn /\ r.sock = s.sock /\ r.hears = s.hears /\ r.timer = s.timer
  /\ r.screen = s.screen /\ r.retry = s.retry /\ r.out = s.out
  /\ r.clean => s.clean
  /\ r.grabbed => s.grabbed \/ r.events # <<>>
  /\ \/ r.events = s.events
     \/ r.events # <<>> /\ Last(r.events)[1] # "disconnect"
  /\ \A u : DOMAIN Tell(u, s) = PageFields => StillPage(Tell(u, s), Tell(u, r))

Closing(s) ==
  /\ DOMAIN s = Fields /\ Lists(s)
  /\ s.conn \in {"disconnecting", "disconnected"} /\ s.sock # "open"
Dying(s) == Closing(s) /\ s.conn = "disconnected"

\* Each stage again, for a session that has ended and whose timer comes.
LEMMA StillTrans ==
  ASSUME NEW s, NEW t, NEW r, Still(s, t), Still(t, r)
  PROVE Still(s, r)
  <1>1. r.grabbed => s.grabbed \/ r.events # <<>>
    BY DEF Still
  <1>2. \/ r.events = s.events
        \/ r.events # <<>> /\ Last(r.events)[1] # "disconnect"
    BY DEF Still
  <1>3. ASSUME NEW u, DOMAIN Tell(u, s) = PageFields
        PROVE StillPage(Tell(u, s), Tell(u, r))
    <2>1. StillPage(Tell(u, s), Tell(u, t))
      BY <1>3 DEF Still
    <2>2. DOMAIN Tell(u, t) = PageFields
      BY <2>1 DEF StillPage
    <2>3. StillPage(Tell(u, t), Tell(u, r))
      BY <2>2 DEF Still
    <2>4. QED
      BY <2>1, <2>3 DEF StillPage
  <1>4. /\ DOMAIN r = Fields /\ Lists(r)
        /\ r.conn = s.conn /\ r.sock = s.sock /\ r.hears = s.hears /\ r.timer = s.timer
        /\ r.screen = s.screen /\ r.retry = s.retry /\ r.out = s.out
        /\ r.clean => s.clean
    BY DEF Still
  <1>5. QED
    BY <1>1, <1>2, <1>3, <1>4 DEF Still

LEMMA StillAlike ==
  ASSUME NEW s, Closing(s), NEW r, DOMAIN r = Fields,
         r.conn = s.conn, r.sock = s.sock, r.hears = s.hears, r.timer = s.timer,
         r.screen = s.screen, r.retry = s.retry, r.out = s.out,
         r.events = s.events, r.clean => s.clean, r.grabbed = s.grabbed
  PROVE Still(s, r) /\ Closing(r) /\ \A u : Tell(u, r) = Tell(u, s)
  <1>1. Lists(r) /\ \A u : Tell(u, r) = Tell(u, s)
    BY SameQueues DEF Closing
  <1>2. QED
    BY <1>1 DEF Still, StillPage, Closing

\* It remembers something.
LEMMA StillSets ==
  ASSUME NEW s, Closing(s)
  PROVE /\ Still(s, s)
        /\ Still(s, Shift(s)) /\ Closing(Shift(s)) /\ Shift(s).conn = s.conn
        /\ \A m : Send(s, m) = s
        /\ \A x : LET r == [s EXCEPT !.init = x]
                  IN Still(s, r) /\ Closing(r) /\ r.conn = s.conn
        /\ \A x : LET r == [s EXCEPT !.scheme = x]
                  IN Still(s, r) /\ Closing(r) /\ r.conn = s.conn
        /\ \A x : LET r == [s EXCEPT !.tight = x]
                  IN Still(s, r) /\ Closing(r) /\ r.conn = s.conn
        /\ \A x, y : LET r == [s EXCEPT !.version = x, !.init = y]
                     IN Still(s, r) /\ Closing(r) /\ r.conn = s.conn
        /\ \A x, y : LET r == [s EXCEPT !.scheme = x, !.init = y]
                     IN Still(s, r) /\ Closing(r) /\ r.conn = s.conn
  <1>1. DOMAIN s = Fields /\ s.sock # "open"
    BY DEF Closing
  <1> DEFINE Ok(r) == /\ DOMAIN r = Fields
                      /\ r.conn = s.conn /\ r.sock = s.sock /\ r.hears = s.hears
                      /\ r.timer = s.timer /\ r.screen = s.screen /\ r.retry = s.retry
                      /\ r.out = s.out /\ r.events = s.events /\ r.clean = s.clean
                      /\ r.grabbed = s.grabbed
  <1>2. \A r : Ok(r) => Still(s, r) /\ Closing(r) /\ r.conn = s.conn
    BY StillAlike
  <1>3. Ok(s) /\ Ok(Shift(s))
    BY <1>1 DEF Shift, Fields
  <1>4. \A m : Send(s, m) = s
    BY <1>1 DEF Send
  <1>5. \A x : Ok([s EXCEPT !.init = x])
    BY <1>1 DEF Fields
  <1>6. \A x : Ok([s EXCEPT !.scheme = x])
    BY <1>1 DEF Fields
  <1>7. \A x : Ok([s EXCEPT !.tight = x])
    BY <1>1 DEF Fields
  <1>8. \A x, y : Ok([s EXCEPT !.version = x, !.init = y])
    BY <1>1 DEF Fields
  <1>9. \A x, y : Ok([s EXCEPT !.scheme = x, !.init = y])
    BY <1>1 DEF Fields
  <1> HIDE DEF Ok
  <1>10. QED
    BY <1>2, <1>3, <1>4, <1>5, <1>6, <1>7, <1>8, <1>9

\* It fails once more.
LEMMA StillFail ==
  ASSUME NEW s, Dying(s)
  PROVE Still(s, Fail(s))
  <1> DEFINE r == [s EXCEPT !.clean = FALSE]
  <1>1. DOMAIN s = Fields
    BY DEF Dying, Closing
  <1>2. Fail(s) = r
    BY <1>1, FailIdle DEF Dying
  <1>3. /\ DOMAIN r = Fields /\ r.conn = s.conn /\ r.sock = s.sock /\ r.hears = s.hears
        /\ r.timer = s.timer /\ r.screen = s.screen /\ r.retry = s.retry
        /\ r.out = s.out /\ r.events = s.events /\ ~r.clean /\ r.grabbed = s.grabbed
    BY <1>1 DEF Fields
  <1> HIDE DEF r
  <1>4. QED
    BY <1>2, <1>3, StillAlike DEF Dying

\* It tells the page something.
LEMMA StillEmit ==
  ASSUME NEW s, Closing(s), NEW e,
         e[1] \in {"desktopname", "credentialsrequired", "securityfailure"}
  PROVE /\ Still(s, Emit(s, e)) /\ Closing(Emit(s, e)) /\ Emit(s, e).conn = s.conn
        /\ Emit(s, e).events # <<>> /\ Emit(s, e).init = s.init
        /\ e[1] = "desktopname" => \A u : Tell(u, Emit(s, e)) = Tell(u, s)
        /\ e[1] = "desktopname" => (Rejects(Emit(s, e)) <=> Rejects(s))
  <1> DEFINE r == Emit(s, e)
  <1>1. DOMAIN s = Fields /\ Lists(s)
    BY DEF Closing
  <1>2. /\ DOMAIN r = Fields /\ r.conn = s.conn /\ r.sock = s.sock /\ r.hears = s.hears
        /\ r.timer = s.timer /\ r.screen = s.screen /\ r.retry = s.retry
        /\ r.out = s.out /\ r.clean = s.clean /\ r.grabbed = s.grabbed
        /\ r.init = s.init
    BY <1>1 DEF Emit, Fields
  <1>3. r.events # <<>> /\ Last(r.events) = e /\ Lists(r)
    BY <1>1, TellEmit
  <1>4. \A u : Tell(u, r) = Listener(Tell(u, s), e)
    BY <1>1, TellEmit
  <1> HIDE DEF r
  <1>5. \A u : /\ e[1] = "credentialsrequired" => Listener(u, e) = Credentials(u)
               /\ e[1] = "securityfailure" => Listener(u, e) = SecurityFailed(u)
               /\ e[1] = "desktopname" => Listener(u, e) = u
    BY DEF Listener
  <1>6. ASSUME NEW u, DOMAIN u = PageFields
        PROVE StillPage(u, Listener(u, e))
    <2>1. CASE e[1] = "credentialsrequired"
      BY <1>5, <1>6, <2>1, CredentialsPage DEF StillPage
    <2>2. CASE e[1] = "securityfailure"
      BY <1>5, <1>6, <2>2, RejectedPage DEF StillPage
    <2>3. CASE e[1] = "desktopname"
      BY <1>5, <1>6, <2>3 DEF StillPage
    <2>4. QED
      BY <2>1, <2>2, <2>3
  <1>7. \A u : DOMAIN Tell(u, s) = PageFields => StillPage(Tell(u, s), Tell(u, r))
    BY <1>4, <1>6
  <1>8. Last(r.events)[1] # "disconnect"
    BY <1>3
  <1>9. Still(s, r)
    BY <1>2, <1>3, <1>7, <1>8 DEF Still
  <1>10. Closing(r)
    BY <1>2, <1>3 DEF Closing
  <1>11. e[1] = "desktopname" => (Rejects(r) <=> Rejects(s))
    <2>1. Rejects(r) <=> Rejects(s) \/ e[1] = "securityfailure"
      BY <1>1, TellEmit DEF r
    <2>2. QED
      BY <2>1
  <1>12. QED
    BY <1>2, <1>3, <1>4, <1>5, <1>9, <1>10, <1>11 DEF r

\* The bytes it has left, read as a ServerInit.
LEMMA StillServerInit ==
  ASSUME NEW s, Closing(s), NEW enough
  PROVE LET r == NegotiateServerInit(s, enough)
        IN /\ Still(s, r) /\ r.init = s.init /\ (Rejects(r) <=> Rejects(s))
           /\ \A u : Tell(u, r) = Tell(u, s)
  <1> DEFINE t == Shift(s)
             e == <<"desktopname">>
             d == Emit(t, e)
             k == [d EXCEPT !.grabbed = @ \/ ~s.viewOnly]
             r == NegotiateServerInit(s, enough)
  <1>1. r = s \/ r = Move(Send(k, <<"request">>), "connected")
    BY DEF NegotiateServerInit
  <1>2. Still(s, t) /\ Closing(t)
    BY StillSets
  <1>3. t.events = s.events /\ t.init = s.init
    BY DEF Closing, Shift, Fields
  <1>4. (Rejects(t) <=> Rejects(s)) /\ \A u : Tell(u, t) = Tell(u, s)
    BY <1>3 DEF Tell, Rejects
  <1>5. e[1] = "desktopname"
    OBVIOUS
  <1> HIDE DEF t, e, r
  <1>6. /\ Still(t, d) /\ Closing(d) /\ d.events # <<>> /\ d.init = t.init
        /\ (Rejects(d) <=> Rejects(t)) /\ \A u : Tell(u, d) = Tell(u, t)
    BY <1>2, <1>5, StillEmit
  <1> HIDE DEF d
  <1>7. DOMAIN d = Fields
    BY <1>6 DEF Closing
  <1>8. /\ DOMAIN k = Fields /\ k.conn = d.conn /\ k.sock = d.sock /\ k.hears = d.hears
        /\ k.timer = d.timer /\ k.screen = d.screen /\ k.retry = d.retry
        /\ k.out = d.out /\ k.events = d.events /\ k.clean = d.clean /\ k.init = d.init
    BY <1>7 DEF Fields
  <1> HIDE DEF k
  <1>9. Lists(k) /\ (Rejects(k) <=> Rejects(d)) /\ \A u : Tell(u, k) = Tell(u, d)
    BY <1>6, <1>8, SameQueues DEF Closing
  <1>10. Still(d, k) /\ Closing(k)
    BY <1>6, <1>8, <1>9 DEF Still, StillPage, Closing
  <1>11. Send(k, <<"request">>) = k
    BY <1>10, StillSets
  <1>12. Move(k, "connected") = k
    BY <1>10 DEF Closing, Move, Transitions
  <1>13. Still(s, k)
    BY <1>2, <1>6, <1>10, StillTrans
  <1>14. CASE r = s
    BY <1>14, StillSets DEF r
  <1>15. CASE r = k
    BY <1>3, <1>4, <1>6, <1>8, <1>9, <1>13, <1>15 DEF r
  <1>16. QED
    BY <1>1, <1>11, <1>12, <1>14, <1>15

LEMMA StillClientInit ==
  ASSUME NEW s, Dying(s)
  PROVE Still(s, ClientInit(s))
  <1>1. Closing(s)
    BY DEF Dying
  <1>2. Send(s, <<"clientinit">>) = s
    BY <1>1, StillSets
  <1>3. QED
    BY <1>1, <1>2, StillSets DEF ClientInit

\* It is told of a refusal.
LEMMA StillReject ==
  ASSUME NEW s, Dying(s)
  PROVE Still(s, Fail(Emit(s, <<"securityfailure">>)))
  <1> DEFINE e == <<"securityfailure">>
             t == Emit(s, e)
  <1>1. e[1] = "securityfailure"
    OBVIOUS
  <1> HIDE DEF e
  <1>2. Still(s, t) /\ Closing(t) /\ t.conn = s.conn
    BY <1>1, StillEmit DEF Dying
  <1> HIDE DEF t
  <1>3. Still(t, Fail(t))
    BY <1>2, StillFail DEF Dying
  <1>4. Still(s, Fail(t))
    BY <1>2, <1>3, StillTrans
  <1>5. QED
    BY <1>4 DEF t, e

LEMMA StillAsk ==
  ASSUME NEW s, Dying(s)
  PROVE Still(s, Emit(s, <<"credentialsrequired">>))
  <1> DEFINE e == <<"credentialsrequired">>
  <1>1. e[1] = "credentialsrequired"
    OBVIOUS
  <1> HIDE DEF e
  <1>2. Still(s, Emit(s, e))
    BY <1>1, StillEmit DEF Dying
  <1>3. QED
    BY <1>2 DEF e

LEMMA StillReason ==
  ASSUME NEW s, Dying(s)
  PROVE Still(s, SecurityReason(s)) /\ Still(s, ToReason(s))
  <1>1. ASSUME NEW t, Dying(t)
        PROVE Still(t, SecurityReason(t))
    <2> DEFINE h == Shift(t)
    <2>1. Still(t, h) /\ Dying(h) /\ Still(t, t)
      BY <1>1, StillSets DEF Dying
    <2>2. \/ SecurityReason(t) = t
          \/ SecurityReason(t) = Fail(Emit(h, <<"securityfailure">>))
      BY DEF SecurityReason
    <2> HIDE DEF h
    <2>3. Still(h, Fail(Emit(h, <<"securityfailure">>)))
      BY <2>1, StillReject
    <2>4. Still(t, Fail(Emit(h, <<"securityfailure">>)))
      BY <2>1, <2>3, StillTrans
    <2>5. QED
      BY <2>1, <2>2, <2>4
  <1> DEFINE r == [s EXCEPT !.init = "SecurityReason"]
  <1>2. Still(s, r) /\ Dying(r)
    BY StillSets DEF Dying
  <1>3. ToReason(s) = SecurityReason(r)
    BY DEF ToReason
  <1> HIDE DEF r
  <1>4. Still(r, SecurityReason(r))
    BY <1>1, <1>2
  <1>5. QED
    BY <1>1, <1>2, <1>3, <1>4, StillTrans

LEMMA StillResult ==
  ASSUME NEW s, Dying(s)
  PROVE Still(s, SecurityResult(s))
  <1> DEFINE h == Shift(s)
  <1>1. Still(s, h) /\ Dying(h) /\ Still(s, s)
    BY StillSets DEF Dying
  <1>2. SecurityResult(s) \in {s, ClientInit(h), ToReason(h),
                               Fail(Emit(h, <<"securityfailure">>))}
    BY DEF SecurityResult
  <1> HIDE DEF h
  <1>3. Still(h, ClientInit(h))
    BY <1>1, StillClientInit
  <1>4. Still(h, ToReason(h))
    BY <1>1, StillReason
  <1>5. Still(h, Fail(Emit(h, <<"securityfailure">>)))
    BY <1>1, StillReject
  <1>6. /\ Still(s, ClientInit(h)) /\ Still(s, ToReason(h))
        /\ Still(s, Fail(Emit(h, <<"securityfailure">>)))
    BY <1>1, <1>3, <1>4, <1>5, StillTrans
  <1>7. QED
    BY <1>1, <1>2, <1>6

LEMMA StillVncAuth ==
  ASSUME NEW s, Dying(s)
  PROVE Still(s, VncAuth(s))
  <1> DEFINE h == Shift(s)
             k == Send(h, <<"response">>)
             r == [k EXCEPT !.init = "SecurityResult"]
             e == Emit(s, <<"credentialsrequired">>)
  <1>1. Still(s, h) /\ Dying(h) /\ Still(s, s)
    BY StillSets DEF Dying
  <1>2. VncAuth(s) \in {s, e, r}
    BY DEF VncAuth
  <1>3. Still(s, e)
    BY StillAsk
  <1> HIDE DEF e, h
  <1>4. k = h
    BY <1>1, StillSets DEF Dying
  <1> HIDE DEF k
  <1>5. Still(h, r)
    BY <1>1, <1>4, StillSets DEF Dying
  <1> HIDE DEF r
  <1>6. Still(s, r)
    BY <1>1, <1>5, StillTrans
  <1>7. QED
    BY <1>1, <1>2, <1>3, <1>6

LEMMA StillTightSub ==
  ASSUME NEW s, Dying(s)
  PROVE Still(s, TightSubAuth(s))
  <1> DEFINE h == Shift(s)
             a == [h EXCEPT !.init = "SecurityResult"]
             b == [Send(h, <<"subnoauth">>) EXCEPT !.init = "SecurityResult"]
             c == [Send(h, <<"subvncauth">>) EXCEPT !.scheme = "vnc"]
             f == Fail(h)
  <1>1. Still(s, h) /\ Dying(h) /\ Still(s, s)
    BY StillSets DEF Dying
  <1>2. TightSubAuth(s) \in {s, a, b, VncAuth(c), f}
    BY DEF TightSubAuth
  <1> HIDE DEF h
  <1>3. Send(h, <<"subnoauth">>) = h /\ Send(h, <<"subvncauth">>) = h
    BY <1>1, StillSets DEF Dying
  <1>4. Still(h, a) /\ b = a
    BY <1>1, <1>3, StillSets DEF Dying
  <1>5. Still(h, c) /\ Dying(c)
    <2> DEFINE g == [h EXCEPT !.scheme = "vnc"]
    <2>1. c = g
      BY <1>3
    <2>2. Still(h, g) /\ Closing(g) /\ g.conn = h.conn
      BY <1>1, StillSets DEF Dying
    <2> HIDE DEF g, c
    <2>3. QED
      BY <1>1, <2>1, <2>2 DEF Dying
  <1> HIDE DEF a, b, c
  <1>6. Still(c, VncAuth(c))
    BY <1>5, StillVncAuth
  <1>7. Still(h, f)
    BY <1>1, StillFail
  <1> HIDE DEF f
  <1>8. Still(h, VncAuth(c))
    BY <1>5, <1>6, StillTrans
  <1>9. Still(s, a) /\ Still(s, VncAuth(c)) /\ Still(s, f)
    BY <1>1, <1>4, <1>7, <1>8, StillTrans
  <1>10. QED
    BY <1>1, <1>2, <1>4, <1>9

LEMMA StillTight ==
  ASSUME NEW s, Dying(s)
  PROVE Still(s, TightAuth(s))
  <1> DEFINE h == Shift(s)
             t == [h EXCEPT !.tight = TRUE]
             f == Fail(t)
  <1>1. Still(s, h) /\ Dying(h) /\ Still(s, s)
    BY StillSets DEF Dying
  <1>2. TightAuth(s) \in {s, TightSubAuth(s), TightSubAuth(t), Send(t, <<"tunnel">>), f}
    BY DEF TightAuth
  <1> HIDE DEF h
  <1>3. Still(h, t) /\ Dying(t)
    BY <1>1, StillSets DEF Dying
  <1> HIDE DEF t
  <1>4. Still(s, t)
    BY <1>1, <1>3, StillTrans
  <1>5. Still(t, TightSubAuth(t)) /\ Still(s, TightSubAuth(s))
    BY <1>3, StillTightSub
  <1>6. Send(t, <<"tunnel">>) = t
    BY <1>3, StillSets DEF Dying
  <1>7. Still(t, f)
    BY <1>3, StillFail
  <1> HIDE DEF f
  <1>8. Still(s, TightSubAuth(t)) /\ Still(s, f)
    BY <1>4, <1>5, <1>7, StillTrans
  <1>9. QED
    BY <1>1, <1>2, <1>4, <1>5, <1>6, <1>8

LEMMA StillAuth ==
  ASSUME NEW s, Dying(s)
  PROVE Still(s, Authentication(s))
  <1> DEFINE r == [s EXCEPT !.init = "SecurityResult"]
  <1>1. Authentication(s) \in {r, ClientInit(s), XvpAuth(s), VncAuth(s), TightAuth(s), Fail(s)}
    BY DEF Authentication
  <1>2. Still(s, r)
    BY StillSets DEF Dying
  <1>3. Still(s, XvpAuth(s))
    BY StillAsk DEF XvpAuth
  <1> HIDE DEF r
  <1>4. Still(s, ClientInit(s)) /\ Still(s, VncAuth(s)) /\ Still(s, TightAuth(s))
        /\ Still(s, Fail(s))
    BY StillClientInit, StillVncAuth, StillTight, StillFail
  <1>5. QED
    BY <1>1, <1>2, <1>3, <1>4

LEMMA StillSecurity ==
  ASSUME NEW s, Dying(s)
  PROVE Still(s, NegotiateSecurity(s))
  <1> DEFINE h == Shift(s)
             offer == Head(s.rq).val
             best == Preference[Min({k \in DOMAIN Preference : Preference[k] \in offer})]
             Choose(v, c) == [v EXCEPT !.scheme = c, !.init = "Authentication"]
             a == Choose(Send(h, <<best>>), best)
             b == Choose(h, CHOOSE c \in offer : TRUE)
  <1>1. Still(s, h) /\ Dying(h) /\ Still(s, s)
    BY StillSets DEF Dying
  <1>2. NegotiateSecurity(s) = s \/ NegotiateSecurity(s) = ChooseSecurity(h, offer)
    BY DEF NegotiateSecurity
  <1> HIDE DEF h, offer
  <1>3. ChooseSecurity(h, offer) \in {ToReason(h), Fail(h), Authentication(a), Authentication(b)}
    BY DEF ChooseSecurity
  <1>4. Send(h, <<best>>) = h
    BY <1>1, StillSets DEF Dying
  <1> HIDE DEF best
  <1>5. ASSUME NEW x
        PROVE Still(h, Choose(h, x)) /\ Dying(Choose(h, x))
    <2> DEFINE g == Choose(h, x)
    <2>0. \A c, y : LET r == [h EXCEPT !.scheme = c, !.init = y]
                   IN Still(h, r) /\ Closing(r) /\ r.conn = h.conn
      BY <1>1, StillSets DEF Dying
    <2>1. Still(h, g) /\ Closing(g) /\ g.conn = h.conn
      BY <2>0
    <2> HIDE DEF g
    <2>2. Still(h, g) /\ Dying(g)
      BY <1>1, <2>1 DEF Dying
    <2>3. QED
      BY <2>2 DEF g
  <1>6. a = Choose(h, best)
    BY <1>4
  <1> HIDE DEF Choose, a
  <1>6a. Still(h, a) /\ Dying(a)
    BY <1>5, <1>6
  <1>6b. Still(h, b) /\ Dying(b)
    BY <1>5
  <1> HIDE DEF b
  <1>7. Still(a, Authentication(a)) /\ Still(b, Authentication(b))
    BY <1>6a, <1>6b, StillAuth
  <1>8. Still(h, Authentication(a)) /\ Still(h, Authentication(b))
    BY <1>6a, <1>6b, <1>7, StillTrans
  <1>9. Still(h, ToReason(h)) /\ Still(h, Fail(h))
    BY <1>1, StillReason, StillFail
  <1>10. Still(h, ChooseSecurity(h, offer))
    BY <1>3, <1>8, <1>9
  <1>11. QED
    BY <1>1, <1>2, <1>10, StillTrans

LEMMA StillVersion ==
  ASSUME NEW s, Dying(s)
  PROVE Still(s, NegotiateVersion(s))
  <1> DEFINE h == Shift(s)
             v == Head(s.rq).val
             r == [Send(h, <<"version">>) EXCEPT !.version = v, !.init = "Security"]
             f == Fail(h)
  <1>1. Still(s, h) /\ Dying(h) /\ Still(s, s)
    BY StillSets DEF Dying
  <1>2. NegotiateVersion(s) \in {s, Send(h, <<"id">>), f, r}
    BY DEF NegotiateVersion
  <1> HIDE DEF h, v
  <1>3. Send(h, <<"id">>) = h /\ Send(h, <<"version">>) = h
    BY <1>1, StillSets DEF Dying
  <1>4. Still(h, r)
    BY <1>1, <1>3, StillSets DEF Dying
  <1>5. Still(h, f)
    BY <1>1, StillFail
  <1> HIDE DEF r, f
  <1>6. Still(s, r) /\ Still(s, f)
    BY <1>1, <1>4, <1>5, StillTrans
  <1>7. QED
    BY <1>1, <1>2, <1>3, <1>6

\* A session that has ended tells the page something again when it goes on, and
\* nothing else comes of it.
LEMMA StillHandshake ==
  ASSUME NEW s, Dying(s), NEW enough
  PROVE /\ Still(s, InitMsg(s, enough))
        /\ s.init = "ServerInitialisation" => InitMsg(s, enough).init = s.init
  <1>1. InitMsg(s, enough) \in
          {NegotiateVersion(s), NegotiateSecurity(s), Authentication(s), SecurityResult(s),
           SecurityReason(s), ClientInit(s), NegotiateServerInit(s, enough), Fail(s)}
    BY DEF InitMsg
  <1>2. /\ Still(s, NegotiateVersion(s)) /\ Still(s, NegotiateSecurity(s))
        /\ Still(s, Authentication(s)) /\ Still(s, SecurityResult(s))
        /\ Still(s, SecurityReason(s)) /\ Still(s, ClientInit(s)) /\ Still(s, Fail(s))
    BY StillVersion, StillSecurity, StillAuth, StillResult, StillReason,
       StillClientInit, StillFail
  <1>3. /\ Still(s, NegotiateServerInit(s, enough))
        /\ NegotiateServerInit(s, enough).init = s.init
    BY StillServerInit DEF Dying
  <1>4. s.init = "ServerInitialisation" => InitMsg(s, enough) = NegotiateServerInit(s, enough)
    BY DEF InitMsg
  <1>5. QED
    BY <1>1, <1>2, <1>3, <1>4

-----------------------------------------------------------------------------
(* A connected session reads its messages.                                 *)

LEMMA SamePages ==
  ASSUME NEW u, NEW v, NEW w, SamePage(u, v), SamePage(v, w)
  PROVE SamePage(u, w)
  BY DEF SamePage

LEMMA ClosedPages ==
  ASSUME NEW u, NEW v, NEW w
  PROVE /\ SamePage(u, v) /\ Closed(v, w) => Closed(u, w)
        /\ Closed(u, v) /\ SamePage(v, w) => Closed(u, w)
  <1>1. SamePage(u, v) /\ Closed(v, w) => Closed(u, w)
    BY DEF SamePage, Closed
  <1>2. ASSUME Closed(u, v), SamePage(v, w)
        PROVE Closed(u, w)
    <2>1. PowerFits(w) /\ ~w.connected
      BY <1>2 DEF Closed, SamePage, PowerFits
    <2>2. ~w.power /\ w.panel # "power"
      BY <2>1 DEF PowerFits
    <2>3. QED
      BY <1>2, <2>2 DEF Closed, SamePage
  <1>3. QED
    BY <1>1, <1>2

\* r is s after more of its messages, and it goes on ...
Lives(s, r, n, u) ==
  /\ DOMAIN r = Fields /\ Lists(r) /\ IsList(r.rq)
  /\ r.conn = "connected" /\ r.sock = "open" /\ r.hears = Hearing
  /\ ~r.timer /\ r.init = "ServerInitialisation" /\ r.retry = s.retry
  /\ SameNet(Ask(n, s), Ask(n, r)) /\ IsList(Ask(n, r).wire)
  /\ SamePage(Tell(u, s), Tell(u, r)) /\ (Rejects(r) <=> Rejects(s))

\* ... or it has failed, and perhaps read on.
Falls(s, r, n, u) ==
  /\ DOMAIN r = Fields /\ Lists(r)
  /\ r.conn = "disconnected" /\ ~r.timer /\ r.retry = s.retry
  /\ r.sock \notin {"opening", "open"} /\ "message" \notin r.hears
  /\ r.hears \subseteq Hearing
  /\ ~r.screen /\ ~r.grabbed /\ ~r.clean
  /\ SameNet(Ask(n, s), Ask(n, r))
  /\ Closed(Tell(u, s), Tell(u, r)) /\ (Rejects(r) <=> Rejects(s))

\* The steps of a message: events, answers, failure.
LEMMA LivesOn ==
  ASSUME NEW s, NEW x, NEW n, NEW u, Lives(s, x, n, u), NEW r,
         DOMAIN r = Fields, IsList(r.rq), r.conn = x.conn, r.sock = x.sock,
         r.hears = x.hears, r.timer = x.timer, r.init = x.init, r.retry = x.retry,
         r.events = x.events, r.out = x.out
  PROVE Lives(s, r, n, u)
  <1>1. /\ Tell(u, r) = Tell(u, x) /\ Ask(n, r) = Ask(n, x)
        /\ (Rejects(r) <=> Rejects(x)) /\ Lists(r)
    BY SameQueues DEF Lives
  <1>2. QED
    BY <1>1 DEF Lives

LEMMA FallsOn ==
  ASSUME NEW s, NEW x, NEW n, NEW u, Falls(s, x, n, u), NEW r,
         DOMAIN r = Fields, r.conn = x.conn, r.sock = x.sock,
         r.hears = x.hears, r.timer = x.timer, r.retry = x.retry,
         r.screen = x.screen, r.grabbed = x.grabbed, ~r.clean,
         r.events = x.events, r.out = x.out
  PROVE Falls(s, r, n, u)
  <1>1. /\ Tell(u, r) = Tell(u, x) /\ Ask(n, r) = Ask(n, x)
        /\ (Rejects(r) <=> Rejects(x)) /\ Lists(r)
    BY SameQueues DEF Falls
  <1>2. QED
    BY <1>1 DEF Falls

\* A message that the server does not answer.
LEMMA LivesSend ==
  ASSUME NEW s, NEW x, NEW n, NEW u, Lives(s, x, n, u),
         NEW m, m[1] # "key", \A server : Reply(server, m) = <<>>
  PROVE Lives(s, Send(x, m), n, u) /\ Send(x, m).rq = x.rq
        /\ Send(x, m).flushing = x.flushing
  <1> DEFINE r == Send(x, m)
  <1>1. DOMAIN x = Fields /\ x.sock = "open" /\ Lists(x)
    BY DEF Lives
  <1>2. /\ DOMAIN r = Fields /\ r.rq = x.rq /\ r.conn = x.conn /\ r.sock = x.sock
        /\ r.hears = x.hears /\ r.timer = x.timer /\ r.init = x.init /\ r.retry = x.retry
        /\ r.events = x.events /\ r.flushing = x.flushing
    BY <1>1 DEF Send, Fields
  <1>3. Ask(n, r) = Serve(Ask(n, x), m) /\ Lists(r)
    BY <1>1, AskSend
  <1>4. DOMAIN Ask(n, x) = NetFields
    BY DEF Lives, SameNet
  <1>5. /\ SameNet(Ask(n, x), Ask(n, r))
        /\ Ask(n, r).wire = Join(Ask(n, x).wire, Reply(Ask(n, x).server, m))
    BY <1>3, <1>4, ServeFacts
  <1>6. IsList(Reply(Ask(n, x).server, m))
    BY ListEmpty
  <1>7. IsList(Ask(n, r).wire)
    BY <1>5, <1>6, ListConcat DEF Lives
  <1>8. Tell(u, r) = Tell(u, x) /\ (Rejects(r) <=> Rejects(x))
    BY <1>2 DEF Tell, Rejects
  <1> HIDE DEF r
  <1>9. SameNet(Ask(n, s), Ask(n, r))
    BY <1>5 DEF Lives, SameNet
  <1>10. Lives(s, r, n, u)
    BY <1>2, <1>3, <1>7, <1>8, <1>9 DEF Lives
  <1>11. QED
    BY <1>2, <1>10 DEF r

\* The events of a connected session, for the page.
LEMMA QuietEvents ==
  ASSUME NEW u, DOMAIN u = PageFields, NEW e,
         e[1] \in {"bell", "clipboard", "desktopname", "capabilities"}
  PROVE SamePage(u, Listener(u, e))
  <1>1. CASE e[1] = "capabilities"
    <2>1. Listener(u, e) = UpdatePowerButton(u, e[2])
      BY <1>1 DEF Listener
    <2>2. QED
      BY <2>1, PowerPage
  <1>2. CASE e[1] # "capabilities"
    <2>1. Listener(u, e) = u
      BY <1>2 DEF Listener
    <2>2. QED
      BY <2>1 DEF SamePage
  <1>3. QED
    BY <1>1, <1>2

LEMMA LivesEmit ==
  ASSUME NEW s, NEW x, NEW n, NEW u, Lives(s, x, n, u), NEW e,
         e[1] \in {"bell", "clipboard", "desktopname", "capabilities"}
  PROVE Lives(s, Emit(x, e), n, u) /\ Emit(x, e).rq = x.rq
        /\ Emit(x, e).flushing = x.flushing
  <1> DEFINE r == Emit(x, e)
  <1>1. DOMAIN x = Fields /\ Lists(x)
    BY DEF Lives
  <1>2. /\ DOMAIN r = Fields /\ r.rq = x.rq /\ r.conn = x.conn /\ r.sock = x.sock
        /\ r.hears = x.hears /\ r.timer = x.timer /\ r.init = x.init /\ r.retry = x.retry
        /\ r.out = x.out /\ r.flushing = x.flushing
    BY <1>1 DEF Emit, Fields
  <1>3. Tell(u, r) = Listener(Tell(u, x), e) /\ (Rejects(r) <=> Rejects(x)) /\ Lists(r)
    BY <1>1, TellEmit
  <1>4. DOMAIN Tell(u, x) = PageFields
    BY DEF Lives, SamePage
  <1> HIDE DEF r
  <1>5. SamePage(Tell(u, x), Tell(u, r))
    BY <1>3, <1>4, QuietEvents
  <1>6. SamePage(Tell(u, s), Tell(u, r))
    BY <1>5, SamePages DEF Lives
  <1>7. Ask(n, r) = Ask(n, x)
    BY <1>2 DEF Ask
  <1>8. Lives(s, r, n, u)
    BY <1>2, <1>3, <1>6, <1>7 DEF Lives
  <1>9. QED
    BY <1>2, <1>8 DEF r

LEMMA FallsEmit ==
  ASSUME NEW s, NEW x, NEW n, NEW u, Falls(s, x, n, u), NEW e,
         e[1] \in {"bell", "clipboard", "desktopname", "capabilities"}
  PROVE Falls(s, Emit(x, e), n, u)
  <1> DEFINE r == Emit(x, e)
  <1>1. DOMAIN x = Fields /\ Lists(x)
    BY DEF Falls
  <1>2. /\ DOMAIN r = Fields /\ r.conn = x.conn /\ r.sock = x.sock
        /\ r.hears = x.hears /\ r.timer = x.timer /\ r.retry = x.retry
        /\ r.out = x.out /\ r.screen = x.screen /\ r.grabbed = x.grabbed
        /\ r.clean = x.clean
    BY <1>1 DEF Emit, Fields
  <1>3. Tell(u, r) = Listener(Tell(u, x), e) /\ (Rejects(r) <=> Rejects(x)) /\ Lists(r)
    BY <1>1, TellEmit
  <1>4. DOMAIN Tell(u, x) = PageFields
    BY DEF Falls, Closed
  <1> HIDE DEF r
  <1>5. SamePage(Tell(u, x), Tell(u, r))
    BY <1>3, <1>4, QuietEvents
  <1>6. Closed(Tell(u, s), Tell(u, r))
    BY <1>5, ClosedPages DEF Falls
  <1>7. Ask(n, r) = Ask(n, x)
    BY <1>2 DEF Ask
  <1>8. Falls(s, r, n, u)
    BY <1>2, <1>3, <1>6, <1>7 DEF Falls
  <1>9. QED
    BY <1>8 DEF r

LEMMA LivesFail ==
  ASSUME NEW s, NEW x, NEW n, NEW u, Lives(s, x, n, u)
  PROVE Falls(s, Fail(x), n, u)
  <1> DEFINE r == Fail(x)
  <1>1. Ended(x, r, FALSE)
    BY FailEnds DEF Lives
  <1> HIDE DEF r
  <1>2. DOMAIN Tell(u, x) = PageFields
    BY DEF Lives, SamePage
  <1>3. Tell(u, r) = DisconnectFinished(Tell(u, x), FALSE)
    BY <1>1 DEF Ended
  <1>4. Closed(Tell(u, x), Tell(u, r))
    BY <1>2, <1>3, DisconnectPage
  <1>5. Closed(Tell(u, s), Tell(u, r))
    BY <1>4, ClosedPages DEF Lives
  <1>6. QED
    BY <1>1, <1>5 DEF Ended, Gone, Falls, Lives, r

LEMMA FallsFail ==
  ASSUME NEW s, NEW x, NEW n, NEW u, Falls(s, x, n, u)
  PROVE Falls(s, Fail(x), n, u)
  <1> DEFINE r == [x EXCEPT !.clean = FALSE]
  <1>1. DOMAIN x = Fields
    BY DEF Falls
  <1>2. Fail(x) = r
    BY <1>1, FailIdle DEF Falls
  <1>3. /\ DOMAIN r = Fields /\ r.conn = x.conn /\ r.sock = x.sock
        /\ r.hears = x.hears /\ r.timer = x.timer /\ r.retry = x.retry
        /\ r.out = x.out /\ r.screen = x.screen /\ r.grabbed = x.grabbed
        /\ ~r.clean /\ r.events = x.events
    BY <1>1 DEF Fields
  <1> HIDE DEF r
  <1>4. QED
    BY <1>2, <1>3, FallsOn

LEMMA LivesShift ==
  ASSUME NEW s, NEW x, NEW n, NEW u, Lives(s, x, n, u), x.rq # <<>>
  PROVE /\ Lives(s, Shift(x), n, u) /\ Len(x.rq) \in Nat
        /\ Len(Shift(x).rq) = Len(x.rq) - 1 /\ Shift(x).flushing = x.flushing
  <1> DEFINE r == Shift(x)
  <1>1. DOMAIN x = Fields /\ IsList(x.rq)
    BY DEF Lives
  <1>2. /\ DOMAIN r = Fields /\ r.rq = Tail(x.rq) /\ r.conn = x.conn /\ r.sock = x.sock
        /\ r.hears = x.hears /\ r.timer = x.timer /\ r.init = x.init /\ r.retry = x.retry
        /\ r.events = x.events /\ r.out = x.out /\ r.flushing = x.flushing
    BY <1>1 DEF Shift, Fields
  <1>3. IsList(Tail(x.rq)) /\ Len(x.rq) \in Nat /\ Len(Tail(x.rq)) = Len(x.rq) - 1
    BY <1>1, ListTail
  <1> HIDE DEF r
  <1>4. Lives(s, r, n, u)
    BY <1>2, <1>3, LivesOn
  <1>5. QED
    BY <1>2, <1>3, <1>4 DEF r

LEMMA FallsShift ==
  ASSUME NEW s, NEW x, NEW n, NEW u, Falls(s, x, n, u)
  PROVE Falls(s, Shift(x), n, u)
  <1> DEFINE r == Shift(x)
  <1>1. DOMAIN x = Fields
    BY DEF Falls
  <1>2. /\ DOMAIN r = Fields /\ r.conn = x.conn /\ r.sock = x.sock
        /\ r.hears = x.hears /\ r.timer = x.timer /\ r.retry = x.retry
        /\ r.out = x.out /\ r.screen = x.screen /\ r.grabbed = x.grabbed
        /\ r.clean = x.clean /\ r.events = x.events
    BY <1>1 DEF Shift, Fields
  <1> HIDE DEF r
  <1>3. QED
    BY <1>2, FallsOn DEF Falls, r

\* What becomes of a session for one message.
LEMMA MessageIs ==
  ASSUME NEW x, NEW m
  PROVE LET t == Shift(x)
        IN NormalMsg(x, m).session \in
             {[x EXCEPT !.flushing = TRUE],
              Send([t EXCEPT !.pending = m.val], <<"request">>),
              Emit(t, <<"bell">>), t, Emit(t, <<"clipboard">>),
              Send(t, <<"fence">>), Fail(t),
              Emit([t EXCEPT !.power = TRUE], <<"capabilities", ~t.viewOnly>>)}
  <1> DEFINE t == Shift(x)
             a == [x EXCEPT !.flushing = TRUE]
             b == Send([t EXCEPT !.pending = m.val], <<"request">>)
             c == Emit(t, <<"bell">>)
             d == Emit(t, <<"clipboard">>)
             e == Send(t, <<"fence">>)
             f == Fail(t)
             pw == [t EXCEPT !.power = TRUE]
             g == Emit(pw, <<"capabilities", ~t.viewOnly>>)
             g2 == Emit(pw, <<"capabilities", ~pw.viewOnly>>)
             Stop(u) == [session |-> u, go |-> FALSE]
             Next0(u) == [session |-> u, go |-> TRUE]
  <1>1. \A u : Stop(u).session = u /\ Next0(u).session = u
    OBVIOUS
  <1>3. NormalMsg(x, m) =
        CASE m.kind = "fbu" -> IF x.pending THEN Stop(a) ELSE Next0(b)
          [] m.kind = "bell" -> Next0(c)
          [] m.kind = "cuttext" -> Next0(IF x.viewOnly THEN t ELSE d)
          [] m.kind = "fence" -> IF m.val = "request" THEN Next0(e) ELSE Stop(f)
          [] m.kind = "xvp" -> Next0(CASE m.val = "fail" -> t
                                      [] m.val = "init" -> g
                                      [] OTHER -> f)
          [] m.kind = "colourmap" -> Stop(f)
          [] OTHER -> Next0(f)
    BY DEF NormalMsg
  <1> HIDE DEF Stop, Next0, t, a, b, c, d, e, f, g
  <1>4. NormalMsg(x, m) \in {Stop(a), Next0(b), Next0(c), Next0(t), Next0(d), Next0(e), Stop(f), Next0(f), Next0(g)}
    BY <1>3
  <1>5. NormalMsg(x, m).session \in {a, b, c, t, d, e, f, g}
    BY <1>1, <1>4
  <1>6. QED
    BY <1>5 DEF a, b, c, d, e, f, g, t

\* _normal_msg in a session that lives, and in one that has just failed.
LEMMA MessageLives ==
  ASSUME NEW s, NEW x, NEW n, NEW u, Lives(s, x, n, u), x.rq # <<>>, NEW m
  PROVE LET r == NormalMsg(x, m).session
        IN \/ /\ Lives(s, r, n, u)
              /\ ~r.flushing => Len(r.rq) = Len(x.rq) - 1
           \/ Falls(s, r, n, u)
  <1> DEFINE t == Shift(x)
             a == [x EXCEPT !.flushing = TRUE]
             p == [t EXCEPT !.pending = m.val]
             q == <<"request">>
             c == <<"bell">>
             d == <<"clipboard">>
             e == <<"fence">>
             f == Fail(t)
             w == [t EXCEPT !.power = TRUE]
             g == <<"capabilities", ~t.viewOnly>>
             r == NormalMsg(x, m).session
             Good(y) == Lives(s, y, n, u) /\ (~y.flushing => Len(y.rq) = Len(x.rq) - 1)
  <1>1. r \in {a, Send(p, q), Emit(t, c), t, Emit(t, d), Send(t, e), f, Emit(w, g)}
    BY MessageIs
  <1>2. /\ q[1] # "key" /\ e[1] # "key"
        /\ \A server : Reply(server, q) = <<>> /\ Reply(server, e) = <<>>
    BY DEF Reply
  <1>3. c[1] = "bell" /\ d[1] = "clipboard" /\ g[1] = "capabilities"
    OBVIOUS
  <1>4. Lives(s, t, n, u) /\ Len(t.rq) = Len(x.rq) - 1
    BY LivesShift
  <1>5. DOMAIN x = Fields
    BY DEF Lives
  <1>6. Good(a)
    <2>1. /\ DOMAIN a = Fields /\ a.rq = x.rq /\ a.conn = x.conn /\ a.sock = x.sock
          /\ a.hears = x.hears /\ a.timer = x.timer /\ a.init = x.init
          /\ a.retry = x.retry /\ a.events = x.events /\ a.out = x.out /\ a.flushing
      BY <1>5 DEF Fields
    <2>2. IsList(x.rq)
      BY DEF Lives
    <2> HIDE DEF a
    <2>3. Lives(s, a, n, u)
      BY <2>1, <2>2, LivesOn
    <2>4. QED
      BY <2>1, <2>3
  <1> HIDE DEF t, a, r, q, c, d, e, g
  <1>7. DOMAIN t = Fields /\ IsList(t.rq) /\ Good(t)
    BY <1>4 DEF Lives
  <1>8. Good(p)
    <2>1. /\ DOMAIN p = Fields /\ p.rq = t.rq /\ p.conn = t.conn /\ p.sock = t.sock
          /\ p.hears = t.hears /\ p.timer = t.timer /\ p.init = t.init
          /\ p.retry = t.retry /\ p.events = t.events /\ p.out = t.out
      BY <1>7 DEF Fields
    <2> HIDE DEF p
    <2>2. Lives(s, p, n, u)
      BY <1>4, <1>7, <2>1, LivesOn
    <2>3. QED
      BY <1>4, <2>1, <2>2
  <1>9. Good(w)
    <2>1. /\ DOMAIN w = Fields /\ w.rq = t.rq /\ w.conn = t.conn /\ w.sock = t.sock
          /\ w.hears = t.hears /\ w.timer = t.timer /\ w.init = t.init
          /\ w.retry = t.retry /\ w.events = t.events /\ w.out = t.out
      BY <1>7 DEF Fields
    <2> HIDE DEF w
    <2>2. Lives(s, w, n, u)
      BY <1>4, <1>7, <2>1, LivesOn
    <2>3. QED
      BY <1>4, <2>1, <2>2
  <1> HIDE DEF p, w
  <1>11. Good(Send(p, q))
    BY <1>2, <1>8, LivesSend
  <1>12. Good(Send(t, e))
    BY <1>2, <1>7, LivesSend
  <1>13. Good(Emit(t, c)) /\ Good(Emit(t, d))
    <2>1. Lives(s, Emit(t, c), n, u) /\ Emit(t, c).rq = t.rq /\ Emit(t, c).flushing = t.flushing
      BY <1>3, <1>4, LivesEmit
    <2>2. Lives(s, Emit(t, d), n, u) /\ Emit(t, d).rq = t.rq /\ Emit(t, d).flushing = t.flushing
      BY <1>3, <1>4, LivesEmit
    <2>3. QED
      BY <1>4, <2>1, <2>2
  <1>14. Good(Emit(w, g))
    <2>1. Lives(s, w, n, u)
      BY <1>9
    <2>2. Lives(s, Emit(w, g), n, u) /\ Emit(w, g).rq = w.rq /\ Emit(w, g).flushing = w.flushing
      BY <1>3, <2>1, LivesEmit
    <2>3. QED
      BY <1>9, <2>2
  <1>15. Falls(s, f, n, u)
    BY <1>4, LivesFail
  <1> HIDE DEF Good, f
  <1>16. Good(r) \/ Falls(s, r, n, u)
    BY <1>1, <1>6, <1>7, <1>11, <1>12, <1>13, <1>14, <1>15
  <1>17. QED
    BY <1>16 DEF Good, r

LEMMA MessageFalls ==
  ASSUME NEW s, NEW x, NEW n, NEW u, Falls(s, x, n, u), NEW m
  PROVE Falls(s, NormalMsg(x, m).session, n, u)
  <1> DEFINE t == Shift(x)
             a == [x EXCEPT !.flushing = TRUE]
             p == [t EXCEPT !.pending = m.val]
             c == <<"bell">>
             d == <<"clipboard">>
             f == Fail(t)
             w == [t EXCEPT !.power = TRUE]
             g == <<"capabilities", ~t.viewOnly>>
             r == NormalMsg(x, m).session
  <1>1. r \in {a, Send(p, <<"request">>), Emit(t, c), t, Emit(t, d), Send(t, <<"fence">>), f,
               Emit(w, g)}
    BY MessageIs
  <1>2. c[1] = "bell" /\ d[1] = "clipboard" /\ g[1] = "capabilities"
    OBVIOUS
  <1>3. Falls(s, t, n, u)
    BY FallsShift
  <1>4. DOMAIN x = Fields
    BY DEF Falls
  <1>5. Falls(s, a, n, u)
    <2>1. /\ DOMAIN a = Fields /\ a.conn = x.conn /\ a.sock = x.sock
          /\ a.hears = x.hears /\ a.timer = x.timer /\ a.retry = x.retry
          /\ a.screen = x.screen /\ a.grabbed = x.grabbed /\ a.clean = x.clean
          /\ a.events = x.events /\ a.out = x.out
      BY <1>4 DEF Fields
    <2> HIDE DEF a
    <2>2. QED
      BY <2>1, FallsOn DEF Falls
  <1> HIDE DEF t, a, r, c, d, g
  <1>6. DOMAIN t = Fields /\ ~t.clean
    BY <1>3 DEF Falls
  <1>7. Falls(s, p, n, u)
    <2>1. /\ DOMAIN p = Fields /\ p.conn = t.conn /\ p.sock = t.sock
          /\ p.hears = t.hears /\ p.timer = t.timer /\ p.retry = t.retry
          /\ p.screen = t.screen /\ p.grabbed = t.grabbed /\ p.clean = t.clean
          /\ p.events = t.events /\ p.out = t.out
      BY <1>6 DEF Fields
    <2> HIDE DEF p
    <2>2. QED
      BY <1>3, <1>6, <2>1, FallsOn
  <1>8. Falls(s, w, n, u)
    <2>1. /\ DOMAIN w = Fields /\ w.conn = t.conn /\ w.sock = t.sock
          /\ w.hears = t.hears /\ w.timer = t.timer /\ w.retry = t.retry
          /\ w.screen = t.screen /\ w.grabbed = t.grabbed /\ w.clean = t.clean
          /\ w.events = t.events /\ w.out = t.out
      BY <1>6 DEF Fields
    <2> HIDE DEF w
    <2>2. QED
      BY <1>3, <1>6, <2>1, FallsOn
  <1> HIDE DEF p, w
  <1>9. Send(p, <<"request">>) = p /\ Send(t, <<"fence">>) = t
    BY <1>3, <1>7 DEF Falls, Send
  <1>10. Falls(s, Emit(t, c), n, u) /\ Falls(s, Emit(t, d), n, u)
    BY <1>2, <1>3, FallsEmit
  <1>11. Falls(s, Emit(w, g), n, u)
    BY <1>2, <1>8, FallsEmit
  <1>12. Falls(s, f, n, u)
    BY <1>3, FallsFail
  <1> HIDE DEF f
  <1>13. Falls(s, r, n, u)
    BY <1>1, <1>3, <1>5, <1>7, <1>9, <1>10, <1>11, <1>12
  <1>14. QED
    BY <1>13 DEF r

\* The loop over the messages that have arrived.
LEMMA DrainOutcome ==
  ASSUME NEW s, NEW n, NEW u, Lives(s, s, n, u), s.rq # <<>>
  PROVE Lives(s, Drain(s), n, u) \/ Falls(s, Drain(s), n, u)
  <1> DEFINE whole == IF s.short THEN Front(s.rq) ELSE s.rq
             base == [session |-> s, go |-> TRUE]
  <1>1. PICK S : s.rq \in Seq(S)
    BY DEF Lives, IsList
  <1>2. /\ whole \in Seq(S) /\ Len(whole) \in Nat /\ Len(s.rq) \in Nat
        /\ Len(whole) <= Len(s.rq)
    <2>1. Len(s.rq) \in Nat /\ Len(s.rq) > 0
      BY <1>1
    <2>2. SubSeq(s.rq, 1, Len(s.rq) - 1) \in Seq(S)
      BY <1>1, <2>1
    <2>3. Len(SubSeq(s.rq, 1, Len(s.rq) - 1)) = Len(s.rq) - 1
      BY <1>1, <2>1
    <2>4. QED
      BY <1>1, <2>1, <2>2, <2>3 DEF Front
  <1>3. Drain(s) = FoldLeft(DrainStep, base, whole).session
    BY DEF Drain
  <1>4. base.session = s /\ base.go
    OBVIOUS
  <1> HIDE DEF whole, base
  <1>5. PICK r : /\ Drained!Runs(base, whole, r)
                 /\ Drained!FoldLeft(DrainStep, base, whole) = r[Len(whole)]
    BY <1>2, Drained!FoldRun
  <1>6. Drain(s) = r[Len(whole)].session
    BY <1>3, <1>5, SameFold
  <1> DEFINE P(k) ==
        \/ Falls(s, r[k].session, n, u)
        \/ /\ Lives(s, r[k].session, n, u)
           /\ r[k].go /\ ~r[k].session.flushing =>
                Len(r[k].session.rq) >= Len(whole) - k
  <1>7. P(0)
    <2>1. r[0] = base
      BY <1>5 DEF Drained!Runs
    <2>2. QED
      BY <1>2, <1>4, <2>1
  <1>8. ASSUME NEW k \in Nat, k + 1 <= Len(whole), P(k)
        PROVE P(k + 1)
    <2> DEFINE d == r[k]
               m == whole[k + 1]
               x == d.session
    <2>1. r[k + 1] = DrainStep(d, m)
      <3>1. k + 1 \in 1 .. Len(whole) /\ (k + 1) - 1 = k
        BY <1>2, <1>8
      <3>2. QED
        BY <1>5, <3>1 DEF Drained!Runs
    <2>2. CASE ~(d.go /\ ~x.flushing)
      <3>1. r[k + 1] = d
        BY <2>1, <2>2 DEF DrainStep
      <3>2. QED
        BY <1>8, <2>2, <3>1
    <2>3. CASE d.go /\ ~x.flushing
      <3>1. r[k + 1] = NormalMsg(x, m)
        BY <2>1, <2>3 DEF DrainStep
      <3> HIDE DEF m
      <3>2. CASE Falls(s, x, n, u)
        BY <3>1, <3>2, MessageFalls
      <3>3. CASE Lives(s, x, n, u) /\ Len(x.rq) >= Len(whole) - k
        <4> HIDE DEF x
        <4>1. x.rq # <<>>
          <5>1. Len(<<>>) = 0
            OBVIOUS
          <5>2. Len(x.rq) # 0
            <6>1. PICK T : x.rq \in Seq(T)
              BY <3>3 DEF Lives, IsList
            <6>2. Len(x.rq) \in Nat
              BY <6>1
            <6>3. QED
              BY <1>2, <1>8, <3>3, <6>2
          <5>3. QED
            BY <5>1, <5>2
        <4>2. Len(x.rq) \in Nat
          BY <3>3, <4>1, LivesShift
        <4> DEFINE y == NormalMsg(x, m).session
        <4>3. \/ Lives(s, y, n, u) /\ (~y.flushing => Len(y.rq) = Len(x.rq) - 1)
              \/ Falls(s, y, n, u)
          BY <3>3, <4>1, MessageLives
        <4>4. r[k + 1].session = y
          BY <3>1
        <4> HIDE DEF y
        <4>5. CASE Falls(s, y, n, u)
          BY <4>4, <4>5
        <4>6. CASE Lives(s, y, n, u) /\ (~y.flushing => Len(y.rq) = Len(x.rq) - 1)
          <5>1. ~y.flushing => Len(y.rq) >= Len(whole) - (k + 1)
            BY <1>2, <3>3, <4>2, <4>6
          <5>2. QED
            BY <4>4, <4>6, <5>1
        <4>7. QED
          BY <4>3, <4>5, <4>6
      <3>4. QED
        BY <1>8, <2>3, <3>2, <3>3
    <2>4. QED
      BY <2>2, <2>3
  <1> HIDE DEF P
  <1> DEFINE T == {k \in Nat : k <= Len(whole) => P(k)}
  <1>9. T = Nat
    <2>1. T \in SUBSET Nat /\ 0 \in T
      BY <1>7
    <2>2. ASSUME NEW k \in T
          PROVE k + 1 \in T
      <3>1. k \in Nat /\ (k <= Len(whole) => P(k))
        OBVIOUS
      <3>2. CASE k + 1 <= Len(whole)
        <4>1. k <= Len(whole)
          BY <1>2, <3>1, <3>2
        <4>2. P(k + 1)
          BY <1>8, <3>1, <3>2, <4>1
        <4>3. QED
          BY <3>1, <4>2
      <3>3. CASE ~(k + 1 <= Len(whole))
        BY <3>1, <3>3
      <3>4. QED
        BY <3>2, <3>3
    <2> HIDE DEF T
    <2>3. QED
      BY <2>1, <2>2, Told!SetInduction
  <1>10. P(Len(whole))
    <2>1. Len(whole) \in T
      BY <1>2, <1>9
    <2>2. Len(whole) <= Len(whole)
      BY <1>2
    <2>3. QED
      BY <2>1, <2>2
  <1>11. QED
    BY <1>6, <1>10 DEF P

\* A password's timer reads what has arrived as a ServerInit.
LEMMA LivesInit ==
  ASSUME NEW s, NEW n, NEW u, Lives(s, s, n, u), NEW enough
  PROVE Lives(s, NegotiateServerInit(s, enough), n, u)
  <1>1. CASE ~Whole(s) \/ (Head(s.rq).kind # "serverinit" /\ ~enough)
    BY <1>1 DEF NegotiateServerInit
  <1>2. CASE ~(~Whole(s) \/ (Head(s.rq).kind # "serverinit" /\ ~enough))
    <2> DEFINE t == Shift(s)
               e == <<"desktopname">>
               d == Emit(t, e)
               k == [d EXCEPT !.grabbed = @ \/ ~s.viewOnly]
               m == <<"request">>
               q == Send(k, m)
    <2>1. NegotiateServerInit(s, enough) = Move(q, "connected")
      BY <1>2 DEF NegotiateServerInit
    <2>2. s.rq # <<>>
      BY <1>2, WholeFirst DEF Lives
    <2>3. Lives(s, t, n, u)
      BY <2>2, LivesShift
    <2>4. e[1] = "desktopname" /\ m[1] # "key" /\ \A server : Reply(server, m) = <<>>
      BY Replies
    <2> HIDE DEF t, e, m
    <2>5. Lives(s, d, n, u)
      BY <2>3, <2>4, LivesEmit
    <2> HIDE DEF d
    <2>6. DOMAIN d = Fields /\ IsList(d.rq)
      BY <2>5 DEF Lives
    <2>7. /\ DOMAIN k = Fields /\ k.rq = d.rq /\ k.conn = d.conn /\ k.sock = d.sock
          /\ k.hears = d.hears /\ k.timer = d.timer /\ k.init = d.init
          /\ k.retry = d.retry /\ k.events = d.events /\ k.out = d.out
      BY <2>6 DEF Fields
    <2> HIDE DEF k
    <2>8. Lives(s, k, n, u)
      BY <2>5, <2>6, <2>7, LivesOn
    <2>9. Lives(s, q, n, u)
      BY <2>4, <2>8, LivesSend
    <2> HIDE DEF q
    <2>10. Move(q, "connected") = q
      BY <2>9 DEF Lives, Move, Transitions
    <2>11. QED
      BY <2>1, <2>9, <2>10
  <1>3. QED
    BY <1>1, <1>2

-----------------------------------------------------------------------------
(* The inductive invariant.                                                *)

Greeting(n) == <<Msg("version", n.server.greets)>>

\* A session before its socket is open.
Unopened(s, n) ==
  /\ s.init = "" /\ s.rq = <<>> /\ ~s.short /\ s.hears = Hearing
  /\ ~s.timer /\ ~s.pending /\ ~s.tight /\ n.wire = Greeting(n)

Live(s, n) ==
  /\ s.hears = Hearing /\ ~s.timer /\ s.sock = "open"
  /\ s.init = "ServerInitialisation" /\ IsList(s.rq) /\ IsList(n.wire)

Ending(s) ==
  /\ s.timer /\ s.init = "ServerInitialisation" /\ ~s.screen
  /\ "open" \notin s.hears /\ "message" \notin s.hears
  /\ s.sock \notin {"opening", "open"}

\* "noise": an earlier session has told the page something after its end.
Dead(s, n, noise) ==
  /\ ~s.timer /\ s.sock \notin {"opening", "open"} /\ "message" \notin s.hears
  /\ s.screen => s.sock = "none" /\ ~s.clean
  /\ s.grabbed => "open" \notin s.hears \/ n.noisy
  /\ n.noisy => ~s.clean \/ noise
  /\ s.clean => s.init = "ServerInitialisation"

\* How a session is between two callbacks.
Fits(s, n, noise) ==
  /\ DOMAIN s = Fields /\ DOMAIN n = NetFields /\ IsServer(n.server)
  /\ s.events = <<>> /\ s.out = <<>>
  /\ \/ s.conn = "" /\ s.sock = "none" /\ Unopened(s, n)
     \/ s.conn = "connecting" /\ s.sock = "opening" /\ Unopened(s, n)
     \/ Setting(s) /\ Stage(s, n.wire, n.server)
     \/ s.conn = "connected" /\ Live(s, n)
     \/ s.conn = "disconnecting" /\ Ending(s)
     \/ s.conn = "disconnected" /\ Dead(s, n, noise)
  /\ s.conn # "disconnected" => ~n.noisy /\ ~n.refused
  /\ s.retry => noise \/ Waits(s, n.wire) \/ (s.conn = "disconnected" /\ ~s.clean)

\* The page, with k sessions so far and the one it holds in the state c.
PageFits(u, k, c) ==
  /\ DOMAIN u = PageFields /\ u.cur \in {NONE, k}
  /\ PowerFits(u)
  /\ u.cur = NONE =>
       ~u.connected /\ u.visual \notin {"connecting", "connected", "disconnecting"}
  /\ u.reconnect => u.cur = NONE /\ u.visual = "reconnecting"
  /\ u.cur # NONE =>
       /\ u.status.text # "failed"
       /\ u.connected <=> c = "connected"
       /\ \/ c \in {"", "connecting"} /\ u.visual = "connecting"
          \/ c = "connected" /\ u.visual = "connected"
          \/ c = "disconnecting" /\ u.visual = "disconnecting"

Noise(q, i) == \E j \in 1 .. i - 1 : q[j].noisy

\* The session s that the page u holds, if it is being set up.
GoingOn(u, s) ==
  (s.conn = "connecting" /\ s.sock = "open" /\ Whole(s))
    => u.ask \/ s.retry \/ LeftAlone(s)

Inv ==
  /\ IsList(rfb) /\ IsList(net) /\ Len(net) = Len(rfb)
  /\ plan \in Plans /\ Len(rfb) <= Len(plan)
  /\ \A i \in Ids : Fits(rfb[i], net[i], Noise(net, i))
  /\ \A i \in Ids : i # ui.cur => rfb[i].conn = "disconnected"
  /\ PageFits(ui, Len(rfb), rfb[ui.cur].conn)
  /\ ui.cur # NONE => GoingOn(ui, rfb[ui.cur])
  /\ ui.ask => \/ \E i \in Ids : net[i].noisy
               \/ /\ ui.cur # NONE /\ ~rfb[ui.cur].retry
                  /\ Waits(rfb[ui.cur], net[ui.cur].wire)
  /\ RefusalShown

-----------------------------------------------------------------------------
(* The steps of the page and of one of its sessions.                       *)

\* More noise excuses more.
LEMMA FitsMore ==
  ASSUME NEW s, NEW n, NEW x, NEW y, Fits(s, n, x), x => y
  PROVE Fits(s, n, y)
  <1>1. Dead(s, n, x) => Dead(s, n, y)
    BY DEF Dead
  <1>2. QED
    BY <1>1 DEF Fits

Late(r) ==
  r.conn = "disconnected" /\ r.events # <<>> /\ Last(r.events)[1] # "disconnect"
Note(n, r, w) ==
  [n EXCEPT !.wire = w, !.refused = @ \/ Rejects(r), !.noisy = @ \/ Late(r)]
Rest(r) == [r EXCEPT !.events = <<>>, !.out = <<>>]

\* What is noted of a callback.
LEMMA NoteFacts ==
  ASSUME NEW n, DOMAIN n = NetFields, NEW r, NEW w
  PROVE LET m == Note(n, r, w)
        IN /\ DOMAIN m = NetFields /\ m.server = n.server /\ m.sent = n.sent
           /\ m.down = n.down /\ m.wire = w
           /\ m.refused <=> n.refused \/ Rejects(r)
           /\ m.noisy <=> n.noisy \/ Late(r)
  BY DEF Note, NetFields

LEMMA RestFacts ==
  ASSUME NEW r, DOMAIN r = Fields
  PROVE LET s == Rest(r)
        IN /\ DOMAIN s = Fields /\ s.events = <<>> /\ s.out = <<>>
           /\ s.conn = r.conn /\ s.init = r.init /\ s.version = r.version
           /\ s.scheme = r.scheme /\ s.tight = r.tight /\ s.clean = r.clean
           /\ s.viewOnly = r.viewOnly /\ s.hears = r.hears /\ s.sock = r.sock
           /\ s.timer = r.timer /\ s.retry = r.retry /\ s.screen = r.screen
           /\ s.grabbed = r.grabbed /\ s.rq = r.rq /\ s.short = r.short
           /\ s.pending = r.pending /\ Lists(s)
  <1>1. Lists(Rest(r))
    BY ListEmpty DEF Rest, Lists, Fields
  <1>2. QED
    BY <1>1 DEF Rest, Fields

\* The state after a callback of session i.
LEMMA After ==
  ASSUME Inv, NEW i \in Ids, NEW r, NEW u, NEW w, Received(i, r, u, w)
  PROVE /\ Len(rfb) \in Nat /\ Ids' = Ids /\ Len(rfb') = Len(rfb)
        /\ IsList(rfb') /\ IsList(net') /\ Len(net') = Len(rfb)
        /\ rfb'[i] = Rest(r) /\ net'[i] = Ask(Note(net[i], r, w), r)
        /\ ui' = Tell(u, r)
        /\ \A j \in Ids : j # i => rfb'[j] = rfb[j] /\ net'[j] = net[j]
  <1>1. IsList(rfb) /\ IsList(net) /\ Len(net) = Len(rfb) /\ i \in 1 .. Len(rfb)
    BY DEF Inv, Ids
  <1> DEFINE a == Rest(r)
             b == Ask(Note(net[i], r, w), r)
  <1>2. rfb' = [rfb EXCEPT ![i] = a] /\ ui' = Tell(u, r) /\ net' = [net EXCEPT ![i] = b]
    BY DEF Received, Rest, Ask, Tell, Note, Late, Rejects
  <1> HIDE DEF a, b
  <1> DEFINE x == [rfb EXCEPT ![i] = a]
             y == [net EXCEPT ![i] = b]
  <1>2a. IsList(rfb)
    BY <1>1
  <1>2b. i \in 1 .. Len(rfb)
    BY <1>1
  <1>3. /\ IsList(x) /\ Len(x) = Len(rfb) /\ Len(rfb) \in Nat
        /\ \A j \in 1 .. Len(rfb) : x[j] = IF j = i THEN a ELSE rfb[j]
    BY <1>2a, <1>2b, ListExcept
  <1>4. i \in 1 .. Len(net)
    BY <1>1
  <1>4a. /\ IsList(y) /\ Len(y) = Len(net)
         /\ \A j \in 1 .. Len(net) : y[j] = IF j = i THEN b ELSE net[j]
    BY <1>1, <1>4, ListExcept
  <1>4b. rfb' = x /\ net' = y
    BY <1>2
  <1> HIDE DEF x, y
  <1>5. Ids' = Ids
    BY <1>3, <1>4b DEF Ids
  <1>6. QED
    BY <1>1, <1>2, <1>3, <1>4a, <1>4b, <1>5 DEF a, b, Ids

\* Every session still fits when one has changed.
LEMMA AllFit ==
  ASSUME Inv, NEW i \in Ids, Ids' = Ids,
         \A j \in Ids : j # i => rfb'[j] = rfb[j] /\ net'[j] = net[j],
         Fits(rfb'[i], net'[i], Noise(net, i)), net[i].noisy => net'[i].noisy
  PROVE /\ \A j \in Ids : Fits(rfb'[j], net'[j], Noise(net', j))
        /\ \A j \in Ids : net[j].noisy => net'[j].noisy
  <1>1. \A j \in Ids : net[j].noisy => net'[j].noisy
    OBVIOUS
  <1>2. ASSUME NEW j \in Ids
        PROVE Fits(rfb'[j], net'[j], Noise(net', j))
    <2>1. j \in 1 .. Len(rfb) /\ Len(rfb) \in Nat
      BY ListExcept, i \in 1 .. Len(rfb) DEF Ids, Inv
    <2>2. \A k \in 1 .. j - 1 : k \in Ids
      BY <2>1 DEF Ids
    <2>3. Noise(net, j) => Noise(net', j)
      BY <1>1, <2>2 DEF Noise
    <2>4. Fits(rfb'[j], net'[j], Noise(net, j))
      <3>1. CASE j = i
        BY <3>1
      <3>2. CASE j # i
        <4>1. Fits(rfb[j], net[j], Noise(net, j))
          BY DEF Inv
        <4>2. rfb'[j] = rfb[j] /\ net'[j] = net[j]
          BY <3>2
        <4>3. QED
          BY <4>1, <4>2
      <3>3. QED
        BY <3>1, <3>2
    <2>5. QED
      BY <2>3, <2>4, FitsMore
  <1>3. QED
    BY <1>1, <1>2

\* The last session is the one that the page holds, when it holds one.
LEMMA LastNet ==
  ASSUME NEW q, IsList(q), q # <<>>
  PROVE Last(q) = q[Len(q)] /\ Len(q) \in Nat /\ Len(q) \in 1 .. Len(q)
  <1>1. PICK S : q \in Seq(S)
    BY DEF IsList
  <1>2. Len(q) \in Nat /\ Len(q) # 0
    BY <1>1
  <1>3. QED
    BY <1>2 DEF Last

\* A callback of the session that the page holds, which goes on.
LEMMA CurStep ==
  ASSUME Inv, NEW i \in Ids, i = ui.cur, NEW r, NEW u, NEW w, Received(i, r, u, w),
         plan' = plan,
         Fits(rfb'[i], net'[i], Noise(net, i)), ui'.cur = i,
         PageFits(ui', Len(rfb), rfb'[i].conn), GoingOn(ui', rfb'[i]),
         ui'.ask => \/ \E j \in Ids : net[j].noisy
                    \/ ~rfb'[i].retry /\ Waits(rfb'[i], net'[i].wire),
         rfb[i].conn # "disconnected"
  PROVE Inv'
  <1>1. /\ Len(rfb) \in Nat /\ Ids' = Ids /\ Len(rfb') = Len(rfb)
        /\ IsList(rfb') /\ IsList(net') /\ Len(net') = Len(rfb)
        /\ \A j \in Ids : j # i => rfb'[j] = rfb[j] /\ net'[j] = net[j]
    BY After
  <1>2. ~net[i].noisy
    BY DEF Inv, Fits
  <1>3. /\ \A j \in Ids : Fits(rfb'[j], net'[j], Noise(net', j))
        /\ \A j \in Ids : net[j].noisy => net'[j].noisy
    BY <1>1, <1>2, AllFit
  <1>4. \A j \in Ids : j # ui'.cur => rfb'[j].conn = "disconnected"
    BY <1>1 DEF Inv
  <1>5. NONE \notin Ids
    BY DEF NONE, Ids
  <1>6. RefusalShown'
    BY <1>5 DEF PageFits, RefusalShown
  <1>7. ui'.ask => \/ \E j \in Ids : net'[j].noisy
                   \/ /\ ui'.cur # NONE /\ ~rfb'[ui'.cur].retry
                      /\ Waits(rfb'[ui'.cur], net'[ui'.cur].wire)
    BY <1>3, <1>5
  <1>8. plan' \in Plans /\ Len(rfb') <= Len(plan')
    BY <1>1 DEF Inv
  <1>9. QED
    BY <1>1, <1>3, <1>4, <1>6, <1>7, <1>8 DEF Inv

\* A callback that ends it.
LEMMA OverStep ==
  ASSUME Inv, NEW i \in Ids, i = ui.cur, NEW r, NEW u, NEW w, Received(i, r, u, w),
         plan' = plan,
         Fits(rfb'[i], net'[i], Noise(net, i)), ui'.cur = NONE,
         rfb'[i].conn = "disconnected",
         PageFits(ui', Len(rfb), rfb'[NONE].conn), ~ui'.ask,
         ui'.status.text = "failed" => ~net'[i].refused \/ net'[i].noisy,
         rfb[i].conn # "disconnected"
  PROVE Inv'
  <1>1. /\ Len(rfb) \in Nat /\ Ids' = Ids /\ Len(rfb') = Len(rfb)
        /\ IsList(rfb') /\ IsList(net') /\ Len(net') = Len(rfb)
        /\ \A j \in Ids : j # i => rfb'[j] = rfb[j] /\ net'[j] = net[j]
    BY After
  <1>2. ~net[i].noisy
    BY DEF Inv, Fits
  <1>3. \A j \in Ids : Fits(rfb'[j], net'[j], Noise(net', j))
    BY <1>1, <1>2, AllFit
  <1>4. \A j \in Ids : rfb'[j].conn = "disconnected"
    BY <1>1 DEF Inv
  <1>5. i = Len(rfb)
    <2>1. PageFits(ui, Len(rfb), rfb[ui.cur].conn)
      BY DEF Inv
    <2>2. ui.cur \in {NONE, Len(rfb)}
      BY <2>1 DEF PageFits
    <2>3. QED
      BY <1>1, <2>2 DEF NONE, Ids
  <1>6. RefusalShown'
    <2>1. net' # <<>>
      BY <1>1 DEF Ids
    <2>2. Last(net') = net'[i]
      BY <1>1, <1>5, <2>1, LastNet
    <2>3. QED
      BY <2>2 DEF RefusalShown
  <1>7. plan' \in Plans /\ Len(rfb') <= Len(plan')
    BY <1>1 DEF Inv
  <1>8. QED
    BY <1>1, <1>3, <1>4, <1>6, <1>7 DEF Inv

\* A callback of a session that has ended.
LEMMA DeadStep ==
  ASSUME Inv, NEW i \in Ids, i # ui.cur, NEW r, NEW u, NEW w, Received(i, r, u, w),
         plan' = plan,
         Fits(rfb'[i], net'[i], Noise(net, i)), rfb'[i].conn = "disconnected",
         net[i].noisy => net'[i].noisy,
         net'[i].refused => net[i].refused \/ net'[i].noisy,
         ui'.cur = ui.cur, PageFits(ui', Len(rfb), rfb[ui.cur].conn),
         ui.ask => ui'.ask, ui'.ask => ui.ask \/ net'[i].noisy,
         ui'.status.text = "failed" => ui.status.text = "failed"
  PROVE Inv'
  <1>1. /\ Len(rfb) \in Nat /\ Ids' = Ids /\ Len(rfb') = Len(rfb)
        /\ IsList(rfb') /\ IsList(net') /\ Len(net') = Len(rfb)
        /\ \A j \in Ids : j # i => rfb'[j] = rfb[j] /\ net'[j] = net[j]
    BY After
  <1>2. /\ \A j \in Ids : Fits(rfb'[j], net'[j], Noise(net', j))
        /\ \A j \in Ids : net[j].noisy => net'[j].noisy
    BY <1>1, AllFit
  <1>3. \A j \in Ids : j # ui'.cur => rfb'[j].conn = "disconnected"
    BY <1>1 DEF Inv
  <1>4. ui.cur # NONE => ui.cur \in Ids
    <2>1. PageFits(ui, Len(rfb), rfb[ui.cur].conn)
      BY DEF Inv
    <2>2. ui.cur \in {NONE, Len(rfb)}
      BY <2>1 DEF PageFits
    <2>3. QED
      BY <1>1, <2>2 DEF NONE, Ids
  <1>5. ui.cur # NONE => rfb'[ui.cur] = rfb[ui.cur] /\ net'[ui.cur] = net[ui.cur]
    BY <1>1, <1>4
  <1>6. PageFits(ui', Len(rfb), rfb'[ui'.cur].conn)
    <2>1. CASE ui.cur # NONE
      BY <1>5, <2>1
    <2>2. CASE ui.cur = NONE
      BY <2>2 DEF PageFits
    <2>3. QED
      BY <2>1, <2>2
  <1>7. ui'.cur # NONE => GoingOn(ui', rfb'[ui'.cur])
    BY <1>5 DEF Inv, GoingOn
  <1>8. ui'.ask => \/ \E j \in Ids : net'[j].noisy
                   \/ /\ ui'.cur # NONE /\ ~rfb'[ui'.cur].retry
                      /\ Waits(rfb'[ui'.cur], net'[ui'.cur].wire)
    BY <1>2, <1>5 DEF Inv
  <1>9. RefusalShown'
    <2>1. net # <<>> /\ net' # <<>> /\ rfb # <<>> /\ IsList(net)
      BY <1>1 DEF Ids, Inv
    <2>2. Last(net') = net'[Len(rfb)] /\ Last(net) = net[Len(rfb)] /\ Len(rfb) \in Ids
      BY <1>1, <2>1, LastNet DEF Inv, Ids
    <2>3. SUFFICES ASSUME ui'.status.text = "failed"
                   PROVE ~Last(net').refused \/ Last(net').noisy
      BY DEF RefusalShown
    <2>4. ~Last(net).refused \/ Last(net).noisy
      BY <2>1, <2>3 DEF Inv, RefusalShown
    <2>5. CASE Len(rfb) = i
      BY <2>2, <2>4, <2>5
    <2>6. CASE Len(rfb) # i
      BY <1>1, <2>2, <2>4, <2>6
    <2>7. QED
      BY <2>5, <2>6
  <1>10. plan' \in Plans /\ Len(rfb') <= Len(plan')
    BY <1>1 DEF Inv
  <1>11. QED
    BY <1>1, <1>2, <1>3, <1>6, <1>7, <1>8, <1>9, <1>10 DEF Inv

\* A step of the page alone.
LEMMA PageStep ==
  ASSUME Inv, rfb' = rfb, net' = net, plan' = plan,
         ui'.cur = ui.cur, PageFits(ui', Len(rfb), rfb[ui.cur].conn),
         ui'.ask = ui.ask \/ ui.cur = NONE, ui'.ask => ui.ask,
         ui'.status.text = "failed" => ui.status.text = "failed"
  PROVE Inv'
  <1>1. Ids' = Ids
    BY DEF Ids
  <1>2. RefusalShown'
    BY DEF RefusalShown, Inv
  <1>3. ui'.cur # NONE => GoingOn(ui', rfb'[ui'.cur])
    BY DEF Inv, GoingOn
  <1>4. QED
    BY <1>1, <1>2, <1>3 DEF Inv

\* The key buttons and the guest's keys are left alone within a connection.
KeysKept ==
  ui.connected /\ ui'.connected =>
    /\ ui'.cur = ui.cur /\ ui'.mods = ui.mods
    /\ net'[ui.cur].down = net[ui.cur].down

\* What a callback that has sent and told what r has leaves of session i, where
\* it started from t.
LEMMA CallbackFacts ==
  ASSUME Inv, NEW i \in Ids, NEW r, DOMAIN r = Fields, NEW u, NEW w,
         Received(i, r, u, w), NEW t, t.events = <<>>, t.out = <<>>,
         SameNet(Ask(Note(net[i], r, w), t), Ask(Note(net[i], r, w), r))
  PROVE /\ DOMAIN net'[i] = NetFields /\ net'[i].server = net[i].server
        /\ net'[i].sent = net[i].sent /\ net'[i].down = net[i].down
        /\ net'[i].refused <=> net[i].refused \/ Rejects(r)
        /\ net'[i].noisy <=> net[i].noisy \/ Late(r)
        /\ net'[i] = Ask(Note(net[i], r, w), r) /\ rfb'[i] = Rest(r)
        /\ ui' = Tell(u, r) /\ IsServer(net'[i].server)
  <1> DEFINE n == Note(net[i], r, w)
  <1>1. rfb'[i] = Rest(r) /\ net'[i] = Ask(n, r) /\ ui' = Tell(u, r)
    BY After
  <1>2. DOMAIN net[i] = NetFields /\ IsServer(net[i].server)
    BY DEF Inv, Fits
  <1>3. /\ DOMAIN n = NetFields /\ n.server = net[i].server /\ n.sent = net[i].sent
        /\ n.down = net[i].down
        /\ n.refused <=> net[i].refused \/ Rejects(r)
        /\ n.noisy <=> net[i].noisy \/ Late(r)
    BY <1>2, NoteFacts
  <1>4. SameNet(Ask(n, t), Ask(n, r))
    OBVIOUS
  <1> HIDE DEF n
  <1>5. Ask(n, t) = n
    BY Silent
  <1>6. SameNet(n, net'[i])
    BY <1>1, <1>4, <1>5
  <1>7. QED
    BY <1>1, <1>2, <1>3, <1>6 DEF SameNet, n

\* What is kept of the session is what it is after the callback.
LEMMA RestStage ==
  ASSUME NEW r, DOMAIN r = Fields, NEW w, NEW server
  PROVE /\ Stage(r, w, server) => Stage(Rest(r), w, server)
        /\ Setting(r) => Setting(Rest(r))
        /\ Whole(Rest(r)) <=> Whole(r)
        /\ Waits(r, w) <=> Waits(Rest(r), w)
        /\ LeftAlone(r) <=> LeftAlone(Rest(r))
  <1> DEFINE s == Rest(r)
  <1>1. /\ DOMAIN s = Fields /\ s.conn = r.conn /\ s.init = r.init
        /\ s.version = r.version /\ s.scheme = r.scheme /\ s.tight = r.tight
        /\ s.hears = r.hears /\ s.sock = r.sock /\ s.timer = r.timer
        /\ s.rq = r.rq /\ s.short = r.short /\ s.pending = r.pending /\ Lists(s)
    BY RestFacts
  <1> HIDE DEF s
  <1>2. \A Q : Input(r, w, Q) <=> Input(s, w, Q)
    BY <1>1 DEF Input
  <1>3. Whole(s) <=> Whole(r)
    BY <1>1 DEF Whole
  <1>4. AuthInput(r, w, server) => AuthInput(s, w, server)
    BY <1>1, <1>2 DEF AuthInput
  <1>5. GreetingInput(r, w) => GreetingInput(s, w)
    BY <1>1, <1>2 DEF GreetingInput
  <1>6. Stage(r, w, server) => Stage(s, w, server)
    BY <1>1, <1>2, <1>4, <1>5 DEF Stage
  <1>7. Setting(r) => Setting(s)
    BY <1>1 DEF Setting
  <1>8. (Waits(r, w) <=> Waits(s, w)) /\ (LeftAlone(r) <=> LeftAlone(s))
    BY <1>1 DEF Waits, LeftAlone
  <1>9. QED
    BY <1>3, <1>6, <1>7, <1>8 DEF s

\* A callback that goes on with the handshake of the session that is held.
LEMMA OutcomeStep ==
  ASSUME Inv, plan' = plan, NEW i \in Ids, i = ui.cur, NEW r, NEW w,
         Received(i, r, ui, w),
         NEW t, Setting(t), t.events = <<>>, t.out = <<>>,
         Outcome(t, r, Note(net[i], r, w), ui),
         rfb[i].conn = "connecting",
         t.retry => Noise(net, i),
         ui.ask => \E j \in Ids : net[j].noisy
  PROVE Inv' /\ KeysKept
  <1> DEFINE n == Note(net[i], r, w)
             s == rfb'[i]
             m == net'[i]
  <1>1. Tell(ui, t) = ui /\ ~Rejects(t)
    BY Silent
  <1>2. PageFits(ui, Len(rfb), rfb[ui.cur].conn) /\ NONE \notin Ids
    BY DEF Inv, NONE, Ids
  <1>3. /\ DOMAIN ui = PageFields /\ PowerFits(ui) /\ ui.cur # NONE /\ ~ui.reconnect
        /\ ui.status.text # "failed" /\ ~ui.connected /\ ui.visual = "connecting"
        /\ ui.cur = Len(rfb)
    BY <1>2 DEF PageFits
  <1>4. ~net[i].noisy /\ ~net[i].refused
    BY DEF Inv, Fits
  <1>5. KeysKept
    BY <1>3 DEF KeysKept
  <1>6. Noise(net, i) => \E j \in Ids : net[j].noisy
    <2>1. Len(rfb) \in Nat
      BY After
    <2>2. \A j \in 1 .. i - 1 : j \in Ids
      BY <2>1 DEF Ids
    <2>3. QED
      BY <2>2 DEF Noise
  <1>7. CASE GoesOn(t, r, n, ui)
    <2>1. DOMAIN r = Fields /\ Setting(r) /\ r.conn = "connecting" /\ SameNet(Ask(n, t), Ask(n, r))
          /\ r.retry = t.retry
      BY <1>7 DEF GoesOn, Setting
    <2>2. ~Late(r) /\ ~Rejects(r)
      BY <1>1, <1>7, <2>1 DEF Late, GoesOn
    <2>3. /\ DOMAIN m = NetFields /\ IsServer(m.server) /\ ~m.refused /\ ~m.noisy
          /\ m = Ask(n, r) /\ s = Rest(r) /\ ui' = Tell(ui, r)
      BY <1>4, <2>1, <2>2, CallbackFacts
    <2>4. ui' = ui
      BY <1>1, <1>7, <2>3 DEF GoesOn
    <2>5. /\ Setting(s) /\ Stage(s, m.wire, m.server)
          /\ Whole(s) => LeftAlone(s)
      BY <1>7, <2>1, <2>3, RestStage DEF GoesOn
    <2>6. /\ DOMAIN s = Fields /\ s.events = <<>> /\ s.out = <<>>
          /\ s.conn = "connecting" /\ s.retry = t.retry
      BY <2>1, <2>3, RestFacts
    <2> HIDE DEF s, m, n
    <2>7. Fits(s, m, Noise(net, i))
      BY <2>3, <2>5, <2>6 DEF Fits
    <2>8. PageFits(ui', Len(rfb), s.conn)
      BY <1>3, <2>4, <2>6 DEF PageFits
    <2>9. GoingOn(ui', s)
      BY <2>5 DEF GoingOn
    <2>10. Inv'
      BY <2>4, <2>7, <2>8, <2>9, CurStep DEF s, m
    <2>11. QED
      BY <1>5, <2>10
  <1>8. CASE Asks(t, r, n, ui)
    <2>1. DOMAIN r = Fields /\ Setting(r) /\ r.conn = "connecting" /\ SameNet(Ask(n, t), Ask(n, r))
          /\ r.retry = t.retry
      BY <1>8 DEF Asks, Setting
    <2>2. ~Late(r) /\ ~Rejects(r)
      BY <1>1, <1>8, <2>1 DEF Late, Asks
    <2>3. /\ DOMAIN m = NetFields /\ IsServer(m.server) /\ ~m.refused /\ ~m.noisy
          /\ m = Ask(n, r) /\ s = Rest(r) /\ ui' = Tell(ui, r)
      BY <1>4, <2>1, <2>2, CallbackFacts
    <2>4. ui' = Credentials(ui)
      BY <1>1, <1>8, <2>3 DEF Asks
    <2>5. /\ Setting(s) /\ Stage(s, m.wire, m.server) /\ Waits(s, m.wire)
      BY <1>8, <2>1, <2>3, RestStage DEF Asks
    <2>6. /\ DOMAIN s = Fields /\ s.events = <<>> /\ s.out = <<>>
          /\ s.conn = "connecting" /\ s.retry = t.retry
      BY <2>1, <2>3, RestFacts
    <2>7. /\ DOMAIN ui' = PageFields
          /\ ui'.cur = ui.cur /\ ui'.connected = ui.connected /\ ui'.reconnect = ui.reconnect
          /\ ui'.visual = ui.visual /\ ui'.ask
          /\ ui'.power = ui.power /\ ui'.panel = ui.panel
          /\ ui'.status.text \in {ui.status.text, "password"}
      BY <1>3, <2>4, CredentialsPage
    <2> HIDE DEF s, m, n
    <2>8. Fits(s, m, Noise(net, i))
      BY <2>3, <2>5, <2>6 DEF Fits
    <2>9. PageFits(ui', Len(rfb), s.conn)
      BY <1>3, <2>6, <2>7 DEF PageFits, PowerFits
    <2>10. GoingOn(ui', s)
      BY <2>7 DEF GoingOn
    <2>11. (\E j \in Ids : net[j].noisy) \/ (~s.retry /\ Waits(s, m.wire))
      BY <1>6, <2>5, <2>6
    <2>12. Inv'
      BY <2>7, <2>8, <2>9, <2>10, <2>11, CurStep DEF s, m
    <2>13. QED
      BY <1>5, <2>12
  <1>9. CASE Connects(t, r, n, ui)
    <2>1. DOMAIN r = Fields /\ r.conn = "connected" /\ SameNet(Ask(n, t), Ask(n, r))
          /\ r.retry = t.retry
      BY <1>9 DEF Connects
    <2>2. ~Late(r) /\ ~Rejects(r)
      BY <1>1, <1>9, <2>1 DEF Late, Connects
    <2>3. /\ DOMAIN m = NetFields /\ IsServer(m.server) /\ ~m.refused /\ ~m.noisy
          /\ m = Ask(n, r) /\ s = Rest(r) /\ ui' = Tell(ui, r)
      BY <1>4, <2>1, <2>2, CallbackFacts
    <2>4. ui' = ConnectFinished(ui)
      BY <1>1, <1>9, <2>3 DEF Connects
    <2>5. /\ DOMAIN s = Fields /\ s.events = <<>> /\ s.out = <<>>
          /\ s.conn = "connected" /\ s.retry = t.retry /\ s.sock = r.sock
          /\ s.hears = r.hears /\ s.timer = r.timer /\ s.init = r.init /\ s.rq = r.rq
      BY <2>1, <2>3, RestFacts
    <2>6. /\ DOMAIN ui' = PageFields
          /\ ui'.cur = ui.cur /\ ui'.connected /\ ui'.reconnect = ui.reconnect
          /\ ui'.visual = "connected" /\ ~ui'.ask
          /\ ui'.status.text \in {ui.status.text, "connected"} /\ PowerFits(ui')
      BY <1>3, <2>4, ConnectPage
    <2>7. Live(s, m)
      BY <1>9, <2>3, <2>5 DEF Connects, Live
    <2> HIDE DEF s, m, n
    <2>8. Fits(s, m, Noise(net, i))
      BY <2>3, <2>5, <2>7 DEF Fits
    <2>9. PageFits(ui', Len(rfb), s.conn)
      BY <1>3, <2>5, <2>6 DEF PageFits
    <2>10. GoingOn(ui', s)
      BY <2>5 DEF GoingOn
    <2>11. Inv'
      BY <2>5, <2>6, <2>8, <2>9, <2>10, CurStep DEF s, m
    <2>12. QED
      BY <1>5, <2>11
  <1>10. CASE Fails(t, r, n, ui)
    <2>1. DOMAIN r = Fields /\ r.conn = "disconnected" /\ SameNet(Ask(n, t), Ask(n, r))
          /\ r.retry = t.retry
      BY <1>10 DEF Fails, Gone
    <2>2. ~Late(r)
      BY <1>10 DEF Late, Fails
    <2>3. /\ DOMAIN m = NetFields /\ IsServer(m.server) /\ ~m.noisy
          /\ m.refused <=> Rejects(r)
          /\ m = Ask(n, r) /\ s = Rest(r) /\ ui' = Tell(ui, r)
      BY <1>4, <2>1, <2>2, CallbackFacts
    <2>4. /\ DOMAIN s = Fields /\ s.events = <<>> /\ s.out = <<>>
          /\ s.conn = "disconnected" /\ s.retry = t.retry /\ s.sock = r.sock
          /\ s.hears = r.hears /\ s.timer = r.timer /\ s.init = r.init
          /\ s.screen = r.screen /\ s.grabbed = r.grabbed /\ s.clean = r.clean
      BY <2>1, <2>3, RestFacts
    <2>5. Dead(s, m, Noise(net, i))
      BY <1>10, <2>3, <2>4 DEF Fails, Gone, Dead
    <2>6. /\ Closed(ui, ui')
          /\ ui'.status.text = "failed" => ~m.refused
      <3>1. CASE ui' = DisconnectFinished(ui, FALSE) /\ ~Rejects(r)
        BY <1>3, <2>3, <3>1, DisconnectPage
      <3>2. CASE ui' = DisconnectFinished(SecurityFailed(ui), FALSE)
        <4> DEFINE v == SecurityFailed(ui)
        <4>1. /\ DOMAIN v = PageFields /\ v.reconnect = ui.reconnect /\ v.mods = ui.mods
              /\ v.status.text \in {ui.status.text, "rejected"}
              /\ v.status.kind = "error"
          BY <1>3, RejectedPage
        <4> HIDE DEF v
        <4>2. Closed(v, ui') /\ ui'.status = v.status
          BY <3>2, <4>1, DisconnectPage DEF v
        <4>3. QED
          BY <1>3, <4>1, <4>2 DEF Closed
      <3>3. QED
        BY <1>1, <1>10, <2>3, <3>1, <3>2 DEF Fails
    <2> HIDE DEF s, m, n
    <2>7. Fits(s, m, Noise(net, i))
      BY <2>3, <2>4, <2>5 DEF Fits, Dead
    <2>8. \A c : PageFits(ui', Len(rfb), c)
      BY <1>3, <2>6 DEF Closed, PageFits, PowerFits
    <2>9. ~ui'.ask /\ ui'.cur = NONE
      BY <2>6 DEF Closed
    <2>10. Inv'
      BY <2>4, <2>6, <2>7, <2>8, <2>9, OverStep DEF s, m
    <2>11. QED
      BY <1>5, <2>10
  <1>11. QED
    BY <1>7, <1>8, <1>9, <1>10 DEF Outcome

\* The page before a callback, but for what the user has set.
AsBefore(u) ==
  /\ DOMAIN u = PageFields /\ u.cur = ui.cur /\ u.connected = ui.connected
  /\ u.reconnect = ui.reconnect /\ u.visual = ui.visual /\ u.ask = ui.ask
  /\ u.mods = ui.mods /\ u.status = ui.status
  /\ u.power = ui.power /\ u.panel = ui.panel

\* The page while the session that it holds is connected.
LEMMA ConnectedPage ==
  ASSUME Inv, NEW i \in Ids, rfb[i].conn = "connected"
  PROVE /\ i = ui.cur /\ ui.cur # NONE /\ DOMAIN ui = PageFields /\ PowerFits(ui)
        /\ ui.cur = Len(rfb) /\ ui.connected /\ ~ui.reconnect
        /\ ui.visual = "connected" /\ ui.status.text # "failed"
        /\ ~net[i].noisy /\ ~net[i].refused
        /\ Live(rfb[i], net[i]) /\ rfb[i].events = <<>> /\ rfb[i].out = <<>>
        /\ DOMAIN rfb[i] = Fields /\ DOMAIN net[i] = NetFields
        /\ IsServer(net[i].server)
        /\ rfb[i].retry => Noise(net, i)
        /\ ui.ask => \E j \in Ids : net[j].noisy
  <1>1. i = ui.cur
    BY DEF Inv
  <1>2. ui.cur # NONE
    BY <1>1 DEF NONE, Ids
  <1>3. PageFits(ui, Len(rfb), rfb[ui.cur].conn)
    BY DEF Inv
  <1>4. /\ DOMAIN ui = PageFields /\ PowerFits(ui) /\ ui.cur = Len(rfb)
        /\ ui.connected /\ ~ui.reconnect /\ ui.visual = "connected"
        /\ ui.status.text # "failed"
    BY <1>1, <1>2, <1>3 DEF PageFits
  <1>5. Fits(rfb[i], net[i], Noise(net, i))
    BY DEF Inv
  <1>6. ~Waits(rfb[i], net[i].wire)
    BY DEF Waits
  <1>7. /\ Live(rfb[i], net[i])
        /\ ~net[i].noisy /\ ~net[i].refused
        /\ rfb[i].events = <<>> /\ rfb[i].out = <<>>
        /\ DOMAIN rfb[i] = Fields /\ DOMAIN net[i] = NetFields
        /\ IsServer(net[i].server)
    BY <1>5, <1>6 DEF Fits, Setting
  <1>7a. rfb[i].retry => Noise(net, i)
    BY <1>5, <1>6 DEF Fits
  <1>8. ui.ask => \E j \in Ids : net[j].noisy
    BY <1>1, <1>6 DEF Inv
  <1>9. QED
    BY <1>1, <1>2, <1>4, <1>7, <1>7a, <1>8

\* A callback of a connected session.
LEMMA LivesStep ==
  ASSUME Inv, plan' = plan, NEW i \in Ids, rfb[i].conn = "connected",
         NEW r, NEW u, NEW w, Received(i, r, u, w), AsBefore(u),
         NEW t, t.events = <<>>, t.out = <<>>, t.retry => Noise(net, i),
         Lives(t, r, Note(net[i], r, w), u) \/ Falls(t, r, Note(net[i], r, w), u)
  PROVE Inv' /\ KeysKept
  <1> DEFINE n == Note(net[i], r, w)
             s == rfb'[i]
             m == net'[i]
  <1>1. \A v : Tell(v, t) = v
    BY Silent
  <1>1a. ~Rejects(t)
    BY Silent
  <1>2. /\ i = ui.cur /\ ui.cur # NONE /\ DOMAIN ui = PageFields /\ PowerFits(ui)
        /\ ui.cur = Len(rfb) /\ ui.connected /\ ~ui.reconnect
        /\ ui.visual = "connected" /\ ui.status.text # "failed"
        /\ ~net[i].noisy /\ ~net[i].refused
        /\ ui.ask => \E j \in Ids : net[j].noisy
    BY ConnectedPage
  <1>2a. ui.ask => \E j \in Ids : net[j].noisy
    BY ConnectedPage
  <1>3. CASE Lives(t, r, n, u)
    <2>1. /\ DOMAIN r = Fields /\ r.conn = "connected" /\ SameNet(Ask(n, t), Ask(n, r))
          /\ r.retry = t.retry /\ ~Rejects(r)
      BY <1>1a, <1>3 DEF Lives
    <2>2. ~Late(r)
      BY <2>1 DEF Late
    <2>3. /\ DOMAIN m = NetFields /\ IsServer(m.server) /\ ~m.refused /\ ~m.noisy
          /\ m.down = net[i].down
          /\ m = Ask(n, r) /\ s = Rest(r) /\ ui' = Tell(u, r)
      BY <1>2, <2>1, <2>2, CallbackFacts
    <2>4. SamePage(u, ui')
      BY <1>1, <1>3, <2>3 DEF Lives
    <2>5. /\ DOMAIN ui' = PageFields /\ ui'.cur = ui.cur /\ ui'.connected
          /\ ~ui'.reconnect /\ ui'.visual = "connected" /\ ui'.ask = ui.ask
          /\ ui'.mods = ui.mods /\ ui'.status = ui.status /\ PowerFits(ui')
      BY <1>2, <2>4 DEF SamePage, AsBefore, PowerFits
    <2>6. /\ DOMAIN s = Fields /\ s.events = <<>> /\ s.out = <<>>
          /\ s.conn = "connected" /\ s.retry = t.retry /\ s.sock = r.sock
          /\ s.hears = r.hears /\ s.timer = r.timer /\ s.init = r.init /\ s.rq = r.rq
      BY <2>1, <2>3, RestFacts
    <2>7. Live(s, m)
      BY <1>3, <2>3, <2>6 DEF Lives, Live
    <2>8. KeysKept
      BY <1>2, <2>3, <2>5 DEF KeysKept
    <2> HIDE DEF s, m, n
    <2>9. Fits(s, m, Noise(net, i))
      BY <2>3, <2>6, <2>7 DEF Fits
    <2>10. PageFits(ui', Len(rfb), s.conn)
      BY <1>2, <2>5, <2>6 DEF PageFits
    <2>11. GoingOn(ui', s)
      BY <2>6 DEF GoingOn
    <2>12. ui'.ask => \E j \in Ids : net[j].noisy
      BY <1>2a, <2>5
    <2>13. rfb[i].conn # "disconnected" /\ ui'.cur = i
      BY <1>2, <2>5
    <2>14. Inv'
      BY <1>2, <2>9, <2>10, <2>11, <2>12, <2>13, CurStep DEF s, m
    <2>15. QED
      BY <2>8, <2>14
  <1>4. CASE Falls(t, r, n, u)
    <2>1. /\ DOMAIN r = Fields /\ r.conn = "disconnected" /\ SameNet(Ask(n, t), Ask(n, r))
          /\ r.retry = t.retry /\ ~Rejects(r)
      BY <1>1a, <1>4 DEF Falls
    <2>3. /\ DOMAIN m = NetFields /\ IsServer(m.server) /\ ~m.refused
          /\ m = Ask(n, r) /\ s = Rest(r) /\ ui' = Tell(u, r)
      BY <1>2, <2>1, CallbackFacts
    <2>4. Closed(u, ui')
      BY <1>1, <1>4, <2>3 DEF Falls
    <2>5. /\ DOMAIN s = Fields /\ s.events = <<>> /\ s.out = <<>>
          /\ s.conn = "disconnected" /\ s.retry = t.retry /\ s.sock = r.sock
          /\ s.hears = r.hears /\ s.timer = r.timer /\ s.clean = r.clean
          /\ s.screen = r.screen /\ s.grabbed = r.grabbed
      BY <2>1, <2>3, RestFacts
    <2>6. Dead(s, m, Noise(net, i))
      BY <1>4, <2>5 DEF Falls, Dead
    <2>7. KeysKept
      BY <2>4 DEF KeysKept, Closed
    <2> HIDE DEF s, m, n
    <2>8. Fits(s, m, Noise(net, i))
      BY <2>3, <2>5, <2>6 DEF Fits
    <2>9. \A c : PageFits(ui', Len(rfb), c)
      BY <1>2, <2>4 DEF Closed, PageFits, PowerFits, AsBefore
    <2>10. ~ui'.ask /\ ui'.cur = NONE
      BY <2>4 DEF Closed
    <2>11. rfb[i].conn # "disconnected" /\ s.conn = "disconnected" /\ ~m.refused
      BY <2>3, <2>5
    <2>12. Inv'
      BY <1>2, <2>8, <2>9, <2>10, <2>11, OverStep DEF s, m
    <2>13. QED
      BY <2>7, <2>12
  <1>5. QED
    BY <1>3, <1>4

\* A session that has ended.
LEMMA DeadFacts ==
  ASSUME Inv, NEW i \in Ids, rfb[i].conn = "disconnected"
  PROVE /\ i # ui.cur /\ DOMAIN ui = PageFields
        /\ Dead(rfb[i], net[i], Noise(net, i))
        /\ rfb[i].events = <<>> /\ rfb[i].out = <<>>
        /\ DOMAIN rfb[i] = Fields /\ DOMAIN net[i] = NetFields
        /\ IsServer(net[i].server)
        /\ rfb[i].retry => Noise(net, i) \/ ~rfb[i].clean
  <1>1. PageFits(ui, Len(rfb), rfb[ui.cur].conn)
    BY DEF Inv
  <1>2. i # ui.cur
    <2>1. SUFFICES ASSUME i = ui.cur PROVE FALSE
      OBVIOUS
    <2>2. ui.cur # NONE
      BY <2>1 DEF NONE, Ids
    <2>3. rfb[ui.cur].conn # "disconnected"
      BY <1>1, <2>2 DEF PageFits
    <2>4. QED
      BY <2>1, <2>3
  <1>3. Fits(rfb[i], net[i], Noise(net, i))
    BY DEF Inv
  <1>4. ~Waits(rfb[i], net[i].wire) /\ ~Setting(rfb[i])
    BY DEF Waits, Setting
  <1>5. /\ Dead(rfb[i], net[i], Noise(net, i))
        /\ rfb[i].events = <<>> /\ rfb[i].out = <<>>
        /\ DOMAIN rfb[i] = Fields /\ DOMAIN net[i] = NetFields
        /\ IsServer(net[i].server)
    BY <1>3, <1>4 DEF Fits
  <1>6. rfb[i].retry => Noise(net, i) \/ ~rfb[i].clean
    BY <1>3, <1>4 DEF Fits
  <1>7. QED
    BY <1>1, <1>2, <1>5, <1>6 DEF PageFits

\* A callback of it, which starts from t.
LEMMA DyingStep ==
  ASSUME Inv, plan' = plan, NEW i \in Ids, rfb[i].conn = "disconnected",
         NEW r, NEW w, Received(i, r, ui, w),
         NEW t, Dying(t), t.events = <<>>, t.out = <<>>, Still(t, r),
         Dead(t, net[i], Noise(net, i)),
         t.retry => Noise(net, i) \/ ~t.clean,
         t.init = "ServerInitialisation" => r.init = t.init,
         t.clean /\ r.events # <<>> => Noise(net, i)
  PROVE Inv' /\ KeysKept
  <1> DEFINE n == Note(net[i], r, w)
             s == rfb'[i]
             m == net'[i]
  <1>1. Tell(ui, t) = ui /\ ~Rejects(t)
    BY Silent
  <1>2. i # ui.cur /\ DOMAIN ui = PageFields /\ DOMAIN net[i] = NetFields
    BY DeadFacts
  <1>3. r.conn = "disconnected" /\ DOMAIN r = Fields /\ r.out = <<>> /\ Lists(r)
    BY DEF Still, Dying
  <1>4. DOMAIN n = NetFields
    BY <1>2, NoteFacts
  <1>5. SameNet(Ask(n, t), Ask(n, r))
    <2>1. Ask(n, t) = n /\ Ask(n, r) = n
      <3> HIDE DEF n
      <3>1. Ask(n, t) = n
        BY Silent
      <3>2. Ask(n, r) = Ask(n, t)
        BY <1>3 DEF Ask
      <3>3. QED
        BY <3>1, <3>2
    <2> HIDE DEF n
    <2>2. QED
      BY <1>4, <2>1 DEF SameNet
  <1>6. /\ DOMAIN m = NetFields /\ IsServer(m.server) /\ m.down = net[i].down
        /\ m.refused <=> net[i].refused \/ Rejects(r)
        /\ m.noisy <=> net[i].noisy \/ Late(r)
        /\ s = Rest(r) /\ ui' = Tell(ui, r)
    BY <1>3, <1>5, CallbackFacts
  <1>7. r.events # <<>> <=> Late(r)
    BY <1>3 DEF Still, Late
  <1>8. Rejects(r) => r.events # <<>>
    BY DEF Rejects
  <1>9. StillPage(ui, ui')
    BY <1>1, <1>2, <1>6 DEF Still
  <1>10. r.events = <<>> => ui' = ui
    <2>1. ASSUME r.events = <<>> PROVE ui' = ui
      BY <1>3, <1>6, <2>1, Silent
    <2>2. QED
      BY <2>1
  <1>11. /\ DOMAIN s = Fields /\ s.events = <<>> /\ s.out = <<>>
         /\ s.conn = "disconnected" /\ s.retry = r.retry /\ s.sock = r.sock
         /\ s.hears = r.hears /\ s.timer = r.timer /\ s.clean = r.clean
         /\ s.screen = r.screen /\ s.grabbed = r.grabbed /\ s.init = r.init
    BY <1>3, <1>6, RestFacts
  <1>12. Dead(s, m, Noise(net, i))
    <2>1. ~s.timer /\ s.sock \notin {"opening", "open"} /\ "message" \notin s.hears
      BY <1>11 DEF Still, Dead
    <2>2. s.screen => s.sock = "none" /\ ~s.clean
      BY <1>11 DEF Still, Dead
    <2>3. s.grabbed => "open" \notin s.hears \/ m.noisy
      BY <1>6, <1>7, <1>11 DEF Still, Dead
    <2>4. m.noisy => ~s.clean \/ Noise(net, i)
      BY <1>6, <1>7, <1>11 DEF Still, Dead
    <2>5. s.clean => s.init = "ServerInitialisation"
      BY <1>11 DEF Still, Dead
    <2>6. QED
      BY <2>1, <2>2, <2>3, <2>4, <2>5 DEF Dead
  <1>13. s.retry => Noise(net, i) \/ ~s.clean
    BY <1>11 DEF Still
  <1> HIDE DEF s, m, n
  <1>14. Fits(s, m, Noise(net, i))
    BY <1>6, <1>11, <1>12, <1>13 DEF Fits
  <1>15. PageFits(ui', Len(rfb), rfb[ui.cur].conn)
    <2>1. PageFits(ui, Len(rfb), rfb[ui.cur].conn)
      BY DEF Inv
    <2>1a. ui.cur # NONE => ui'.status.text # "failed"
      BY <1>9, <2>1 DEF PageFits, StillPage
    <2>2. QED
      BY <1>9, <2>1, <2>1a DEF PageFits, StillPage, PowerFits
  <1>16. ui'.ask => ui.ask \/ m.noisy
    BY <1>6, <1>7, <1>10
  <1>17. m.refused => net[i].refused \/ m.noisy
    BY <1>6, <1>7, <1>8
  <1>18. /\ net[i].noisy => m.noisy
         /\ ui'.cur = ui.cur /\ (ui.ask => ui'.ask)
         /\ ui'.status.text = "failed" => ui.status.text = "failed"
    BY <1>6, <1>9 DEF StillPage
  <1>19. Inv'
    BY <1>2, <1>11, <1>14, <1>15, <1>16, <1>17, <1>18, DeadStep DEF s, m
  <1>20. KeysKept
    <2>1. \A j \in Ids : j # i => net'[j] = net[j]
      BY After
    <2>2. SUFFICES ASSUME ui.connected
                   PROVE ui'.cur = ui.cur /\ ui'.mods = ui.mods /\ net'[ui.cur].down = net[ui.cur].down
      BY DEF KeysKept
    <2>3. ui.cur \in Ids
      <3>1. PageFits(ui, Len(rfb), rfb[ui.cur].conn)
        BY DEF Inv
      <3>2. ui.cur # NONE /\ ui.cur = Len(rfb)
        BY <2>2, <3>1 DEF PageFits
      <3>3. Len(rfb) \in Nat
        BY After
      <3>4. QED
        BY <3>2, <3>3 DEF Ids, NONE
    <2>4. QED
      BY <1>2, <1>9, <2>1, <2>3 DEF StillPage
  <1>21. QED
    BY <1>19, <1>20

\* What the invariant says of a session and its server.
LEMMA SessionFacts ==
  ASSUME Inv, NEW i \in Ids
  PROVE /\ Fits(rfb[i], net[i], Noise(net, i))
        /\ rfb[i].events = <<>> /\ rfb[i].out = <<>>
        /\ DOMAIN rfb[i] = Fields /\ DOMAIN net[i] = NetFields
        /\ IsServer(net[i].server) /\ DOMAIN ui = PageFields
        /\ PageFits(ui, Len(rfb), rfb[ui.cur].conn)
  <1>1. Fits(rfb[i], net[i], Noise(net, i)) /\ PageFits(ui, Len(rfb), rfb[ui.cur].conn)
    BY DEF Inv
  <1>2. DOMAIN ui = PageFields
    BY <1>1 DEF PageFits
  <1>3. QED
    BY <1>1, <1>2 DEF Fits

\* A session that goes on is the one that the page holds.
LEMMA HeldFacts ==
  ASSUME Inv, NEW i \in Ids, rfb[i].conn # "disconnected"
  PROVE /\ i = ui.cur /\ ui.cur # NONE /\ ui.cur = Len(rfb)
        /\ ~ui.reconnect /\ ui.status.text # "failed" /\ PowerFits(ui)
        /\ ui.connected <=> rfb[i].conn = "connected"
        /\ \/ rfb[i].conn \in {"", "connecting"} /\ ui.visual = "connecting"
           \/ rfb[i].conn = "connected" /\ ui.visual = "connected"
           \/ rfb[i].conn = "disconnecting" /\ ui.visual = "disconnecting"
        /\ ~net[i].noisy /\ ~net[i].refused
        /\ rfb[i].retry => Noise(net, i) \/ Waits(rfb[i], net[i].wire)
        /\ ui.ask => \/ \E j \in Ids : net[j].noisy
                     \/ ~rfb[i].retry /\ Waits(rfb[i], net[i].wire)
        /\ GoingOn(ui, rfb[i])
  <1>1. i = ui.cur
    BY DEF Inv
  <1>2. ui.cur # NONE
    BY <1>1 DEF NONE, Ids
  <1>3. PageFits(ui, Len(rfb), rfb[ui.cur].conn) /\ Fits(rfb[i], net[i], Noise(net, i))
    BY SessionFacts
  <1>4. /\ ui.cur = Len(rfb) /\ ~ui.reconnect /\ ui.status.text # "failed" /\ PowerFits(ui)
        /\ ui.connected <=> rfb[i].conn = "connected"
        /\ \/ rfb[i].conn \in {"", "connecting"} /\ ui.visual = "connecting"
           \/ rfb[i].conn = "connected" /\ ui.visual = "connected"
           \/ rfb[i].conn = "disconnecting" /\ ui.visual = "disconnecting"
    BY <1>1, <1>2, <1>3 DEF PageFits
  <1>5. ~net[i].noisy /\ ~net[i].refused
    BY <1>3 DEF Fits
  <1>6. rfb[i].retry => Noise(net, i) \/ Waits(rfb[i], net[i].wire)
    BY <1>3 DEF Fits
  <1>7. ui.ask => \/ \E j \in Ids : net[j].noisy
                  \/ ~rfb[i].retry /\ Waits(rfb[i], net[i].wire)
    BY <1>1, <1>2 DEF Inv
  <1>8. GoingOn(ui, rfb[i])
    BY <1>1, <1>2 DEF Inv
  <1>9. QED
    BY <1>1, <1>2, <1>4, <1>5, <1>6, <1>7, <1>8

\* What the invariant asks of a server, but for what is under way, is as it was.
NetLike(n, m) ==
  /\ DOMAIN m = NetFields /\ m.server = n.server
  /\ (m.refused <=> n.refused) /\ (m.noisy <=> n.noisy)

\* A callback that changes nothing that the invariant is about.
LEMMA QuietFits ==
  ASSUME NEW s, NEW n, NEW x, Fits(s, n, x), NEW r, DOMAIN r = Fields,
         r.events = <<>>, r.out = <<>>,
         r.conn = s.conn, r.init = s.init, r.version = s.version,
         r.scheme = s.scheme, r.tight = s.tight, r.hears = s.hears,
         r.sock = s.sock, r.timer = s.timer, r.screen = s.screen,
         r.rq = s.rq, r.short = s.short,
         r.clean => s.clean, r.retry => s.retry, r.pending => s.pending,
         r.grabbed => s.grabbed \/ s.conn # "disconnected",
         NEW m, NetLike(n, m), m.wire = n.wire
  PROVE Fits(r, m, x)
  <1>1. \A w, Q : Input(s, w, Q) <=> Input(r, w, Q)
    BY DEF Input
  <1>2. \A w, server : AuthInput(s, w, server) => AuthInput(r, w, server)
    BY <1>1 DEF AuthInput
  <1>3. \A w : GreetingInput(s, w) => GreetingInput(r, w)
    BY <1>1 DEF GreetingInput
  <1>4. \A w, server : Stage(s, w, server) => Stage(r, w, server)
    BY <1>1, <1>2, <1>3 DEF Stage
  <1>5. Lists(r)
    BY ListEmpty DEF Lists
  <1>6. Setting(s) => Setting(r)
    BY <1>5 DEF Setting
  <1>7. Unopened(s, n) => Unopened(r, m)
    BY DEF Unopened, Greeting, NetLike
  <1>8. Live(s, n) => Live(r, m)
    BY DEF Live
  <1>9. Ending(s) => Ending(r)
    BY DEF Ending
  <1>10. s.conn = "disconnected" /\ Dead(s, n, x) => Dead(r, m, x)
    BY DEF Dead, NetLike
  <1>11. Waits(s, n.wire) => Waits(r, m.wire)
    BY DEF Waits
  <1>12. DOMAIN m = NetFields /\ IsServer(m.server) /\ m.server = n.server
    BY DEF Fits, NetLike
  <1>13. r.retry => x \/ Waits(r, m.wire) \/ (r.conn = "disconnected" /\ ~r.clean)
    BY <1>11 DEF Fits
  <1>14. r.conn # "disconnected" => ~m.noisy /\ ~m.refused
    BY DEF Fits, NetLike
  <1>15. \/ r.conn = "" /\ r.sock = "none" /\ Unopened(r, m)
         \/ r.conn = "connecting" /\ r.sock = "opening" /\ Unopened(r, m)
         \/ Setting(r) /\ Stage(r, m.wire, m.server)
         \/ r.conn = "connected" /\ Live(r, m)
         \/ r.conn = "disconnecting" /\ Ending(r)
         \/ r.conn = "disconnected" /\ Dead(r, m, x)
    BY <1>4, <1>6, <1>7, <1>8, <1>9, <1>10, <1>12 DEF Fits
  <1>16. QED
    BY <1>12, <1>13, <1>14, <1>15 DEF Fits

\* A silent callback has no part in what the server holds.
LEMMA SilentStep ==
  ASSUME Inv, NEW i \in Ids, NEW r, DOMAIN r = Fields, NEW u, NEW w,
         Received(i, r, u, w), r.events = <<>>, r.out = <<>>
  PROVE LET m == net'[i]
            s == rfb'[i]
        IN /\ NetLike(net[i], m) /\ m.wire = w /\ m.down = net[i].down
           /\ ui' = u /\ s = Rest(r)
           /\ DOMAIN s = Fields /\ s.events = <<>> /\ s.out = <<>>
           /\ s.conn = r.conn /\ s.init = r.init /\ s.version = r.version
           /\ s.scheme = r.scheme /\ s.tight = r.tight /\ s.clean = r.clean
           /\ s.viewOnly = r.viewOnly /\ s.hears = r.hears /\ s.sock = r.sock
           /\ s.timer = r.timer /\ s.retry = r.retry /\ s.screen = r.screen
           /\ s.grabbed = r.grabbed /\ s.rq = r.rq /\ s.short = r.short
           /\ s.pending = r.pending
  <1> DEFINE n == Note(net[i], r, w)
  <1>1. rfb'[i] = Rest(r) /\ net'[i] = Ask(n, r) /\ ui' = Tell(u, r)
    BY After
  <1>2. DOMAIN net[i] = NetFields
    BY SessionFacts
  <1>3. /\ DOMAIN n = NetFields /\ n.server = net[i].server /\ n.wire = w
        /\ n.down = net[i].down
        /\ n.refused <=> net[i].refused \/ Rejects(r)
        /\ n.noisy <=> net[i].noisy \/ Late(r)
    BY <1>2, NoteFacts
  <1>4. ~Rejects(r) /\ ~Late(r)
    BY DEF Rejects, Late
  <1> HIDE DEF n
  <1>5. Ask(n, r) = n /\ Tell(u, r) = u
    BY Silent
  <1>6. NetLike(net[i], net'[i]) /\ net'[i].wire = w /\ net'[i].down = net[i].down
    BY <1>1, <1>3, <1>4, <1>5 DEF NetLike
  <1>7. QED
    BY <1>1, <1>5, <1>6, RestFacts

\* The session that the page holds has taken a silent step.
LEMMA HeldSilentStep ==
  ASSUME Inv, plan' = plan, NEW i \in Ids, rfb[i].conn # "disconnected",
         NEW r, DOMAIN r = Fields, r.events = <<>>, r.out = <<>>, NEW u, NEW w,
         Received(i, r, u, w),
         ui' = u, rfb'[i].conn = r.conn, net'[i].down = net[i].down,
         Fits(rfb'[i], net'[i], Noise(net, i)),
         DOMAIN u = PageFields, u.cur = ui.cur, PowerFits(u), ~u.reconnect,
         u.status = ui.status, u.mods = ui.mods,
         \/ u.connected = ui.connected /\ u.visual = ui.visual
            /\ (r.conn = rfb[i].conn \/ (rfb[i].conn = "" /\ r.conn = "connecting"))
         \/ ~u.connected /\ u.visual = "disconnecting" /\ r.conn = "disconnecting",
         GoingOn(u, rfb'[i]),
         u.ask => \/ \E j \in Ids : net[j].noisy
                  \/ ~rfb'[i].retry /\ Waits(rfb'[i], net'[i].wire)
  PROVE Inv' /\ KeysKept
  <1>1. /\ i = ui.cur /\ ui.cur # NONE /\ ui.cur = Len(rfb)
        /\ ui.status.text # "failed"
        /\ ui.connected <=> rfb[i].conn = "connected"
        /\ \/ rfb[i].conn \in {"", "connecting"} /\ ui.visual = "connecting"
           \/ rfb[i].conn = "connected" /\ ui.visual = "connected"
           \/ rfb[i].conn = "disconnecting" /\ ui.visual = "disconnecting"
    BY HeldFacts
  <1>3. PageFits(u, Len(rfb), r.conn)
    BY <1>1 DEF PageFits
  <1>4. Inv'
    BY <1>1, <1>3, CurStep
  <1>5. KeysKept
    BY <1>1 DEF KeysKept
  <1>6. QED
    BY <1>4, <1>5

\* A silent callback that changes nothing that the invariant is about.
LEMMA QuietStep ==
  ASSUME Inv, plan' = plan, NEW i \in Ids, NEW r, DOMAIN r = Fields,
         NEW u, Callback(i, r, u), AsBefore(u),
         r.events = <<>>, r.out = <<>>,
         r.conn = rfb[i].conn, r.init = rfb[i].init, r.version = rfb[i].version,
         r.scheme = rfb[i].scheme, r.tight = rfb[i].tight, r.hears = rfb[i].hears,
         r.sock = rfb[i].sock, r.timer = rfb[i].timer, r.screen = rfb[i].screen,
         r.rq = rfb[i].rq, r.short = rfb[i].short,
         r.clean => rfb[i].clean, r.retry => rfb[i].retry,
         rfb[i].retry => r.retry \/ r.sock # "open",
         r.pending => rfb[i].pending,
         r.grabbed => rfb[i].grabbed \/ rfb[i].conn # "disconnected",
         rfb[i].conn = "disconnected" => u = ui
  PROVE Inv' /\ KeysKept
  <1> DEFINE s == rfb'[i]
             m == net'[i]
  <1>1. Received(i, r, u, net[i].wire)
    BY DEF Callback
  <1>2. /\ NetLike(net[i], m) /\ m.wire = net[i].wire /\ m.down = net[i].down
        /\ ui' = u /\ s = Rest(r)
        /\ DOMAIN s = Fields /\ s.events = <<>> /\ s.out = <<>>
        /\ s.conn = r.conn /\ s.init = r.init /\ s.version = r.version
        /\ s.scheme = r.scheme /\ s.tight = r.tight /\ s.clean = r.clean
        /\ s.hears = r.hears /\ s.sock = r.sock
        /\ s.timer = r.timer /\ s.retry = r.retry /\ s.screen = r.screen
        /\ s.grabbed = r.grabbed /\ s.rq = r.rq /\ s.short = r.short
        /\ s.pending = r.pending
    BY <1>1, SilentStep
  <1>3. Fits(rfb[i], net[i], Noise(net, i)) /\ DOMAIN rfb[i] = Fields
    BY SessionFacts
  <1> HIDE DEF s, m
  <1>4. Fits(s, m, Noise(net, i))
    BY <1>2, <1>3, QuietFits
  <1>5. CASE rfb[i].conn # "disconnected"
    <2>1. /\ i = ui.cur /\ PowerFits(ui) /\ ~ui.reconnect
          /\ GoingOn(ui, rfb[i])
          /\ ui.ask => \/ \E j \in Ids : net[j].noisy
                       \/ ~rfb[i].retry /\ Waits(rfb[i], net[i].wire)
      BY <1>5, HeldFacts
    <2>2. Waits(rfb[i], net[i].wire) => Waits(s, m.wire)
      BY <1>2 DEF Waits
    <2>3. u.ask => \/ \E j \in Ids : net[j].noisy
                   \/ ~s.retry /\ Waits(s, m.wire)
      BY <1>2, <2>1, <2>2 DEF AsBefore
    <2>4. GoingOn(u, s)
      <3>1. Whole(s) <=> Whole(rfb[i])
        BY <1>2 DEF Whole
      <3>2. QED
        BY <1>2, <2>1, <3>1 DEF GoingOn, AsBefore, LeftAlone
    <2>5. /\ DOMAIN u = PageFields /\ u.cur = ui.cur /\ PowerFits(u) /\ ~u.reconnect
          /\ u.status = ui.status /\ u.mods = ui.mods
          /\ u.connected = ui.connected /\ u.visual = ui.visual
      BY <2>1 DEF AsBefore, PowerFits
    <2>6. QED
      BY <1>1, <1>2, <1>4, <1>5, <2>3, <2>4, <2>5, HeldSilentStep DEF s, m
  <1>6. CASE rfb[i].conn = "disconnected"
    <2>1. Dead(rfb[i], net[i], Noise(net, i)) /\ (rfb[i].retry => Noise(net, i) \/ ~rfb[i].clean)
      BY <1>6, DeadFacts
    <2>2. Dead(r, net[i], Noise(net, i))
      BY <1>6, <2>1 DEF Dead
    <2>3. Lists(r)
      BY ListEmpty DEF Lists
    <2>4. Dying(r) /\ Closing(r)
      BY <1>6, <2>2, <2>3 DEF Dying, Closing, Dead
    <2>5. Still(r, r)
      BY <2>4, StillSets
    <2>6. Received(i, r, ui, net[i].wire)
      BY <1>1, <1>6
    <2>7. r.retry => Noise(net, i) \/ ~r.clean
      BY <2>1
    <2>8. QED
      BY <1>6, <2>2, <2>4, <2>5, <2>6, <2>7, DyingStep
  <1>7. QED
    BY <1>5, <1>6

\* A callback that ends the session that the page holds.
LEMMA EndStep ==
  ASSUME Inv, plan' = plan, NEW i \in Ids, rfb[i].conn # "disconnected",
         NEW r, NEW w, NEW u, Received(i, r, u, w), u.mods = ui.mods,
         DOMAIN r = Fields, Lists(r), r.conn = "disconnected", ~r.timer,
         r.sock \notin {"opening", "open"}, "message" \notin r.hears,
         r.screen => r.sock = "none" /\ ~r.clean,
         r.grabbed => "open" \notin r.hears,
         r.clean => r.init = "ServerInitialisation",
         r.retry => Noise(net, i) \/ ~r.clean,
         r.events # <<>>, Last(r.events)[1] = "disconnect", ~Rejects(r),
         \A n : Ask(n, r) = n,
         Closed(ui, Tell(u, r))
  PROVE Inv' /\ KeysKept
  <1> DEFINE n == Note(net[i], r, w)
             s == rfb'[i]
             m == net'[i]
  <1>1. /\ i = ui.cur /\ ~net[i].noisy /\ ~net[i].refused /\ ~ui.reconnect
    BY HeldFacts
  <1>2. rfb'[i] = Rest(r) /\ net'[i] = Ask(n, r) /\ ui' = Tell(u, r)
    BY After
  <1>3. DOMAIN net[i] = NetFields /\ IsServer(net[i].server)
    BY SessionFacts
  <1>4. ~Late(r)
    BY DEF Late
  <1>5. /\ DOMAIN n = NetFields /\ n.server = net[i].server
        /\ ~n.refused /\ ~n.noisy
    BY <1>1, <1>3, <1>4, NoteFacts
  <1> HIDE DEF n
  <1>6. m = n
    BY <1>2
  <1>7. /\ DOMAIN s = Fields /\ s.events = <<>> /\ s.out = <<>>
        /\ s.conn = "disconnected" /\ s.retry = r.retry /\ s.sock = r.sock
        /\ s.hears = r.hears /\ s.timer = r.timer /\ s.clean = r.clean
        /\ s.screen = r.screen /\ s.grabbed = r.grabbed /\ s.init = r.init
    BY <1>2, RestFacts
  <1> HIDE DEF s, m
  <1>8. Dead(s, m, Noise(net, i))
    BY <1>5, <1>6, <1>7 DEF Dead
  <1>9. Fits(s, m, Noise(net, i))
    BY <1>3, <1>5, <1>6, <1>7, <1>8 DEF Fits
  <1>10. Closed(ui, ui')
    BY <1>2
  <1>11. \A c : PageFits(ui', Len(rfb), c)
    BY <1>1, <1>10 DEF Closed, PageFits, PowerFits
  <1>12. ~ui'.ask /\ ui'.cur = NONE /\ ~m.refused
    BY <1>5, <1>6, <1>10 DEF Closed
  <1>13. Inv'
    BY <1>1, <1>7, <1>9, <1>11, <1>12, OverStep DEF s, m
  <1>14. KeysKept
    BY <1>10 DEF KeysKept, Closed
  <1>15. QED
    BY <1>13, <1>14

-----------------------------------------------------------------------------
(* The callbacks.                                                          *)

LEMMA SamePageAsBefore == ASSUME DOMAIN ui = PageFields PROVE AsBefore(ui)
  BY DEF AsBefore

\* A session that was never there for the network fails at once.
LEMMA RefusedSocket ==
  ASSUME NEW s, DOMAIN s = Fields, s.events = <<>>, s.out = <<>>,
         s.conn = "", s.sock = "none", ~s.timer
  PROVE LET r == Connect(s, FALSE)
        IN /\ DOMAIN r = Fields /\ Lists(r) /\ r.conn = "disconnected" /\ ~r.timer
           /\ r.sock = "none" /\ "message" \notin r.hears /\ ~r.grabbed /\ ~r.clean
           /\ r.events # <<>> /\ Last(r.events)[1] = "disconnect" /\ ~Rejects(r)
           /\ \A n : Ask(n, r) = n
           /\ \A u : Tell(u, r) = DisconnectFinished(u, FALSE)
  <1> DEFINE t == [s EXCEPT !.start = FALSE]
             e == Enter(t, "connecting")
             f == [e EXCEPT !.clean = FALSE]
             d == Move(f, "disconnecting")
             c == Move(d, "disconnected")
             r == [c EXCEPT !.screen = TRUE]
  <1>1. Connect(s, FALSE) = r
    BY DEF Connect, Fail, Fields
  <1>2. /\ DOMAIN f = Fields /\ f.conn = "connecting" /\ f.sock = "none"
        /\ f.events = <<>> /\ f.out = <<>> /\ f.clean = FALSE /\ ~f.timer
    BY DEF Enter, Fields
  <1> HIDE DEF f
  <1>3. /\ DOMAIN d = Fields /\ d.conn = "disconnecting" /\ d.timer
        /\ ~d.screen /\ ~d.grabbed
        /\ d.hears = f.hears \ {"message"} /\ d.clean = f.clean
        /\ d.events = f.events /\ d.out = f.out
    BY <1>2, MoveDown
  <1>4. d.sock = "none"
    <2>1. <<f.conn, "disconnecting">> \in Transitions
      BY <1>2 DEF Transitions
    <2> DEFINE x == Enter(f, "disconnecting")
    <2>2. d = [Teardown(x) EXCEPT !.timer = TRUE]
      BY <2>1 DEF Move
    <2>3. x.sock = "none" /\ DOMAIN x = Fields
      BY <1>2 DEF Enter, Fields
    <2> HIDE DEF x
    <2>4. QED
      BY <2>2, <2>3 DEF Teardown, Fields
  <1> HIDE DEF d
  <1>5a. d.events = <<>> /\ d.out = <<>>
    BY <1>2, <1>3
  <1>5. Lists(d) /\ ~Rejects(d)
    BY <1>5a, Silent
  <1>6. /\ DOMAIN c = Fields /\ Lists(c)
        /\ c.conn = "disconnected" /\ ~c.timer
        /\ c.grabbed = d.grabbed /\ c.sock = d.sock
        /\ c.hears = d.hears \ {"close"}
        /\ c.clean = d.clean
        /\ c.events # <<>> /\ Last(c.events)[1] = "disconnect"
        /\ Rejects(c) <=> Rejects(d)
        /\ \A n : Ask(n, c) = Ask(n, d)
        /\ \A u : Tell(u, c) = DisconnectFinished(Tell(u, d), d.clean)
    BY <1>3, <1>5, MoveOut
  <1> HIDE DEF c
  <1>7. /\ DOMAIN r = Fields /\ r.conn = c.conn /\ r.timer = c.timer
        /\ r.sock = c.sock /\ r.hears = c.hears /\ r.grabbed = c.grabbed
        /\ r.clean = c.clean /\ r.events = c.events /\ r.out = c.out
    BY <1>6 DEF Fields
  <1> HIDE DEF r
  <1>8. /\ \A u : Tell(u, r) = Tell(u, c)
        /\ \A n : Ask(n, r) = Ask(n, c)
        /\ Rejects(r) <=> Rejects(c)
        /\ Lists(r) <=> Lists(c)
    BY <1>7, SameQueues
  <1>9. \A u, n : Tell(u, d) = u /\ Ask(n, d) = n
    BY <1>5a, Silent
  <1>10. d.clean = FALSE
    BY <1>2, <1>3
  <1>11. \A u : Tell(u, r) = DisconnectFinished(u, FALSE)
    BY <1>6, <1>8, <1>9, <1>10
  <1>12. \A n : Ask(n, r) = n
    BY <1>6, <1>8, <1>9
  <1>13. /\ DOMAIN r = Fields /\ Lists(r) /\ r.conn = "disconnected" /\ ~r.timer
         /\ r.sock = "none" /\ "message" \notin r.hears /\ ~r.grabbed /\ ~r.clean
         /\ r.events # <<>> /\ Last(r.events)[1] = "disconnect" /\ ~Rejects(r)
    BY <1>3, <1>4, <1>5, <1>6, <1>7, <1>8, <1>10
  <1>14. QED
    BY <1>1, <1>11, <1>12, <1>13

\* The timers and the socket.
LEMMA StartStep ==
  ASSUME Inv, plan' = plan, NEW i \in Ids, NEW opens \in BOOLEAN,
         Callback(i, Connect(rfb[i], opens), ui)
  PROVE Inv' /\ KeysKept
  <1> DEFINE s == rfb[i]
             r == Connect(rfb[i], opens)
  <1>1. /\ Fits(s, net[i], Noise(net, i)) /\ DOMAIN s = Fields /\ DOMAIN ui = PageFields
        /\ s.events = <<>> /\ s.out = <<>>
    BY SessionFacts
  <1>2. CASE s.conn # ""
    <2> DEFINE t == [s EXCEPT !.start = FALSE]
    <2>1. r = t
      BY <1>2 DEF Connect
    <2>2. /\ DOMAIN t = Fields /\ t.events = <<>> /\ t.out = <<>>
          /\ t.conn = s.conn /\ t.init = s.init /\ t.version = s.version
          /\ t.scheme = s.scheme /\ t.tight = s.tight /\ t.hears = s.hears
          /\ t.sock = s.sock /\ t.timer = s.timer /\ t.screen = s.screen
          /\ t.rq = s.rq /\ t.short = s.short /\ t.clean = s.clean
          /\ t.retry = s.retry /\ t.pending = s.pending /\ t.grabbed = s.grabbed
      BY <1>1 DEF Fields
    <2>3. Callback(i, t, ui) /\ AsBefore(ui)
      BY <1>1, <2>1, SamePageAsBefore
    <2> HIDE DEF t, r
    <2>4. QED
      BY <2>2, <2>3, QuietStep
  <1>3. CASE s.conn = ""
    <2>1. s.sock = "none" /\ Unopened(s, net[i])
      BY <1>1, <1>3 DEF Fits, Setting
    <2>2. /\ i = ui.cur /\ ~ui.reconnect /\ PowerFits(ui)
          /\ s.retry => Noise(net, i) \/ Waits(s, net[i].wire)
          /\ ui.ask => \/ \E j \in Ids : net[j].noisy
                       \/ ~s.retry /\ Waits(s, net[i].wire)
      BY <1>3, HeldFacts
    <2>3. ~Waits(s, net[i].wire)
      BY <1>3 DEF Waits
    <2>4. CASE opens
      <3>1. /\ DOMAIN r = Fields /\ r.events = <<>> /\ r.out = <<>>
            /\ r.conn = "connecting" /\ r.sock = "opening" /\ r.init = s.init
            /\ r.rq = s.rq /\ r.short = s.short /\ r.hears = s.hears
            /\ ~r.timer /\ r.pending = s.pending /\ r.tight = s.tight
            /\ r.retry = s.retry
        BY <1>1, <1>3, <2>1, <2>4 DEF Connect, Enter, Unopened, Fields
      <3>2. Received(i, r, ui, net[i].wire)
        BY DEF Callback
      <3> DEFINE a == rfb'[i]
                 m == net'[i]
      <3> HIDE DEF r
      <3>3. /\ NetLike(net[i], m) /\ m.wire = net[i].wire /\ m.down = net[i].down
            /\ ui' = ui
            /\ DOMAIN a = Fields /\ a.events = <<>> /\ a.out = <<>>
            /\ a.conn = r.conn /\ a.init = r.init /\ a.tight = r.tight
            /\ a.hears = r.hears /\ a.sock = r.sock
            /\ a.timer = r.timer /\ a.retry = r.retry
            /\ a.rq = r.rq /\ a.short = r.short
            /\ a.pending = r.pending
        BY <3>1, <3>2, SilentStep
      <3> HIDE DEF a, m
      <3>4. Unopened(a, m)
        BY <2>1, <3>1, <3>3 DEF Unopened, Greeting, NetLike
      <3>5. IsServer(net[i].server) /\ ~net[i].noisy /\ ~net[i].refused
        BY <1>3, SessionFacts, HeldFacts
      <3>6. Fits(a, m, Noise(net, i))
        BY <2>2, <2>3, <3>1, <3>3, <3>4, <3>5 DEF Fits, NetLike
      <3>7. GoingOn(ui, a)
        BY <3>1, <3>3 DEF GoingOn
      <3>8. ui.ask => \/ \E j \in Ids : net[j].noisy
                      \/ ~a.retry /\ Waits(a, m.wire)
        BY <2>2, <2>3
      <3>9. rfb[i].conn # "disconnected" /\ ui' = ui /\ a.conn = r.conn /\ m.down = net[i].down
        BY <1>3, <3>3
      <3>10. QED
        BY <1>1, <1>3, <2>2, <3>1, <3>2, <3>6, <3>7, <3>8, <3>9, HeldSilentStep DEF a, m
    <2>5. CASE ~opens
      <3>1. ~s.timer /\ opens = FALSE
        BY <2>1, <2>5 DEF Unopened
      <3>2. /\ DOMAIN r = Fields /\ Lists(r) /\ r.conn = "disconnected" /\ ~r.timer
            /\ r.sock = "none" /\ "message" \notin r.hears /\ ~r.grabbed /\ ~r.clean
            /\ r.events # <<>> /\ Last(r.events)[1] = "disconnect" /\ ~Rejects(r)
            /\ \A n : Ask(n, r) = n
            /\ \A u : Tell(u, r) = DisconnectFinished(u, FALSE)
        BY <1>1, <1>3, <2>1, <3>1, RefusedSocket
      <3>3. Received(i, r, ui, net[i].wire)
        BY DEF Callback
      <3> HIDE DEF r
      <3>4. Tell(ui, r) = DisconnectFinished(ui, FALSE)
        BY <3>2
      <3>4a. Closed(ui, Tell(ui, r))
        BY <1>1, <3>4, DisconnectPage
      <3>5. s.conn # "disconnected"
        BY <1>3
      <3>6. QED
        BY <3>2, <3>3, <3>4a, <3>5, EndStep
    <2>6. QED
      BY <2>4, <2>5
  <1>4. QED
    BY <1>2, <1>3

LEMMA DisconnStep ==
  ASSUME Inv, plan' = plan, NEW i \in Ids, rfb[i].timer,
         Callback(i, DisconnectTimeout(rfb[i]), ui)
  PROVE Inv' /\ KeysKept
  <1> DEFINE s == rfb[i]
             t == [s EXCEPT !.timer = FALSE, !.hears = @ \ {"close"}]
             r == Move(t, "disconnected")
  <1>1. /\ Fits(s, net[i], Noise(net, i)) /\ DOMAIN s = Fields /\ DOMAIN ui = PageFields
        /\ s.events = <<>> /\ s.out = <<>>
    BY SessionFacts
  <1>2. s.conn = "disconnecting" /\ Ending(s)
    BY <1>1 DEF Fits, Unopened, Setting, Live, Dead
  <1>3. s.retry => Noise(net, i) \/ Waits(s, net[i].wire)
    BY <1>2, HeldFacts
  <1>4. ~Waits(s, net[i].wire)
    BY <1>2 DEF Waits
  <1>5. /\ DOMAIN t = Fields /\ t.events = <<>> /\ t.out = <<>> /\ ~t.timer
        /\ t.conn = s.conn /\ t.init = s.init /\ t.hears = s.hears \ {"close"}
        /\ t.sock = s.sock /\ t.screen = s.screen
        /\ t.clean = s.clean /\ t.retry = s.retry
    BY <1>1 DEF Fields
  <1>6. Received(i, r, ui, net[i].wire)
    <2>1. Enter(s, "disconnected") = Enter(t, "disconnected")
      BY <1>1, <1>5 DEF Enter, Fields
    <2>2. <<s.conn, "disconnected">> \in Transitions
      BY <1>2 DEF Transitions
    <2>3. Move(s, "disconnected") = Move(t, "disconnected")
      <3>1. Move(s, "disconnected") = Emit(Enter(s, "disconnected"),
                                          <<"disconnect", Enter(s, "disconnected").clean>>)
        BY <2>2 DEF Move
      <3>2. Move(t, "disconnected") = Emit(Enter(t, "disconnected"),
                                          <<"disconnect", Enter(t, "disconnected").clean>>)
        BY <1>5, <2>2 DEF Move
      <3>3. QED
        BY <2>1, <3>1, <3>2
    <2>4. QED
      BY <2>3 DEF Callback, DisconnectTimeout
  <1> HIDE DEF t
  <1>7. Lists(t) /\ ~Rejects(t)
    BY <1>5, ListEmpty DEF Lists, Rejects
  <1>8. /\ DOMAIN r = Fields /\ Lists(r)
        /\ r.conn = "disconnected" /\ ~r.timer
        /\ r.screen = t.screen /\ r.sock = t.sock
        /\ r.hears = t.hears
        /\ r.init = t.init /\ r.retry = t.retry /\ r.clean = t.clean
        /\ r.events # <<>> /\ Last(r.events)[1] = "disconnect"
        /\ Rejects(r) <=> Rejects(t)
        /\ \A n : Ask(n, r) = Ask(n, t)
        /\ \A u : Tell(u, r) = DisconnectFinished(Tell(u, t), t.clean)
    BY <1>2, <1>5, <1>7, MoveOut
  <1>9. \A u, n : Tell(u, t) = u /\ Ask(n, t) = n
    BY <1>5, Silent
  <1> HIDE DEF r
  <1>10. Closed(ui, Tell(ui, r))
    BY <1>1, <1>8, <1>9, DisconnectPage
  <1>11. /\ r.sock \notin {"opening", "open"} /\ "message" \notin r.hears
         /\ ~r.screen /\ "open" \notin r.hears /\ r.init = "ServerInitialisation"
    BY <1>2, <1>5, <1>8 DEF Ending
  <1>12. s.conn # "disconnected" /\ (r.retry => Noise(net, i))
    BY <1>2, <1>3, <1>4, <1>5, <1>8
  <1>13. ~Rejects(r) /\ \A n : Ask(n, r) = n
    BY <1>7, <1>8, <1>9
  <1>14. QED
    BY <1>6, <1>8, <1>10, <1>11, <1>12, <1>13, EndStep

LEMMA OpenStep ==
  ASSUME Inv, plan' = plan, NEW i \in Ids, rfb[i].sock = "opening",
         Callback(i, OnOpen(rfb[i]), ui)
  PROVE Inv' /\ KeysKept
  <1> DEFINE s == rfb[i]
             r == [s EXCEPT !.sock = "open", !.init = "ProtocolVersion"]
             a == rfb'[i]
             m == net'[i]
  <1>1. /\ Fits(s, net[i], Noise(net, i)) /\ DOMAIN s = Fields /\ DOMAIN ui = PageFields
        /\ s.events = <<>> /\ s.out = <<>>
    BY SessionFacts
  <1>2. s.conn = "connecting" /\ Unopened(s, net[i])
    BY <1>1 DEF Fits, Setting, Live, Ending, Dead
  <1>3. OnOpen(s) = r
    BY <1>1, <1>2 DEF OnOpen, Unopened, Hearing, Fields
  <1>4. /\ DOMAIN r = Fields /\ r.events = <<>> /\ r.out = <<>>
        /\ r.conn = "connecting" /\ r.sock = "open" /\ r.init = "ProtocolVersion"
        /\ r.rq = s.rq /\ r.short = s.short /\ r.hears = s.hears
        /\ r.timer = s.timer /\ r.pending = s.pending /\ r.tight = s.tight
        /\ r.retry = s.retry
    BY <1>1, <1>2 DEF Fields
  <1>5. Received(i, r, ui, net[i].wire)
    BY <1>3 DEF Callback
  <1> HIDE DEF r
  <1>6. /\ NetLike(net[i], m) /\ m.wire = net[i].wire /\ m.down = net[i].down
        /\ ui' = ui
        /\ DOMAIN a = Fields /\ a.events = <<>> /\ a.out = <<>>
        /\ a.conn = r.conn /\ a.init = r.init /\ a.tight = r.tight
        /\ a.hears = r.hears /\ a.sock = r.sock
        /\ a.timer = r.timer /\ a.retry = r.retry
        /\ a.rq = r.rq /\ a.short = r.short
        /\ a.pending = r.pending
    BY <1>4, <1>5, SilentStep
  <1>7. /\ i = ui.cur /\ PowerFits(ui) /\ ~ui.reconnect
        /\ s.retry => Noise(net, i) \/ Waits(s, net[i].wire)
        /\ ui.ask => \/ \E j \in Ids : net[j].noisy
                     \/ ~s.retry /\ Waits(s, net[i].wire)
        /\ ~net[i].noisy /\ ~net[i].refused
    BY <1>2, HeldFacts
  <1>8. ~Waits(s, net[i].wire)
    BY <1>2 DEF Waits, Unopened
  <1>9. IsServer(net[i].server)
    BY SessionFacts
  <1> HIDE DEF a, m
  <1>10. Lists(a)
    BY <1>6, ListEmpty DEF Lists
  <1>11. Setting(a)
    BY <1>2, <1>4, <1>6, <1>10 DEF Setting, Unopened
  <1>12. Stage(a, m.wire, m.server)
    <2> DEFINE g == net[i].server.greets
               Q == <<Msg("version", g)>>
    <2>1. g \in {Repeater, Unknown, m.server.version}
      BY <1>6, <1>9 DEF IsServer, NetLike
    <2>2. a.rq = <<>> /\ m.wire = Q /\ ~a.short
      BY <1>2, <1>4, <1>6 DEF Unopened, Greeting
    <2>3. IsList(Q) /\ <<>> \o Q = Q /\ IsList(<<>>)
      BY ListSmall, ListEmpty
    <2>4. Input(a, m.wire, Q)
      BY <2>2, <2>3 DEF Input, Fed
    <2>5. a.init = "ProtocolVersion" /\ ~a.tight
      BY <1>2, <1>4, <1>6 DEF Unopened
    <2>6. QED
      BY <2>1, <2>4, <2>5 DEF Stage
  <1>13. Fits(a, m, Noise(net, i))
    BY <1>4, <1>6, <1>7, <1>8, <1>9, <1>11, <1>12 DEF Fits, NetLike
  <1>14. GoingOn(ui, a)
    <2>1. a.rq = <<>> /\ Len(<<>>) = 0
      BY <1>2, <1>4, <1>6 DEF Unopened
    <2>2. ~Whole(a)
      BY <2>1 DEF Whole
    <2>3. QED
      BY <2>2 DEF GoingOn
  <1>15. ui.ask => \/ \E j \in Ids : net[j].noisy
                   \/ ~a.retry /\ Waits(a, m.wire)
    BY <1>7, <1>8
  <1>16. rfb[i].conn # "disconnected" /\ r.conn = rfb[i].conn /\ a.conn = r.conn
    BY <1>2, <1>4, <1>6
  <1>17. QED
    BY <1>1, <1>4, <1>5, <1>6, <1>7, <1>13, <1>14, <1>15, <1>16, HeldSilentStep DEF a, m

\* A connection that the page has ended is still there, whatever the session does.
LEMMA EndingStep ==
  ASSUME Inv, plan' = plan, NEW i \in Ids, rfb[i].conn = "disconnecting",
         NEW r, Callback(i, r, ui), DOMAIN r = Fields, Lists(r),
         r.conn = "disconnecting", Ending(r), ~Rejects(r),
         r.retry => rfb[i].retry,
         \A n : Ask(n, r) = n, Tell(ui, r) = ui
  PROVE Inv' /\ KeysKept
  <1> DEFINE n == Note(net[i], r, net[i].wire)
             s == rfb'[i]
             m == net'[i]
  <1>1. /\ i = ui.cur /\ ui.cur # NONE /\ ui.cur = Len(rfb)
        /\ ~ui.reconnect /\ ui.status.text # "failed" /\ PowerFits(ui)
        /\ ui.connected <=> rfb[i].conn = "connected"
        /\ ~net[i].noisy /\ ~net[i].refused
        /\ rfb[i].retry => Noise(net, i) \/ Waits(rfb[i], net[i].wire)
        /\ ui.ask => \/ \E j \in Ids : net[j].noisy
                     \/ ~rfb[i].retry /\ Waits(rfb[i], net[i].wire)
    BY HeldFacts
  <1>2. ~Waits(rfb[i], net[i].wire)
    BY DEF Waits
  <1>3. Received(i, r, ui, net[i].wire)
    BY DEF Callback
  <1>4. s = Rest(r) /\ m = Ask(n, r) /\ ui' = Tell(ui, r)
    BY <1>3, After
  <1>5. DOMAIN net[i] = NetFields /\ IsServer(net[i].server)
    BY SessionFacts
  <1>6. ~Late(r)
    BY DEF Late
  <1>7. /\ DOMAIN n = NetFields /\ n.server = net[i].server
        /\ ~n.refused /\ ~n.noisy /\ n.down = net[i].down
    BY <1>1, <1>5, <1>6, NoteFacts
  <1> HIDE DEF n
  <1>8. m = n /\ ui' = ui
    BY <1>4
  <1>9. /\ DOMAIN s = Fields /\ s.events = <<>> /\ s.out = <<>>
        /\ s.conn = "disconnecting" /\ s.retry = r.retry /\ s.sock = r.sock
        /\ s.hears = r.hears /\ s.timer = r.timer /\ s.clean = r.clean
        /\ s.screen = r.screen /\ s.init = r.init
    BY <1>4, RestFacts
  <1> HIDE DEF s, m
  <1>10. Ending(s)
    BY <1>9 DEF Ending
  <1>11. s.retry => Noise(net, i)
    BY <1>1, <1>2, <1>9
  <1>12. Fits(s, m, Noise(net, i))
    BY <1>5, <1>7, <1>8, <1>9, <1>10, <1>11 DEF Fits
  <1>13. PageFits(ui, Len(rfb), s.conn)
    <2>1. PageFits(ui, Len(rfb), rfb[ui.cur].conn)
      BY SessionFacts
    <2>2. rfb[ui.cur].conn = s.conn
      BY <1>1, <1>9
    <2>3. QED
      BY <2>1, <2>2
  <1>14. GoingOn(ui, s)
    BY <1>9 DEF GoingOn
  <1>15. ui.ask => \E j \in Ids : net[j].noisy
    BY <1>1, <1>2
  <1>16. rfb[i].conn # "disconnected"
    OBVIOUS
  <1>17. Inv'
    BY <1>1, <1>3, <1>8, <1>12, <1>13, <1>14, <1>15, <1>16, CurStep DEF s, m
  <1>18. KeysKept
    BY <1>1, <1>8 DEF KeysKept
  <1>19. QED
    BY <1>17, <1>18

LEMMA CloseStep ==
  ASSUME Inv, plan' = plan, NEW i \in Ids,
         rfb[i].sock \in {"opening", "open", "closing"},
         Callback(i, OnClose(rfb[i]), ui)
  PROVE Inv' /\ KeysKept
  <1> DEFINE s == rfb[i]
             t == [s EXCEPT !.sock = "closed"]
             f == Fail(t)
             g == Move(Move(t, "disconnecting"), "disconnected")
             h == Move(t, "disconnected")
             Off(u) == [u EXCEPT !.hears = @ \ {"close"}]
             r == OnClose(s)
  <1>1. /\ Fits(s, net[i], Noise(net, i)) /\ DOMAIN s = Fields /\ DOMAIN ui = PageFields
        /\ s.events = <<>> /\ s.out = <<>>
    BY SessionFacts
  <1>2. /\ DOMAIN t = Fields /\ t.events = <<>> /\ t.out = <<>> /\ t.sock = "closed"
        /\ t.conn = s.conn /\ t.init = s.init /\ t.hears = s.hears
        /\ t.timer = s.timer /\ t.screen = s.screen /\ t.grabbed = s.grabbed
        /\ t.clean = s.clean /\ t.retry = s.retry
    BY <1>1 DEF Fields
  <1>3. Received(i, r, ui, net[i].wire)
    BY DEF Callback
  <1>4. /\ "close" \notin s.hears => r = t
        /\ "close" \in s.hears =>
             /\ s.conn = "connected" => r = Off(g)
             /\ s.conn = "disconnecting" => r = Off(h)
             /\ s.conn \notin {"connected", "disconnecting"} => r = Off(f)
    BY DEF OnClose
  <1> HIDE DEF t
  <1>5. Lists(t) /\ ~Rejects(t) /\ \A u, n : Tell(u, t) = u /\ Ask(n, t) = n
    BY <1>2, Silent
  <1> HIDE DEF r, f, g, h
  <1>6. ASSUME NEW x, DOMAIN x = Fields
        PROVE LET y == Off(x)
              IN /\ DOMAIN y = Fields /\ y.conn = x.conn /\ y.timer = x.timer
                 /\ y.sock = x.sock /\ y.hears = x.hears \ {"close"} /\ y.retry = x.retry
                 /\ y.screen = x.screen /\ y.grabbed = x.grabbed /\ y.clean = x.clean
                 /\ y.init = x.init /\ y.events = x.events /\ y.out = x.out
    BY <1>6 DEF Fields
  <1> HIDE DEF Off
  <1>7. ASSUME NEW c, NEW x, Ended(t, x, c), r = Off(x), s.conn # "disconnected",
               c => s.init = "ServerInitialisation",
               s.retry => Noise(net, i)
        PROVE Inv' /\ KeysKept
    <2>1. /\ DOMAIN x = Fields /\ Lists(x) /\ x.conn = "disconnected" /\ ~x.timer
          /\ x.sock \notin {"opening", "open"} /\ "message" \notin x.hears
          /\ x.retry = s.retry /\ x.init = s.init
          /\ ~x.screen /\ ~x.grabbed /\ x.clean = c
          /\ x.events # <<>> /\ Last(x.events)[1] = "disconnect"
          /\ ~Rejects(x)
          /\ \A n : Ask(n, x) = n
          /\ \A u : Tell(u, x) = DisconnectFinished(u, c)
      BY <1>2, <1>5, <1>7 DEF Ended, Gone
    <2>2. /\ DOMAIN r = Fields /\ r.conn = x.conn /\ r.timer = x.timer
          /\ r.sock = x.sock /\ r.hears = x.hears \ {"close"} /\ r.retry = x.retry
          /\ r.screen = x.screen /\ r.grabbed = x.grabbed /\ r.clean = x.clean
          /\ r.init = x.init /\ r.events = x.events /\ r.out = x.out
      BY <1>6, <1>7, <2>1
    <2>3. /\ \A u : Tell(u, r) = Tell(u, x)
          /\ \A n : Ask(n, r) = Ask(n, x)
          /\ Rejects(r) <=> Rejects(x)
          /\ Lists(r) <=> Lists(x)
      BY <2>2, SameQueues
    <2>4. Tell(ui, r) = DisconnectFinished(ui, c)
      BY <2>1, <2>3
    <2>5. Closed(ui, Tell(ui, r))
      BY <1>1, <2>4, DisconnectPage
    <2>6. /\ DOMAIN r = Fields /\ Lists(r) /\ r.conn = "disconnected" /\ ~r.timer
          /\ r.sock \notin {"opening", "open"} /\ "message" \notin r.hears
          /\ ~r.screen /\ ~r.grabbed
          /\ r.clean => r.init = "ServerInitialisation"
          /\ r.retry => Noise(net, i)
          /\ r.events # <<>> /\ Last(r.events)[1] = "disconnect" /\ ~Rejects(r)
      BY <1>7, <2>1, <2>2, <2>3
    <2>7. \A n : Ask(n, r) = n
      BY <2>1, <2>3
    <2>8. QED
      BY <1>3, <1>7, <2>5, <2>6, <2>7, EndStep
  <1>8. CASE s.conn = ""
    BY <1>1, <1>8 DEF Fits, Setting
  <1>9. CASE s.conn = "connecting"
    <2>1. s.hears = Hearing
      BY <1>1, <1>9 DEF Fits, Setting, Unopened
    <2>2. r = Off(f)
      BY <1>4, <1>9, <2>1 DEF Hearing
    <2>3. Ended(t, f, FALSE)
      BY <1>2, <1>5, <1>9, FailEnds DEF f
    <2>4. s.retry => Noise(net, i) \/ Waits(s, net[i].wire)
      BY <1>9, HeldFacts
    <2>5. CASE s.retry => Noise(net, i)
      BY <1>7, <1>9, <2>2, <2>3, <2>5
    <2>6. CASE Waits(s, net[i].wire)
      <3>1. /\ DOMAIN f = Fields /\ Lists(f) /\ f.conn = "disconnected" /\ ~f.timer
            /\ f.sock \notin {"opening", "open"} /\ "message" \notin f.hears
            /\ ~f.screen /\ ~f.grabbed /\ ~f.clean
            /\ f.events # <<>> /\ Last(f.events)[1] = "disconnect"
            /\ ~Rejects(f)
            /\ \A n : Ask(n, f) = n
            /\ \A u : Tell(u, f) = DisconnectFinished(u, FALSE)
        BY <1>5, <2>3 DEF Ended, Gone
      <3>2. /\ DOMAIN r = Fields /\ r.conn = f.conn /\ r.timer = f.timer
            /\ r.sock = f.sock /\ r.hears = f.hears \ {"close"}
            /\ r.screen = f.screen /\ r.grabbed = f.grabbed /\ r.clean = f.clean
            /\ r.events = f.events /\ r.out = f.out
        BY <1>6, <2>2, <3>1
      <3>3. /\ \A u : Tell(u, r) = Tell(u, f)
            /\ \A n : Ask(n, r) = Ask(n, f)
            /\ Rejects(r) <=> Rejects(f)
            /\ Lists(r) <=> Lists(f)
        BY <3>2, SameQueues
      <3>4. Tell(ui, r) = DisconnectFinished(ui, FALSE)
        BY <3>1, <3>3
      <3>5. Closed(ui, Tell(ui, r))
        BY <1>1, <3>4, DisconnectPage
      <3>6. /\ DOMAIN r = Fields /\ Lists(r) /\ r.conn = "disconnected" /\ ~r.timer
            /\ r.sock \notin {"opening", "open"} /\ "message" \notin r.hears
            /\ ~r.screen /\ ~r.grabbed /\ ~r.clean
            /\ r.events # <<>> /\ Last(r.events)[1] = "disconnect" /\ ~Rejects(r)
        BY <3>1, <3>2, <3>3
      <3>7. \A n : Ask(n, r) = n
        BY <3>1, <3>3
      <3>8. rfb[i].conn # "disconnected"
        BY <1>9
      <3>9. QED
        BY <1>3, <3>5, <3>6, <3>7, <3>8, EndStep
    <2>7. QED
      BY <2>4, <2>5, <2>6
  <1>10. CASE s.conn = "connected"
    <2>1. Live(s, net[i]) /\ (s.retry => Noise(net, i))
      BY <1>10, ConnectedPage
    <2>2. r = Off(g)
      BY <1>4, <1>10, <2>1 DEF Live, Hearing
    <2>3. Ended(t, g, t.clean)
      BY <1>2, <1>5, <1>10, MoveEnds DEF g
    <2>4. t.clean => s.init = "ServerInitialisation"
      BY <2>1 DEF Live
    <2>5. QED
      BY <1>7, <1>10, <2>1, <2>2, <2>3, <2>4
  <1>11. CASE s.conn = "disconnecting"
    <2>1. Ending(s)
      BY <1>1, <1>11 DEF Fits, Setting
    <2>2. s.retry => Noise(net, i) \/ Waits(s, net[i].wire)
      BY <1>11, HeldFacts
    <2>3. ~Waits(s, net[i].wire)
      BY <1>11 DEF Waits
    <2>4. CASE "close" \notin s.hears
      <3>1. r = t
        BY <1>4, <2>4
      <3>2. Ending(t)
        BY <1>2, <2>1 DEF Ending
      <3>3. Callback(i, t, ui)
        BY <3>1 DEF r
      <3>4. Tell(ui, t) = ui /\ \A n : Ask(n, t) = n
        BY <1>5
      <3>5. t.conn = "disconnecting" /\ rfb[i].conn = "disconnecting" /\ t.retry = s.retry
        BY <1>2, <1>11
      <3>6. QED
        BY <1>2, <1>5, <3>2, <3>3, <3>4, <3>5, EndingStep
    <2>5. CASE "close" \in s.hears
      <3>1. r = Off(h)
        BY <1>4, <1>11, <2>5
      <3>2. /\ DOMAIN h = Fields /\ Lists(h)
            /\ h.conn = "disconnected" /\ ~h.timer
            /\ h.screen = t.screen /\ h.sock = t.sock
            /\ h.hears = IF t.timer THEN t.hears \ {"close"} ELSE t.hears
            /\ h.init = t.init /\ h.retry = t.retry /\ h.clean = t.clean
            /\ h.events # <<>> /\ Last(h.events)[1] = "disconnect"
            /\ Rejects(h) <=> Rejects(t)
            /\ \A n : Ask(n, h) = Ask(n, t)
            /\ \A u : Tell(u, h) = DisconnectFinished(Tell(u, t), t.clean)
        BY <1>2, <1>5, <1>11, MoveOut DEF h
      <3>2a. h.hears \subseteq t.hears
        BY <3>2
      <3>3. /\ DOMAIN r = Fields /\ r.conn = h.conn /\ r.timer = h.timer
            /\ r.sock = h.sock /\ r.hears = h.hears \ {"close"} /\ r.retry = h.retry
            /\ r.screen = h.screen /\ r.clean = h.clean
            /\ r.init = h.init /\ r.events = h.events /\ r.out = h.out
        BY <1>6, <3>1, <3>2
      <3>4. /\ \A u : Tell(u, r) = Tell(u, h)
            /\ \A n : Ask(n, r) = Ask(n, h)
            /\ Rejects(r) <=> Rejects(h)
            /\ Lists(r) <=> Lists(h)
        BY <3>3, SameQueues
      <3>5. Tell(ui, r) = DisconnectFinished(ui, t.clean)
        BY <1>5, <3>2, <3>4
      <3>6. Closed(ui, Tell(ui, r))
        BY <1>1, <3>5, DisconnectPage
      <3>7. /\ DOMAIN r = Fields /\ Lists(r) /\ r.conn = "disconnected" /\ ~r.timer
            /\ r.sock \notin {"opening", "open"} /\ "message" \notin r.hears
            /\ ~r.screen /\ "open" \notin r.hears
            /\ r.init = "ServerInitialisation"
            /\ r.events # <<>> /\ Last(r.events)[1] = "disconnect" /\ ~Rejects(r)
        BY <1>2, <1>5, <2>1, <3>2, <3>2a, <3>3, <3>4 DEF Ending
      <3>8. \A n : Ask(n, r) = n
        BY <1>5, <3>2, <3>4
      <3>9. rfb[i].conn # "disconnected" /\ (r.retry => Noise(net, i))
        BY <1>2, <1>11, <2>2, <2>3, <3>2, <3>3
      <3>10. QED
        BY <1>3, <3>6, <3>7, <3>8, <3>9, EndStep
    <2>6. QED
      BY <2>4, <2>5
  <1>12. CASE s.conn = "disconnected"
    <2>1. Dead(s, net[i], Noise(net, i)) /\ (s.retry => Noise(net, i) \/ ~s.clean)
      BY <1>12, DeadFacts
    <2>1a. ~s.screen
      BY <2>1 DEF Dead
    <2>2. f = [t EXCEPT !.clean = FALSE]
      BY <1>2, <1>12, FailIdle DEF f
    <2>3. /\ DOMAIN f = Fields /\ f.events = <<>> /\ f.out = <<>> /\ f.sock = "closed"
          /\ f.conn = s.conn /\ f.init = s.init /\ f.hears = s.hears
          /\ f.timer = s.timer /\ f.screen = s.screen /\ f.grabbed = s.grabbed
          /\ f.clean = FALSE /\ f.retry = s.retry
      BY <1>2, <2>2 DEF Fields
    <2>4. r = t \/ r = Off(f)
      BY <1>4, <1>12
    <2>5. /\ DOMAIN r = Fields /\ r.events = <<>> /\ r.out = <<>> /\ r.sock = "closed"
          /\ r.conn = s.conn /\ r.init = s.init
          /\ r.hears = s.hears \/ r.hears = s.hears \ {"close"}
          /\ r.timer = s.timer /\ r.screen = s.screen /\ r.grabbed = s.grabbed
          /\ r.clean => s.clean
          /\ r.retry = s.retry
      <3>1. CASE r = t
        BY <1>2, <3>1
      <3>2. CASE r = Off(f)
        <4>1. /\ DOMAIN r = Fields /\ r.conn = f.conn /\ r.timer = f.timer
              /\ r.sock = f.sock /\ r.hears = f.hears \ {"close"} /\ r.retry = f.retry
              /\ r.screen = f.screen /\ r.grabbed = f.grabbed /\ r.clean = f.clean
              /\ r.init = f.init /\ r.events = f.events /\ r.out = f.out
          BY <1>6, <2>3, <3>2
        <4>2. QED
          BY <2>3, <4>1
      <3>3. QED
        BY <2>4, <3>1, <3>2
    <2>6. Dead(r, net[i], Noise(net, i))
      BY <2>1, <2>1a, <2>5 DEF Dead
    <2>7. Lists(r)
      BY <2>5, ListEmpty DEF Lists
    <2>8. Dying(r) /\ Closing(r)
      BY <1>12, <2>5, <2>7 DEF Dying, Closing
    <2>9. Still(r, r)
      BY <2>8, StillSets
    <2>10. r.retry => Noise(net, i) \/ ~r.clean
      BY <2>1, <2>5
    <2>11. rfb[i].conn = "disconnected"
      BY <1>12
    <2>12. QED
      BY <1>3, <2>5, <2>6, <2>8, <2>9, <2>10, <2>11, DyingStep
  <1>13. QED
    BY <1>1, <1>8, <1>9, <1>10, <1>11, <1>12 DEF Fits, Setting

\* Such a session reads what it has left as a ServerInit.
LEMMA EndingInit ==
  ASSUME Inv, plan' = plan, NEW i \in Ids, rfb[i].conn = "disconnecting",
         NEW t, DOMAIN t = Fields, t.events = <<>>, t.out = <<>>,
         t.conn = "disconnecting", Ending(t), t.retry => rfb[i].retry,
         NEW enough, Callback(i, NegotiateServerInit(t, enough), ui)
  PROVE Inv' /\ KeysKept
  <1> DEFINE r == NegotiateServerInit(t, enough)
  <1>1. Lists(t) /\ ~Rejects(t) /\ \A u : Tell(u, t) = u
    BY Silent
  <1>2. Closing(t)
    BY <1>1 DEF Closing, Ending
  <1>3. /\ Still(t, r) /\ r.init = t.init /\ (Rejects(r) <=> Rejects(t))
        /\ \A u : Tell(u, r) = Tell(u, t)
    BY <1>2, StillServerInit
  <1>4. Callback(i, r, ui)
    OBVIOUS
  <1> HIDE DEF r
  <1>5. /\ DOMAIN r = Fields /\ Lists(r) /\ r.conn = "disconnecting"
        /\ r.sock = t.sock /\ r.hears = t.hears /\ r.timer = t.timer
        /\ r.screen = t.screen /\ r.retry = t.retry /\ r.out = <<>>
    BY <1>3 DEF Still
  <1>6. Ending(r)
    BY <1>3, <1>5 DEF Ending
  <1>7. \A n : Ask(n, r) = n
    <2>1. \A n : Ask(n, t) = n
      BY Silent
    <2>2. \A n : Ask(n, r) = Ask(n, t)
      BY <1>5 DEF Ask
    <2>3. QED
      BY <2>1, <2>2
  <1>8. Tell(ui, r) = ui /\ ~Rejects(r) /\ (r.retry => rfb[i].retry)
    BY <1>1, <1>3, <1>5
  <1>9. QED
    BY <1>4, <1>5, <1>6, <1>7, <1>8, EndingStep

LEMMA RetryStep ==
  ASSUME Inv, plan' = plan, NEW i \in Ids, rfb[i].retry, NEW enough,
         Callback(i, CredentialsTimeout(rfb[i], enough), ui)
  PROVE Inv' /\ KeysKept
  <1> DEFINE s == rfb[i]
             t == [s EXCEPT !.retry = FALSE]
             r == InitMsg(t, enough)
             w == net[i].wire
             n == Note(net[i], r, w)
  <1>1. /\ Fits(s, net[i], Noise(net, i)) /\ DOMAIN s = Fields /\ DOMAIN ui = PageFields
        /\ s.events = <<>> /\ s.out = <<>>
        /\ DOMAIN net[i] = NetFields /\ IsServer(net[i].server)
    BY SessionFacts
  <1>2. /\ DOMAIN t = Fields /\ t.events = <<>> /\ t.out = <<>> /\ t.sock = s.sock
        /\ t.conn = s.conn /\ t.init = s.init /\ t.hears = s.hears
        /\ t.version = s.version /\ t.scheme = s.scheme /\ t.tight = s.tight
        /\ t.timer = s.timer /\ t.screen = s.screen /\ t.grabbed = s.grabbed
        /\ t.clean = s.clean /\ ~t.retry /\ t.rq = s.rq /\ t.short = s.short
        /\ t.pending = s.pending
    BY <1>1 DEF Fields
  <1>3. Received(i, r, ui, w) /\ Callback(i, r, ui)
    BY DEF Callback, CredentialsTimeout
  <1>4. /\ t.init = "" => r = Fail(t)
        /\ t.init = "ServerInitialisation" => r = NegotiateServerInit(t, enough)
    BY DEF InitMsg
  <1> HIDE DEF t
  <1>5. Lists(t) /\ ~Rejects(t) /\ \A u, m : Tell(u, t) = u /\ Ask(m, t) = m
    BY <1>2, Silent
  <1>6. /\ DOMAIN n = NetFields /\ n.server = net[i].server /\ n.wire = w
    BY <1>1, NoteFacts
  <1>7. CASE s.conn = ""
    <2>1. Unopened(s, net[i]) /\ s.sock = "none"
      BY <1>1, <1>7 DEF Fits, Setting
    <2>2. r = Fail(t)
      BY <1>2, <1>4, <2>1 DEF Unopened
    <2>3. r = [t EXCEPT !.clean = FALSE]
      BY <1>2, <1>7, <2>2, FailIdle
    <2>4. /\ DOMAIN r = Fields /\ r.events = <<>> /\ r.out = <<>> /\ r.sock = s.sock
          /\ r.conn = s.conn /\ r.init = s.init /\ r.hears = s.hears
          /\ r.version = s.version /\ r.scheme = s.scheme /\ r.tight = s.tight
          /\ r.timer = s.timer /\ r.screen = s.screen /\ r.grabbed = s.grabbed
          /\ ~r.clean /\ ~r.retry /\ r.rq = s.rq /\ r.short = s.short
          /\ r.pending = s.pending
      BY <1>2, <2>3 DEF Fields
    <2>5. AsBefore(ui) /\ rfb[i].conn # "disconnected" /\ r.sock # "open"
      BY <1>1, <1>7, <2>1, <2>4, SamePageAsBefore
    <2> HIDE DEF r
    <2>6. QED
      BY <1>3, <2>4, <2>5, QuietStep
  <1>8. CASE s.conn = "connecting" /\ s.sock = "opening"
    <2>1. Unopened(s, net[i])
      BY <1>1, <1>8 DEF Fits, Setting
    <2>2. r = Fail(t)
      BY <1>2, <1>4, <2>1 DEF Unopened
    <2>3. Ended(t, r, FALSE)
      BY <1>2, <1>5, <1>8, <2>2, FailEnds
    <2> HIDE DEF r
    <2>4. /\ DOMAIN r = Fields /\ Lists(r) /\ r.conn = "disconnected" /\ ~r.timer
          /\ r.sock \notin {"opening", "open"} /\ "message" \notin r.hears
          /\ ~r.screen /\ ~r.grabbed /\ r.clean = FALSE
          /\ r.events # <<>> /\ Last(r.events)[1] = "disconnect"
          /\ ~Rejects(r)
          /\ \A m : Ask(m, r) = m
          /\ Tell(ui, r) = DisconnectFinished(ui, FALSE)
      BY <1>5, <2>3 DEF Ended, Gone
    <2>5. Closed(ui, Tell(ui, r))
      BY <1>1, <2>4, DisconnectPage
    <2>6. rfb[i].conn # "disconnected"
      BY <1>8
    <2>7. QED
      BY <1>3, <2>4, <2>5, <2>6, EndStep
  <1>9. CASE s.conn = "connecting" /\ s.sock # "opening"
    <2>1. Setting(s) /\ Stage(s, w, net[i].server)
      BY <1>1, <1>9 DEF Fits
    <2>2. Setting(t)
      BY <1>2, <1>5, <2>1 DEF Setting
    <2>3. Stage(t, w, net[i].server)
      <3>1. \A v, Q : Input(s, v, Q) <=> Input(t, v, Q)
        BY <1>2 DEF Input
      <3>2. AuthInput(s, w, net[i].server) => AuthInput(t, w, net[i].server)
        BY <1>2, <3>1 DEF AuthInput
      <3>3. GreetingInput(s, w) => GreetingInput(t, w)
        BY <3>1 DEF GreetingInput
      <3>4. QED
        BY <1>2, <2>1, <3>1, <3>2, <3>3 DEF Stage
    <2> HIDE DEF n, w
    <2>4. Outcome(t, r, n, ui)
      <3>1. DOMAIN Ask(n, t) = NetFields /\ Ask(n, t).wire = w /\ Ask(n, t).server = net[i].server
        BY <1>5, <1>6
      <3>2. QED
        BY <1>1, <2>2, <2>3, <3>1, HandshakeOutcome
    <2>5. /\ i = ui.cur
          /\ ui.ask => \E j \in Ids : net[j].noisy
      BY <1>9, HeldFacts
    <2> HIDE DEF r
    <2>6. QED
      BY <1>2, <1>3, <1>9, <2>2, <2>4, <2>5, OutcomeStep DEF n
  <1>10. CASE s.conn = "connected"
    <2>1. Live(s, net[i])
      BY <1>10, ConnectedPage
    <2>2. r = NegotiateServerInit(t, enough)
      BY <1>2, <1>4, <2>1 DEF Live
    <2> HIDE DEF n
    <2>3. Ask(n, t) = n /\ Tell(ui, t) = ui
      BY <1>5
    <2>4. SameNet(n, n) /\ SamePage(ui, ui) /\ IsList(n.wire)
      BY <1>1, <1>6, <2>1 DEF SameNet, SamePage, Live
    <2>5. Lives(t, t, n, ui)
      BY <1>2, <1>5, <1>10, <2>1, <2>3, <2>4 DEF Lives, Live
    <2>6. Lives(t, r, n, ui)
      BY <2>2, <2>5, LivesInit
    <2>7. AsBefore(ui) /\ rfb[i].conn = "connected"
      BY <1>1, <1>10, SamePageAsBefore
    <2> HIDE DEF r
    <2>8. QED
      BY <1>2, <1>3, <2>6, <2>7, LivesStep DEF n
  <1>11. CASE s.conn = "disconnecting"
    <2>1. Ending(s)
      BY <1>1, <1>11 DEF Fits, Setting
    <2>2. Ending(t)
      BY <1>2, <2>1 DEF Ending
    <2>3. r = NegotiateServerInit(t, enough)
      BY <1>2, <1>4, <2>1 DEF Ending
    <2>4. rfb[i].conn = "disconnecting" /\ Callback(i, NegotiateServerInit(t, enough), ui)
      BY <1>3, <1>11, <2>3
    <2>5. t.conn = "disconnecting" /\ (t.retry => rfb[i].retry)
      BY <1>2, <1>11
    <2>6. QED
      BY <1>2, <2>2, <2>4, <2>5, EndingInit
  <1>12. CASE s.conn = "disconnected"
    <2>1. Dead(s, net[i], Noise(net, i)) /\ (s.retry => Noise(net, i) \/ ~s.clean)
      BY <1>12, DeadFacts
    <2>2. Dead(t, net[i], Noise(net, i))
      BY <1>2, <2>1 DEF Dead
    <2>3. Dying(t) /\ Closing(t)
      BY <1>2, <1>5, <1>12, <2>2 DEF Dying, Closing, Dead
    <2>4. Still(t, r) /\ (t.init = "ServerInitialisation" => r.init = t.init)
      BY <2>3, StillHandshake
    <2>5. t.clean => Noise(net, i)
      BY <1>2, <2>1
    <2>6. rfb[i].conn = "disconnected"
      BY <1>12
    <2> HIDE DEF r
    <2>7. QED
      BY <1>2, <1>3, <2>2, <2>3, <2>4, <2>5, <2>6, DyingStep
  <1>13. QED
    BY <1>1, <1>7, <1>8, <1>9, <1>10, <1>11, <1>12 DEF Fits, Setting

LEMMA FlushStep ==
  ASSUME Inv, plan' = plan, NEW i \in Ids, rfb[i].pending, NEW enough,
         Callback(i, OnFlush(rfb[i], enough), ui)
  PROVE Inv' /\ KeysKept
  <1> DEFINE s == rfb[i]
             t == [s EXCEPT !.flushing = FALSE, !.pending = FALSE]
             r == OnFlush(s, enough)
             w == net[i].wire
             n == Note(net[i], r, w)
  <1>1. /\ Fits(s, net[i], Noise(net, i)) /\ DOMAIN s = Fields /\ DOMAIN ui = PageFields
        /\ s.events = <<>> /\ s.out = <<>>
        /\ DOMAIN net[i] = NetFields /\ IsServer(net[i].server)
    BY SessionFacts
  <1>2. /\ DOMAIN t = Fields /\ t.events = <<>> /\ t.out = <<>> /\ t.sock = s.sock
        /\ t.conn = s.conn /\ t.init = s.init /\ t.hears = s.hears
        /\ t.version = s.version /\ t.scheme = s.scheme /\ t.tight = s.tight
        /\ t.timer = s.timer /\ t.screen = s.screen /\ t.grabbed = s.grabbed
        /\ t.clean = s.clean /\ t.retry = s.retry /\ t.rq = s.rq /\ t.short = s.short
        /\ ~t.pending
    BY <1>1 DEF Fields
  <1>3. Received(i, r, ui, w) /\ Callback(i, r, ui)
    BY DEF Callback
  <1>4. \/ r = t
        \/ /\ t.rq # <<>> /\ t.conn = "connected" /\ r = Drain(t)
        \/ /\ t.conn \notin {"connected", "disconnected"} /\ r = InitMsg(t, enough)
    BY DEF OnFlush, HandleMessage
  <1> HIDE DEF t
  <1>5. Lists(t) /\ ~Rejects(t) /\ \A u, m : Tell(u, t) = u /\ Ask(m, t) = m
    BY <1>2, Silent
  <1>6. /\ DOMAIN n = NetFields /\ n.server = net[i].server /\ n.wire = w
    BY <1>1, NoteFacts
  <1>7. s.conn \in {"connected", "disconnecting", "disconnected"}
    BY <1>1 DEF Fits, Setting, Unopened
  <1>8. CASE r = t
    <2>1. AsBefore(ui) /\ Callback(i, t, ui)
      BY <1>1, <1>3, <1>8, SamePageAsBefore
    <2> HIDE DEF r
    <2>2. QED
      BY <1>2, <2>1, QuietStep
  <1>9. CASE t.rq # <<>> /\ t.conn = "connected" /\ r = Drain(t)
    <2>0. s.conn = "connected"
      BY <1>2, <1>9
    <2>1. Live(s, net[i]) /\ (s.retry => Noise(net, i))
      BY <2>0, ConnectedPage
    <2> HIDE DEF n
    <2>3. Ask(n, t) = n /\ Tell(ui, t) = ui
      BY <1>5
    <2>4. SameNet(n, n) /\ SamePage(ui, ui) /\ IsList(n.wire)
      BY <1>1, <1>6, <2>1 DEF SameNet, SamePage, Live
    <2>5. Lives(t, t, n, ui)
      BY <1>2, <1>5, <1>9, <2>1, <2>3, <2>4 DEF Lives, Live
    <2>6. Lives(t, r, n, ui) \/ Falls(t, r, n, ui)
      BY <1>9, <2>5, DrainOutcome
    <2>7. AsBefore(ui) /\ rfb[i].conn = "connected" /\ (t.retry => Noise(net, i))
      BY <1>1, <1>2, <2>0, <2>1, SamePageAsBefore
    <2> HIDE DEF r
    <2>8. QED
      BY <1>2, <1>3, <2>6, <2>7, LivesStep DEF n
  <1>10. CASE t.conn \notin {"connected", "disconnected"} /\ r = InitMsg(t, enough)
    <2>0. s.conn = "disconnecting"
      BY <1>2, <1>7, <1>10
    <2>1. Ending(s)
      BY <1>1, <2>0 DEF Fits, Setting
    <2>2. Ending(t)
      BY <1>2, <2>1 DEF Ending
    <2>3. r = NegotiateServerInit(t, enough)
      BY <1>2, <1>10, <2>1 DEF Ending, InitMsg
    <2>4. rfb[i].conn = "disconnecting" /\ Callback(i, NegotiateServerInit(t, enough), ui)
      BY <1>3, <2>0, <2>3
    <2>5. t.conn = "disconnecting" /\ (t.retry => rfb[i].retry)
      BY <1>2, <2>0
    <2>6. QED
      BY <1>2, <2>2, <2>4, <2>5, EndingInit
  <1>11. QED
    BY <1>4, <1>8, <1>9, <1>10

LEMMA SomeList ==
  ASSUME NEW q, IsList(q), NEW a, IsList(a), a = <<>> => q # <<>>
  PROVE q \o a # <<>> /\ IsList(q \o a)
  <1>1. PICK S : q \in Seq(S)
    BY DEF IsList
  <1>2. PICK T : a \in Seq(T)
    BY DEF IsList
  <1>3. q \in Seq(S \cup T) /\ a \in Seq(S \cup T)
    BY <1>1, <1>2
  <1>4. Len(q \o a) = Len(q) + Len(a) /\ Len(q) \in Nat /\ Len(a) \in Nat
    BY <1>3
  <1>5. (a # <<>> => Len(a) # 0) /\ (q # <<>> => Len(q) # 0)
    BY <1>3
  <1>6. Len(<<>>) = 0
    OBVIOUS
  <1>7. IsList(q \o a)
    BY ListConcat
  <1>8. QED
    BY <1>4, <1>5, <1>6, <1>7

LEMMA StageList ==
  ASSUME NEW s, NEW w, NEW server, Stage(s, w, server)
  PROVE /\ IsList(s.rq) /\ IsList(w) /\ (s.rq = <<>> => ~s.short)
  <1>1. \A Q : Input(s, w, Q) => IsList(s.rq) /\ IsList(w) /\ (s.rq = <<>> => ~s.short)
    BY DEF Input, Fed
  <1>2. AuthInput(s, w, server) => \E Q : Input(s, w, Q)
    BY DEF AuthInput
  <1>3. GreetingInput(s, w) => \E Q : Input(s, w, Q)
    BY DEF GreetingInput
  <1>4. \E Q : Input(s, w, Q)
    BY <1>2, <1>3 DEF Stage
  <1>5. QED
    BY <1>1, <1>4

LEMMA ReceiveStep ==
  ASSUME Inv, plan' = plan, NEW i \in Ids, rfb[i].sock = "open",
         NEW k \in 0 .. Len(net[i].wire), NEW partial, NEW enough,
         k = 0 => rfb[i].short /\ ~partial,
         Received(i, OnMessage(rfb[i], SubSeq(net[i].wire, 1, k), partial, enough),
                  ui, SubSeq(net[i].wire, k + 1, Len(net[i].wire)))
  PROVE Inv' /\ KeysKept
  <1> DEFINE s == rfb[i]
             w == net[i].wire
             a == SubSeq(w, 1, k)
             b == SubSeq(w, k + 1, Len(w))
             t == [s EXCEPT !.rq = @ \o a, !.short = partial]
             r == OnMessage(s, a, partial, enough)
             n == Note(net[i], r, b)
  <1>1. /\ Fits(s, net[i], Noise(net, i)) /\ DOMAIN s = Fields /\ DOMAIN ui = PageFields
        /\ s.events = <<>> /\ s.out = <<>>
        /\ DOMAIN net[i] = NetFields /\ IsServer(net[i].server)
    BY SessionFacts
  <1>2. Received(i, r, ui, b)
    OBVIOUS
  <1>3. /\ "message" \in s.hears /\ (t.rq = <<>> \/ t.conn = "disconnected") => r = t
        /\ "message" \in s.hears /\ t.rq # <<>> /\ t.conn = "connected" => r = Drain(t)
        /\ "message" \in s.hears /\ t.rq # <<>> /\ t.conn \notin {"connected", "disconnected"}
             => r = InitMsg(t, enough)
    BY DEF OnMessage, HandleMessage
  <1>5. \/ Setting(s) /\ Stage(s, w, net[i].server)
        \/ s.conn = "connected" /\ Live(s, net[i])
    BY <1>1 DEF Fits, Ending, Dead, Unopened
  <1>6. IsList(w) /\ IsList(s.rq) /\ "message" \in s.hears
    BY <1>5, StageList DEF Live, Setting, Hearing
  <1>7. IsList(a) /\ IsList(b) /\ a \o b = w /\ Len(a) = k
    BY <1>6, Cut
  <1>8. a = <<>> => k = 0
    <2>1. Len(<<>>) = 0
      OBVIOUS
    <2>2. QED
      BY <1>7, <2>1
  <1>9. k = 0 => s.short
    OBVIOUS
  <1> HIDE DEF a, b, r
  <1>4. /\ DOMAIN n = NetFields /\ n.server = net[i].server /\ n.wire = b
    BY <1>1, NoteFacts
  <1>10. /\ DOMAIN t = Fields /\ t.events = <<>> /\ t.out = <<>> /\ t.sock = s.sock
         /\ t.conn = s.conn /\ t.init = s.init /\ t.hears = s.hears
         /\ t.version = s.version /\ t.scheme = s.scheme /\ t.tight = s.tight
         /\ t.timer = s.timer /\ t.retry = s.retry
         /\ t.pending = s.pending
         /\ t.rq = s.rq \o a /\ t.short = partial
    BY <1>1 DEF Fields
  <1> HIDE DEF t
  <1>11. Lists(t) /\ ~Rejects(t) /\ \A u, m : Tell(u, t) = u /\ Ask(m, t) = m
    BY <1>10, Silent
  <1>12. CASE Setting(s) /\ Stage(s, w, net[i].server)
    <2>1. (s.rq = <<>> => ~s.short) /\ s.conn = "connecting"
      BY <1>12, StageList DEF Setting
    <2>2. a = <<>> => s.rq # <<>>
      BY <1>8, <1>9, <2>1
    <2>3. t.rq # <<>>
      <3>1. s.rq \o a # <<>>
        BY <1>6, <1>7, <2>2, SomeList
      <3>2. QED
        BY <1>10, <3>1
    <2>4. r = InitMsg(t, enough)
      BY <1>3, <1>6, <1>10, <2>1, <2>3
    <2>5. \A Q : Input(s, w, Q) => Input(t, b, Q)
      <3>1. ASSUME NEW Q, Input(s, w, Q) PROVE Input(t, b, Q)
        <4>1. Fed(s.rq, s.short, a \o b, Q)
          BY <1>7, <3>1 DEF Input
        <4>2. Fed(s.rq \o a, partial, b, Q)
          BY <1>7, <2>2, <4>1, FedMore
        <4>3. QED
          BY <1>10, <4>2 DEF Input
      <3>2. QED
        BY <3>1
    <2>6. AuthInput(s, w, net[i].server) => AuthInput(t, b, net[i].server)
      BY <1>10, <2>5 DEF AuthInput
    <2>7. GreetingInput(s, w) => GreetingInput(t, b)
      BY <2>5 DEF GreetingInput
    <2>8. Stage(t, b, net[i].server)
      BY <1>10, <1>12, <2>5, <2>6, <2>7 DEF Stage
    <2>9. Setting(t)
      BY <1>10, <1>11, <1>12 DEF Setting
    <2> HIDE DEF n
    <2>10. Outcome(t, r, n, ui)
      <3>1. DOMAIN Ask(n, t) = NetFields /\ Ask(n, t).wire = b /\ Ask(n, t).server = net[i].server
        BY <1>4, <1>11
      <3>2. QED
        BY <1>1, <2>4, <2>8, <2>9, <3>1, HandshakeOutcome
    <2>11. ~Waits(s, w)
      <3>1. SUFFICES ASSUME Waits(s, w) PROVE FALSE
        OBVIOUS
      <3>2. w = <<>> /\ ~s.short /\ Len(<<>>) = 0
        BY <3>1 DEF Waits
      <3>3. k = 0
        BY <3>2
      <3>4. QED
        BY <1>9, <3>2, <3>3
    <2>12. /\ i = ui.cur
           /\ s.retry => Noise(net, i) \/ Waits(s, w)
           /\ ui.ask => \/ \E j \in Ids : net[j].noisy
                        \/ ~s.retry /\ Waits(s, w)
      BY <2>1, HeldFacts
    <2>13. (t.retry => Noise(net, i)) /\ (ui.ask => \E j \in Ids : net[j].noisy)
      BY <1>10, <2>11, <2>12
    <2>14. rfb[i].conn = "connecting" /\ i = ui.cur
      BY <2>1, <2>12
    <2>15. QED
      BY <1>2, <1>10, <2>9, <2>10, <2>13, <2>14, OutcomeStep DEF n
  <1>13. CASE s.conn = "connected" /\ Live(s, net[i])
    <2>1. s.retry => Noise(net, i)
      BY <1>13, ConnectedPage
    <2> HIDE DEF n
    <2>2. Ask(n, t) = n /\ Tell(ui, t) = ui
      BY <1>11
    <2>3. SameNet(n, n) /\ SamePage(ui, ui) /\ IsList(n.wire)
      BY <1>1, <1>4, <1>7 DEF SameNet, SamePage
    <2>4. IsList(t.rq)
      BY <1>6, <1>7, <1>10, ListConcat
    <2>5. Lives(t, t, n, ui)
      BY <1>10, <1>11, <1>13, <2>2, <2>3, <2>4 DEF Lives, Live
    <2>6. Lives(t, r, n, ui) \/ Falls(t, r, n, ui)
      <3>1. CASE t.rq = <<>>
        BY <1>3, <1>6, <2>5, <3>1
      <3>2. CASE t.rq # <<>>
        <4>1. r = Drain(t)
          BY <1>3, <1>6, <1>10, <1>13, <3>2
        <4>2. QED
          BY <2>5, <3>2, <4>1, DrainOutcome
      <3>3. QED
        BY <3>1, <3>2
    <2>7. AsBefore(ui) /\ rfb[i].conn = "connected" /\ (t.retry => Noise(net, i))
      BY <1>1, <1>10, <1>13, <2>1, SamePageAsBefore
    <2>8. QED
      BY <1>2, <1>10, <2>6, <2>7, LivesStep DEF n
  <1>14. QED
    BY <1>5, <1>12, <1>13

\* The server of a session that is set up sends one message more.
LEMMA MoreGreeting ==
  ASSUME NEW s, NEW w, GreetingInput(s, w), NEW e
  PROVE GreetingInput(s, Append(w, e))
  <1>1. PICK Q : Input(s, w, Q) /\ Q # <<>> /\ Head(Q).kind = "serverinit"
    BY DEF GreetingInput
  <1>2. IsList(s.rq) /\ IsList(w) /\ s.rq \o w = Q /\ (s.rq = <<>> => ~s.short)
    BY <1>1 DEF Input, Fed
  <1>3. PICK S : s.rq \in Seq(S)
    BY <1>2 DEF IsList
  <1>4. PICK T : w \in Seq(T)
    BY <1>2 DEF IsList
  <1> DEFINE U == S \cup T \cup {e}
             q == s.rq
             P == Append(Q, e)
  <1>5. q \in Seq(U) /\ w \in Seq(U) /\ e \in U
    BY <1>3, <1>4
  <1> HIDE DEF U
  <1>6. Q \in Seq(U)
    <2>1. q \o w \in Seq(U)
      BY <1>5
    <2>2. QED
      BY <1>2, <2>1
  <1> HIDE DEF q
  <1>7. q \o Append(w, e) = Append(q \o w, e)
    BY <1>5
  <1>8. P # <<>> /\ Head(P) = Head(Q)
    BY <1>1, <1>5, <1>6
  <1>9. IsList(Append(w, e))
    BY <1>2, ListAppend
  <1>10. Input(s, Append(w, e), P)
    BY <1>2, <1>7, <1>9 DEF Input, Fed, q
  <1>11. Head(P).kind = "serverinit"
    BY <1>1, <1>8
  <1> HIDE DEF P
  <1>12. QED
    BY <1>8, <1>10, <1>11 DEF GreetingInput

LEMMA ListSet ==
  ASSUME NEW q, IsList(q), NEW i \in 1 .. Len(q), NEW e, NEW p, p = [q EXCEPT ![i] = e]
  PROVE /\ IsList(p) /\ Len(p) = Len(q) /\ Len(q) \in Nat
        /\ \A j \in 1 .. Len(q) : p[j] = IF j = i THEN e ELSE q[j]
  <1>1. PICK S : q \in Seq(S)
    BY DEF IsList
  <1>2. q \in Seq(S \cup {e}) /\ e \in S \cup {e}
    BY <1>1, SeqMonotonic, S \subseteq S \cup {e}
  <1>3. p \in Seq(S \cup {e}) /\ Len(p) = Len(q) /\ Len(q) \in Nat
    BY <1>2
  <1>4. \A j \in 1 .. Len(q) : p[j] = IF j = i THEN e ELSE q[j]
    BY <1>2
  <1>5. QED
    BY <1>3, <1>4 DEF IsList

LEMMA SendsStep ==
  ASSUME Inv, plan' = plan, ui' = ui, rfb' = rfb, NEW i \in Ids,
         rfb[i].init = "ServerInitialisation", rfb[i].sock = "open", NEW e, NEW m,
         net' = [net EXCEPT ![i] = m], DOMAIN m = NetFields,
         m.server = net[i].server, m.wire = Append(net[i].wire, e),
         m.down = net[i].down, m.refused = net[i].refused, m.noisy = net[i].noisy
  PROVE Inv' /\ KeysKept
  <1>1. /\ Fits(rfb[i], net[i], Noise(net, i)) /\ DOMAIN rfb[i] = Fields
        /\ DOMAIN net[i] = NetFields /\ IsServer(net[i].server)
    BY SessionFacts
  <1>2. /\ DOMAIN m = NetFields /\ m.server = net[i].server /\ m.wire = Append(net[i].wire, e)
        /\ m.down = net[i].down /\ m.refused = net[i].refused /\ m.noisy = net[i].noisy
    OBVIOUS
  <1>3. IsList(net) /\ i \in 1 .. Len(net) /\ Len(net) = Len(rfb)
    BY DEF Inv, Ids
  <1>4. net' = [net EXCEPT ![i] = m]
    OBVIOUS
  <1>5. /\ IsList(net') /\ Len(net') = Len(net) /\ Len(net) \in Nat
        /\ \A j \in 1 .. Len(net) : net'[j] = IF j = i THEN m ELSE net[j]
    <2>1. IsList(net)
      BY <1>3
    <2>2. i \in 1 .. Len(net)
      BY <1>3
    <2> DEFINE y == [net EXCEPT ![i] = m]
    <2>3a. y = [net EXCEPT ![i] = m] /\ net' = y
      BY <1>4
    <2> HIDE DEF y
    <2>3b. IsList(y)
      BY <2>1, <2>2, <2>3a, ListSet
    <2>3. IsList(net')
      BY <2>3a, <2>3b
    <2>4. Len(net') = Len(net) /\ Len(net) \in Nat
      BY <1>4, <2>1, <2>2, ListSet
    <2>5. \A j \in 1 .. Len(net) : net'[j] = IF j = i THEN m ELSE net[j]
      BY <1>4, <2>1, <2>2, ListSet
    <2>6. QED
      BY <2>3, <2>4, <2>5
  <1>6. Ids' = Ids /\ Ids = 1 .. Len(net)
    BY <1>3 DEF Ids
  <1>7. \A j \in Ids : (j = i => net'[j] = m) /\ (j # i => net'[j] = net[j])
    BY <1>5, <1>6
  <1>8. \/ Setting(rfb[i]) /\ Stage(rfb[i], net[i].wire, net[i].server)
        \/ rfb[i].conn = "connected" /\ Live(rfb[i], net[i])
    BY <1>1 DEF Fits, Ending, Dead
  <1>9. Fits(rfb[i], m, Noise(net, i))
    <2>1. ~Waits(rfb[i], net[i].wire)
      BY DEF Waits
    <2>2. /\ rfb[i].events = <<>> /\ rfb[i].out = <<>>
          /\ rfb[i].conn # "disconnected" => ~m.noisy /\ ~m.refused
          /\ rfb[i].retry => Noise(net, i) \/ (rfb[i].conn = "disconnected" /\ ~rfb[i].clean)
      BY <1>1, <1>2, <2>1 DEF Fits
    <2>3. CASE Setting(rfb[i]) /\ Stage(rfb[i], net[i].wire, net[i].server)
      <3>1. rfb[i].version = net[i].server.version /\ GreetingInput(rfb[i], net[i].wire)
        BY <2>3 DEF Stage
      <3>2. GreetingInput(rfb[i], m.wire)
        BY <1>2, <3>1, MoreGreeting
      <3>3. Stage(rfb[i], m.wire, m.server)
        BY <1>2, <3>1, <3>2 DEF Stage
      <3>4. QED
        BY <1>1, <1>2, <2>2, <2>3, <3>3 DEF Fits
    <2>4. CASE rfb[i].conn = "connected" /\ Live(rfb[i], net[i])
      <3>1. IsList(m.wire)
        BY <1>2, <2>4, ListAppend DEF Live
      <3>2. Live(rfb[i], m)
        BY <2>4, <3>1 DEF Live
      <3>3. QED
        BY <1>1, <1>2, <2>2, <2>4, <3>2 DEF Fits
    <2>5. QED
      BY <1>8, <2>3, <2>4
  <1>10. /\ \A j \in Ids : Fits(rfb'[j], net'[j], Noise(net', j))
         /\ \A j \in Ids : net[j].noisy => net'[j].noisy
    <2>1. /\ Fits(rfb'[i], net'[i], Noise(net, i)) /\ (net[i].noisy => net'[i].noisy)
          /\ \A j \in Ids : j # i => rfb'[j] = rfb[j] /\ net'[j] = net[j]
      BY <1>2, <1>7, <1>9
    <2>2. QED
      BY <1>6, <2>1, AllFit
  <1>11. ui'.ask => \/ \E j \in Ids' : net'[j].noisy
                    \/ /\ ui'.cur # NONE /\ ~rfb'[ui'.cur].retry
                       /\ Waits(rfb'[ui'.cur], net'[ui'.cur].wire)
    <2>1. SUFFICES ASSUME ui.ask, ~\E j \in Ids : net'[j].noisy
                   PROVE /\ ui'.cur # NONE /\ ~rfb'[ui'.cur].retry
                         /\ Waits(rfb'[ui'.cur], net'[ui'.cur].wire)
      BY <1>6
    <2>2. ~\E j \in Ids : net[j].noisy
      BY <1>10, <2>1
    <2>3. ui.cur # NONE /\ ~rfb[ui.cur].retry /\ Waits(rfb[ui.cur], net[ui.cur].wire)
      BY <2>1, <2>2 DEF Inv
    <2>4. ui.cur # i
      BY <2>3 DEF Waits
    <2>5. ui.cur \in Ids
      <3>1. PageFits(ui, Len(rfb), rfb[ui.cur].conn)
        BY SessionFacts
      <3>2. ui.cur = Len(rfb)
        BY <2>3, <3>1 DEF PageFits
      <3>3. QED
        BY <1>3, <1>5, <2>3, <3>2 DEF Ids, NONE
    <2>6. net'[ui.cur] = net[ui.cur]
      BY <1>7, <2>4, <2>5
    <2>7. QED
      BY <2>3, <2>6
  <1>12. RefusalShown'
    <2>1. rfb # <<>> /\ net # <<>> /\ net' # <<>>
      BY <1>3, <1>5, <1>6 DEF Ids
    <2>2. Last(net') = net'[Len(net)] /\ Last(net) = net[Len(net)] /\ Len(net) \in Ids
      BY <1>3, <1>5, <1>6, <2>1, LastNet
    <2>3. /\ net'[Len(net)].refused = net[Len(net)].refused
          /\ net'[Len(net)].noisy = net[Len(net)].noisy
      BY <1>2, <1>7, <2>2
    <2>4. RefusalShown
      BY DEF Inv
    <2>5. QED
      BY <2>1, <2>2, <2>3, <2>4 DEF RefusalShown
  <1>13. Inv'
    BY <1>3, <1>5, <1>6, <1>10, <1>11, <1>12 DEF Inv
  <1>14. KeysKept
    <2>1. \A j \in Ids : net'[j].down = net[j].down
      BY <1>2, <1>7
    <2>2. SUFFICES ASSUME ui.connected PROVE net'[ui.cur].down = net[ui.cur].down
      BY DEF KeysKept
    <2>3. ui.cur \in Ids
      <3>1. PageFits(ui, Len(rfb), rfb[ui.cur].conn)
        BY SessionFacts
      <3>2. ui.cur = Len(rfb) /\ ui.cur # NONE
        BY <2>2, <3>1 DEF PageFits
      <3>3. QED
        BY <1>3, <1>5, <3>2 DEF Ids, NONE
    <2>4. QED
      BY <2>1, <2>3
  <1>15. QED
    BY <1>13, <1>14

-----------------------------------------------------------------------------
(* The user.                                                               *)

\* The session of a page that shows "connected".
LEMMA HeldSession ==
  ASSUME Inv, ui.visual = "connected" \/ ui.connected \/ ui.cur # NONE
  PROVE /\ ui.cur \in Ids /\ ui.cur # NONE /\ ui.cur = Len(rfb) /\ Len(rfb) \in Nat
        /\ rfb[ui.cur].conn # "disconnected"
        /\ ui.visual = "connected" \/ ui.connected => rfb[ui.cur].conn = "connected"
  <1>1. PageFits(ui, Len(rfb), rfb[ui.cur].conn) /\ IsList(rfb)
    BY DEF Inv
  <1>2. Len(rfb) \in Nat
    BY <1>1, ListAppend
  <1>3. ui.cur # NONE /\ ui.cur = Len(rfb)
    BY <1>1 DEF PageFits
  <1>4. ui.cur \in Ids
    BY <1>2, <1>3 DEF Ids, NONE
  <1>5. rfb[ui.cur].conn # "disconnected"
    BY <1>1, <1>3 DEF PageFits
  <1>6. ui.visual = "connected" \/ ui.connected => rfb[ui.cur].conn = "connected"
    BY <1>1, <1>3 DEF PageFits
  <1>7. QED
    BY <1>2, <1>3, <1>4, <1>5, <1>6

LEMMA PageDomain ==
  ASSUME Inv
  PROVE /\ DOMAIN ui = PageFields /\ PowerFits(ui)
        /\ PageFits(ui, Len(rfb), rfb[ui.cur].conn)
  BY DEF Inv, PageFits

LEMMA PressedPage ==
  ASSUME DOMAIN ui = PageFields
  PROVE AsBefore(Pressed)
  BY DEF AsBefore, Pressed, PageFields

\* The control bar.
LEMMA DisconnectStep ==
  ASSUME Inv, plan' = plan, ClickDisconnect, NEW i, i = ui.cur
  PROVE Inv' /\ KeysKept
  <1> DEFINE s == rfb[i]
             d == Move(s, "disconnecting")
             r == Disconnect(s)
             v == [Pressed EXCEPT !.panel = "none", !.connected = FALSE, !.inhibit = TRUE]
             u == UpdateVisualState(v, "disconnecting")
             a == rfb'[i]
             m == net'[i]
  <1>1. ui.visual = "connected" /\ Received(i, r, u, net[i].wire)
    BY DEF ClickDisconnect, Callback
  <1>2. i \in Ids /\ s.conn = "connected"
    BY <1>1, HeldSession
  <1>3. /\ Live(s, net[i]) /\ s.events = <<>> /\ s.out = <<>>
        /\ DOMAIN s = Fields /\ DOMAIN ui = PageFields
        /\ ~ui.reconnect /\ ui.status.text # "failed"
        /\ ~net[i].noisy /\ ~net[i].refused /\ IsServer(net[i].server)
        /\ s.retry => Noise(net, i)
    BY <1>2, ConnectedPage
  <1>3a. s.retry => Noise(net, i)
    BY <1>2, ConnectedPage
  <1>4. /\ DOMAIN d = Fields /\ d.conn = "disconnecting" /\ d.timer
        /\ ~d.screen /\ ~d.grabbed /\ d.sock \notin {"opening", "open"}
        /\ d.hears = s.hears \ {"message"}
        /\ d.init = s.init /\ d.retry = s.retry /\ d.clean = s.clean
        /\ d.events = s.events /\ d.out = s.out
    BY <1>2, <1>3, MoveDown
  <1> HIDE DEF d
  <1>5. r = [d EXCEPT !.hears = @ \ {"open", "message"}]
    BY DEF Disconnect, d
  <1>6. /\ DOMAIN r = Fields /\ r.conn = "disconnecting" /\ r.timer
        /\ ~r.screen /\ r.sock = d.sock
        /\ r.hears = d.hears \ {"open", "message"}
        /\ r.init = s.init /\ r.retry = s.retry /\ r.events = <<>> /\ r.out = <<>>
    BY <1>3, <1>4, <1>5 DEF Fields
  <1>7. /\ DOMAIN v = PageFields /\ v.cur = ui.cur /\ ~v.connected /\ v.mods = ui.mods
        /\ v.reconnect = ui.reconnect /\ v.status = ui.status
    BY <1>3 DEF Pressed, PageFields
  <1> HIDE DEF v, r
  <1>8. /\ DOMAIN u = PageFields
        /\ u.cur = v.cur /\ u.connected = v.connected /\ u.reconnect = v.reconnect
        /\ u.visual = "disconnecting" /\ ~u.ask /\ u.mods = v.mods /\ u.status = v.status
        /\ ~u.power /\ u.panel # "power"
    BY <1>7, VisualPage
  <1> HIDE DEF u
  <1>9a. i \in Ids
    BY <1>2
  <1>9b. Received(i, r, u, net[i].wire)
    BY <1>1
  <1>9c. DOMAIN r = Fields /\ r.events = <<>> /\ r.out = <<>>
    BY <1>6
  <1>9. /\ NetLike(net[i], m) /\ m.wire = net[i].wire /\ m.down = net[i].down
        /\ ui' = u
        /\ DOMAIN a = Fields /\ a.events = <<>> /\ a.out = <<>>
        /\ a.conn = r.conn /\ a.init = r.init
        /\ a.hears = r.hears /\ a.sock = r.sock
        /\ a.timer = r.timer /\ a.retry = r.retry /\ a.screen = r.screen
    BY <1>9a, <1>9b, <1>9c, SilentStep
  <1> HIDE DEF a, m
  <1>10. Ending(a)
    BY <1>3, <1>4, <1>6, <1>9 DEF Ending, Live
  <1>11. Fits(a, m, Noise(net, i))
    BY <1>3, <1>3a, <1>6, <1>9, <1>10 DEF Fits, NetLike
  <1>12. GoingOn(u, a)
    BY <1>6, <1>9 DEF GoingOn
  <1>13. PowerFits(u) /\ ~u.reconnect /\ ~u.connected
    BY <1>3, <1>7, <1>8 DEF PowerFits
  <1>14. rfb[i].conn # "disconnected" /\ u.cur = ui.cur /\ u.status = ui.status /\ u.mods = ui.mods
    BY <1>2, <1>7, <1>8
  <1>15. QED
    BY <1>1, <1>2, <1>6, <1>8, <1>9, <1>11, <1>12, <1>13, <1>14, HeldSilentStep DEF a, m

LEMMA PasswordStep ==
  ASSUME Inv, plan' = plan, ui.ask, ui.cur # NONE, NEW given \in BOOLEAN,
         NEW i, i = ui.cur,
         Callback(i, SendCredentials(rfb[i], given),
                  [ui EXCEPT !.password = given, !.ask = FALSE])
  PROVE Inv' /\ KeysKept
  <1> DEFINE s == rfb[i]
             r == SendCredentials(s, given)
             u == [ui EXCEPT !.password = given, !.ask = FALSE]
             a == rfb'[i]
             m == net'[i]
  <1>1. Received(i, r, u, net[i].wire)
    BY DEF Callback
  <1>2. i \in Ids /\ s.conn # "disconnected" /\ i = Len(rfb) /\ Len(rfb) \in Nat
    BY HeldSession
  <1>3. /\ Fits(s, net[i], Noise(net, i)) /\ DOMAIN s = Fields /\ DOMAIN ui = PageFields
        /\ s.events = <<>> /\ s.out = <<>>
    BY <1>2, SessionFacts
  <1>4. /\ ~ui.reconnect /\ ui.status.text # "failed" /\ PowerFits(ui)
        /\ ~net[i].noisy
        /\ ui.ask => \/ \E j \in Ids : net[j].noisy
                     \/ ~s.retry /\ Waits(s, net[i].wire)
    BY <1>2, HeldFacts
  <1>5. Noise(net, i) \/ Waits(s, net[i].wire)
    <2>1. CASE Waits(s, net[i].wire)
      BY <2>1
    <2>2. CASE \E j \in Ids : net[j].noisy
      <3>1. PICK j \in Ids : net[j].noisy
        BY <2>2
      <3>2. j # i
        BY <1>4, <3>1
      <3>3. j \in 1 .. i - 1
        BY <1>2, <3>2 DEF Ids
      <3>4. QED
        BY <3>1, <3>3 DEF Noise
    <2>3. QED
      BY <1>4, <2>1, <2>2
  <1>6. /\ DOMAIN r = Fields /\ r.events = <<>> /\ r.out = <<>>
        /\ r.conn = s.conn /\ r.init = s.init /\ r.version = s.version
        /\ r.scheme = s.scheme /\ r.tight = s.tight /\ r.hears = s.hears
        /\ r.sock = s.sock /\ r.timer = s.timer /\ r.screen = s.screen
        /\ r.rq = s.rq /\ r.short = s.short
        /\ r.clean = s.clean /\ r.retry /\ r.pending = s.pending
        /\ r.grabbed = s.grabbed
    BY <1>3 DEF SendCredentials, Fields
  <1>7. /\ DOMAIN u = PageFields /\ u.cur = ui.cur /\ u.connected = ui.connected
        /\ u.reconnect = ui.reconnect /\ u.visual = ui.visual /\ ~u.ask
        /\ u.mods = ui.mods /\ u.status = ui.status
        /\ u.power = ui.power /\ u.panel = ui.panel
    BY <1>3 DEF PageFields
  <1> HIDE DEF r, u
  <1>8a. i \in Ids
    BY <1>2
  <1>8b. Received(i, r, u, net[i].wire)
    BY <1>1
  <1>8c. DOMAIN r = Fields /\ r.events = <<>> /\ r.out = <<>>
    BY <1>6
  <1>8. /\ NetLike(net[i], m) /\ m.wire = net[i].wire /\ m.down = net[i].down
        /\ ui' = u
        /\ DOMAIN a = Fields /\ a.events = <<>> /\ a.out = <<>>
        /\ a.conn = r.conn /\ a.init = r.init /\ a.version = r.version
        /\ a.scheme = r.scheme /\ a.tight = r.tight /\ a.clean = r.clean
        /\ a.hears = r.hears /\ a.sock = r.sock
        /\ a.timer = r.timer /\ a.retry = r.retry /\ a.screen = r.screen
        /\ a.grabbed = r.grabbed /\ a.rq = r.rq /\ a.short = r.short
        /\ a.pending = r.pending
    BY <1>8a, <1>8b, <1>8c, SilentStep
  <1> HIDE DEF a, m
  <1>9. Fits(a, m, Noise(net, i))
    <2> DEFINE b == [a EXCEPT !.retry = FALSE]
    <2>1. /\ DOMAIN b = Fields /\ b.events = <<>> /\ b.out = <<>>
          /\ b.conn = s.conn /\ b.init = s.init /\ b.version = s.version
          /\ b.scheme = s.scheme /\ b.tight = s.tight /\ b.hears = s.hears
          /\ b.sock = s.sock /\ b.timer = s.timer /\ b.screen = s.screen
          /\ b.rq = s.rq /\ b.short = s.short
          /\ b.clean = s.clean /\ ~b.retry /\ b.pending = s.pending
          /\ b.grabbed = s.grabbed
      BY <1>6, <1>8 DEF Fields
    <2> HIDE DEF b
    <2>2. Fits(b, m, Noise(net, i))
      BY <1>3, <1>8, <2>1, QuietFits
    <2>3. \A w, Q : Input(b, w, Q) <=> Input(a, w, Q)
      BY <1>6, <1>8, <2>1 DEF Input
    <2>4. AuthInput(b, m.wire, m.server) => AuthInput(a, m.wire, m.server)
      BY <1>6, <1>8, <2>1, <2>3 DEF AuthInput
    <2>5. GreetingInput(b, m.wire) => GreetingInput(a, m.wire)
      BY <2>3 DEF GreetingInput
    <2>6. Stage(b, m.wire, m.server) => Stage(a, m.wire, m.server)
      BY <1>6, <1>8, <2>1, <2>3, <2>4, <2>5 DEF Stage
    <2>7. Lists(a)
      BY <1>8, ListEmpty DEF Lists
    <2>8. Setting(b) => Setting(a)
      BY <1>6, <1>8, <2>1, <2>7 DEF Setting
    <2>9a. Unopened(b, m) => Unopened(a, m)
      BY <1>6, <1>8, <2>1 DEF Unopened
    <2>9b. Live(b, m) => Live(a, m)
      BY <1>6, <1>8, <2>1 DEF Live
    <2>9. Ending(b) => Ending(a)
      BY <1>6, <1>8, <2>1 DEF Ending
    <2>10. Waits(s, net[i].wire) => Waits(a, m.wire)
      BY <1>6, <1>8 DEF Waits
    <2>11. b.conn = a.conn /\ b.sock = a.sock /\ a.conn # "disconnected"
      BY <1>2, <1>6, <1>8, <2>1
    <2>12. QED
      BY <1>5, <1>8, <2>2, <2>6, <2>8, <2>9, <2>9a, <2>9b, <2>10, <2>11 DEF Fits
  <1>10. GoingOn(u, a)
    BY <1>6, <1>8 DEF GoingOn
  <1>11. PowerFits(u) /\ ~u.reconnect
    BY <1>4, <1>7 DEF PowerFits
  <1>12. QED
    BY <1>1, <1>2, <1>6, <1>7, <1>8, <1>9, <1>10, <1>11, HeldSilentStep DEF a, m

LEMMA ViewOnlyStep ==
  ASSUME Inv, plan' = plan, ui.cur # NONE, NEW u, AsBefore(u), NEW on,
         Callback(ui.cur, SetViewOnly(rfb[ui.cur], on), u)
  PROVE Inv' /\ KeysKept
  <1> DEFINE s == rfb[ui.cur]
             r == SetViewOnly(s, on)
  <1>1. ui.cur \in Ids /\ s.conn # "disconnected"
    BY HeldSession
  <1>2. DOMAIN s = Fields /\ s.events = <<>> /\ s.out = <<>>
    BY <1>1, SessionFacts
  <1>3. /\ DOMAIN r = Fields /\ r.events = <<>> /\ r.out = <<>>
        /\ r.conn = s.conn /\ r.init = s.init /\ r.version = s.version
        /\ r.scheme = s.scheme /\ r.tight = s.tight /\ r.hears = s.hears
        /\ r.sock = s.sock /\ r.timer = s.timer /\ r.screen = s.screen
        /\ r.rq = s.rq /\ r.short = s.short /\ r.clean = s.clean
        /\ r.retry = s.retry /\ r.pending = s.pending
    BY <1>2 DEF SetViewOnly, Fields
  <1>4. Callback(ui.cur, r, u)
    OBVIOUS
  <1> HIDE DEF r
  <1>5. QED
    BY <1>1, <1>3, <1>4, QuietStep

LEMMA PowerStep ==
  ASSUME Inv, plan' = plan, ClickPower
  PROVE Inv' /\ KeysKept
  <1> DEFINE i == ui.cur
             s == rfb[i]
             r == XvpOp(s)
             n == Note(net[i], r, net[i].wire)
  <1>1. ui.panel = "power" /\ Received(i, r, Pressed, net[i].wire)
    BY DEF ClickPower, Callback
  <1>2. DOMAIN ui = PageFields /\ ui.connected
    BY <1>1, PageDomain DEF PowerFits
  <1>3. i \in Ids /\ s.conn = "connected"
    BY <1>2, HeldSession
  <1>4. /\ Live(s, net[i]) /\ s.events = <<>> /\ s.out = <<>>
        /\ DOMAIN s = Fields /\ DOMAIN net[i] = NetFields
        /\ s.retry => Noise(net, i)
    BY <1>3, ConnectedPage
  <1>4a. s.retry => Noise(net, i)
    BY <1>3, ConnectedPage
  <1>5. AsBefore(Pressed)
    BY <1>2, PressedPage
  <1>6. /\ DOMAIN n = NetFields /\ n.wire = net[i].wire
    BY <1>4, NoteFacts
  <1> HIDE DEF n
  <1>7. Ask(n, s) = n /\ Tell(Pressed, s) = Pressed /\ Lists(s)
    BY <1>4, Silent
  <1>8. SameNet(n, n) /\ SamePage(Pressed, Pressed) /\ IsList(n.wire)
    BY <1>4, <1>5, <1>6 DEF SameNet, SamePage, Live, AsBefore
  <1>9. Lives(s, s, n, Pressed)
    BY <1>3, <1>4, <1>7, <1>8 DEF Lives, Live
  <1>10. Lives(s, r, n, Pressed)
    <2>1. CASE s.power
      <3> DEFINE e == <<"xvp">>
      <3>1. r = Send(s, e)
        BY <2>1 DEF XvpOp
      <3>2. \A server : Reply(server, e) = <<>>
        BY Replies
      <3>3. e[1] # "key"
        OBVIOUS
      <3> HIDE DEF e, r
      <3>4. QED
        BY <1>9, <3>1, <3>2, <3>3, LivesSend
    <2>2. CASE ~s.power
      <3>1. r = s
        BY <2>2 DEF XvpOp
      <3>2. QED
        BY <1>9, <3>1
    <2>3. QED
      BY <2>1, <2>2
  <1> HIDE DEF r
  <1>11. QED
    BY <1>1, <1>3, <1>4, <1>4a, <1>5, <1>10, LivesStep DEF n

-----------------------------------------------------------------------------
(* Keys.                                                                   *)

\* r is s after it has sent keys, if it may.
Typing(s, r) ==
  /\ DOMAIN r = Fields /\ Lists(r) /\ r.events = s.events
  /\ r.conn = s.conn /\ r.init = s.init /\ r.hears = s.hears /\ r.sock = s.sock
  /\ r.timer = s.timer /\ r.retry = s.retry /\ r.rq = s.rq /\ r.viewOnly = s.viewOnly

\* The guest's end of it.
Keyed(n, m) ==
  /\ DOMAIN m = NetFields /\ m.server = n.server /\ m.wire = n.wire
  /\ m.refused = n.refused /\ m.noisy = n.noisy

\* What is down after the key.
Down(down, key, on) == IF on THEN down \cup {key} ELSE down \ {key}

\* What a session that is "mute" or not has made of the keys that were down.
DownIf(mute, down, key, on) == IF mute THEN down ELSE Down(down, key, on)

LEMMA ListNothing ==
  ASSUME NEW q, IsList(q)
  PROVE q \o <<>> = q
  <1>1. PICK S : q \in Seq(S)
    BY DEF IsList
  <1>2. QED
    BY <1>1, ConcatEmptySeq

\* sendKey, and the buttons that press a key.
LEMMA SendKeyFacts ==
  ASSUME NEW s, DOMAIN s = Fields, Lists(s), s.conn = "connected", s.sock = "open",
         NEW key, NEW on, NEW n, DOMAIN Ask(n, s) = NetFields, IsList(Ask(n, s).wire)
  PROVE LET r == SendKey(s, key, on)
        IN /\ Typing(s, r) /\ Keyed(Ask(n, s), Ask(n, r))
           /\ Ask(n, r).down = DownIf(s.viewOnly, Ask(n, s).down, key, on)
  <1> DEFINE r == SendKey(s, key, on)
             e == <<"key", key, on>>
             a == Ask(n, s)
             b == Serve(a, e)
  <1>1. CASE s.viewOnly
    <2>1. r = s
      BY <1>1 DEF SendKey
    <2>2. QED
      BY <1>1, <2>1 DEF Typing, Keyed, DownIf
  <1>2. CASE ~s.viewOnly
    <2>1. r = Send(s, e)
      BY <1>2 DEF SendKey
    <2>2. e[1] = "key" /\ e[2] = key /\ e[3] = on
      OBVIOUS
    <2>3. Reply(a.server, e) = <<>>
      BY <2>2 DEF Reply
    <2>4. GuestKeys(a.down, e) = Down(a.down, key, on)
      BY <2>2 DEF GuestKeys, Down
    <2> HIDE DEF e
    <2>5. Ask(n, r) = b /\ Lists(r)
      BY <2>1, AskSend
    <2>6. a.wire \o <<>> = a.wire
      BY ListNothing
    <2> HIDE DEF a
    <2>7. b = [a EXCEPT !.wire = a.wire, !.down = GuestKeys(a.down, e)]
      BY <2>3, <2>6 DEF Serve
    <2>8. DOMAIN a = NetFields
      BY DEF a
    <2>9. Keyed(a, b) /\ b.down = GuestKeys(a.down, e)
      BY <2>7, <2>8 DEF Keyed, NetFields
    <2>10. Typing(s, r)
      BY <2>1, <2>5 DEF Typing, Send, Fields
    <2> HIDE DEF r, b
    <2>11. QED
      BY <1>2, <2>4, <2>5, <2>9, <2>10 DEF a, r, DownIf
  <1>3. QED
    BY <1>1, <1>2

\* A callback that does no more than to send keys.
LEMMA TypeStep ==
  ASSUME Inv, plan' = plan, NEW i, i = ui.cur, i \in Ids, rfb[i].conn = "connected",
         NEW r, NEW u, Received(i, r, u, net[i].wire), Typing(rfb[i], r),
         Keyed(Note(net[i], r, net[i].wire), Ask(Note(net[i], r, net[i].wire), r)),
         NEW q, AsBefore(q), u = [q EXCEPT !.mods = u.mods]
  PROVE /\ Inv' /\ ui' = u /\ ui'.cur = i /\ ui'.connected
        /\ net'[i] = Ask(Note(net[i], r, net[i].wire), r)
  <1> DEFINE n == Note(net[i], r, net[i].wire)
             a == rfb'[i]
             m == net'[i]
  <1>1. m = Ask(n, r) /\ a = Rest(r) /\ ui' = Tell(u, r)
    BY After
  <1>2. /\ DOMAIN ui = PageFields /\ PowerFits(ui)
        /\ ui.cur = Len(rfb) /\ ui.connected /\ ~ui.reconnect
        /\ ui.visual = "connected" /\ ui.status.text # "failed"
        /\ ~net[i].noisy /\ ~net[i].refused /\ ui.cur # NONE
        /\ Live(rfb[i], net[i]) /\ rfb[i].events = <<>>
        /\ DOMAIN net[i] = NetFields /\ IsServer(net[i].server)
        /\ ui.ask => \E j \in Ids : net[j].noisy
    BY ConnectedPage
  <1>2a. rfb[i].retry => Noise(net, i)
    BY ConnectedPage
  <1>3. r.events = <<>> /\ r.conn = "connected" /\ DOMAIN r = Fields
    BY <1>2 DEF Typing
  <1>4. ui' = u
    BY <1>1, <1>3, SameFold, Told!FoldEmpty DEF Tell
  <1>5. ~Rejects(r) /\ ~Late(r)
    BY <1>3 DEF Rejects, Late
  <1>6. /\ DOMAIN n = NetFields /\ n.server = net[i].server /\ n.wire = net[i].wire
        /\ ~n.refused /\ ~n.noisy
    BY <1>2, <1>5, NoteFacts
  <1> HIDE DEF n
  <1>7. /\ DOMAIN m = NetFields /\ IsServer(m.server) /\ m.wire = net[i].wire
        /\ ~m.refused /\ ~m.noisy
    BY <1>1, <1>2, <1>6 DEF Keyed, n
  <1>8. /\ DOMAIN a = Fields /\ a.events = <<>> /\ a.out = <<>>
        /\ a.conn = r.conn /\ a.init = r.init /\ a.hears = r.hears /\ a.sock = r.sock
        /\ a.timer = r.timer /\ a.retry = r.retry /\ a.rq = r.rq
    BY <1>1, <1>3, RestFacts
  <1> HIDE DEF a, m
  <1>9. Live(a, m)
    BY <1>2, <1>7, <1>8 DEF Live, Typing
  <1>10. Fits(a, m, Noise(net, i))
    BY <1>2a, <1>3, <1>7, <1>8, <1>9 DEF Fits, Typing
  <1>11. /\ DOMAIN u = PageFields /\ u.cur = i /\ u.connected /\ ~u.reconnect
         /\ u.visual = "connected" /\ u.status = ui.status
         /\ u.ask = ui.ask /\ u.power = ui.power /\ u.panel = ui.panel
    BY <1>2 DEF AsBefore, PageFields
  <1>12. PageFits(u, Len(rfb), a.conn)
    BY <1>2, <1>3, <1>8, <1>11 DEF PageFits, PowerFits
  <1>13. GoingOn(u, a)
    BY <1>3, <1>8 DEF GoingOn
  <1>14. ui'.cur = i /\ PageFits(ui', Len(rfb), a.conn) /\ GoingOn(ui', a)
         /\ (ui'.ask => \E j \in Ids : net[j].noisy)
    BY <1>2, <1>4, <1>11, <1>12, <1>13
  <1>15. rfb[i].conn # "disconnected"
    OBVIOUS
  <1>16. Inv'
    BY <1>10, <1>14, <1>15, CurStep DEF a, m
  <1>17. QED
    BY <1>1, <1>4, <1>11, <1>16 DEF m, n

\* What the callback of a key starts from.
LEMMA TypeStart ==
  ASSUME Inv, NEW i, i = ui.cur, i \in Ids, rfb[i].conn = "connected", NEW r,
         r.events = <<>>
  PROVE LET n == Note(net[i], r, net[i].wire)
        IN /\ DOMAIN rfb[i] = Fields /\ Lists(rfb[i]) /\ rfb[i].sock = "open"
           /\ rfb[i].events = <<>>
           /\ Ask(n, rfb[i]) = n /\ DOMAIN n = NetFields /\ IsList(n.wire)
           /\ n.down = net[i].down
  <1>1. /\ Live(rfb[i], net[i]) /\ rfb[i].events = <<>> /\ rfb[i].out = <<>>
        /\ DOMAIN rfb[i] = Fields /\ DOMAIN net[i] = NetFields
    BY ConnectedPage
  <1> DEFINE n == Note(net[i], r, net[i].wire)
  <1>2. DOMAIN n = NetFields /\ n.wire = net[i].wire /\ n.down = net[i].down
    BY <1>1, NoteFacts
  <1> HIDE DEF n
  <1>3. Ask(n, rfb[i]) = n /\ Lists(rfb[i])
    BY <1>1, Silent
  <1>4. QED
    BY <1>1, <1>2, <1>3 DEF Live, n

LEMMA ModifierStep ==
  ASSUME Inv, plan' = plan, ClickModifier
  PROVE Inv' /\ (KeysAgree => KeysAgree' \/ rfb[ui.cur].viewOnly)
  <1> DEFINE i == ui.cur
             s == rfb[i]
  <1>1. /\ i \in Ids /\ s.conn = "connected" /\ ui.connected
        /\ DOMAIN ui = PageFields
    <2>1. ui.visual = "connected"
      BY DEF ClickModifier
    <2>2. i \in Ids /\ s.conn = "connected"
      BY <2>1, HeldSession
    <2>3. QED
      BY <2>2, ConnectedPage
  <1>2. PICK key \in Modifiers :
          Received(i, SendKey(s, key, key \notin ui.mods),
                   [Pressed EXCEPT !.mods = IF key \notin ui.mods THEN @ \cup {key} ELSE @ \ {key}],
                   net[i].wire)
    BY DEF ClickModifier, Callback
  <1> DEFINE on == key \notin ui.mods
             r == SendKey(s, key, on)
             mods == IF on THEN ui.mods \cup {key} ELSE ui.mods \ {key}
             u == [Pressed EXCEPT !.mods = mods]
             n == Note(net[i], r, net[i].wire)
             m == Ask(n, r)
  <1>3. Pressed.mods = ui.mods /\ AsBefore(Pressed) /\ DOMAIN Pressed = PageFields
    BY <1>1, PressedPage DEF AsBefore
  <1>4. u = [Pressed EXCEPT !.mods = u.mods] /\ u.mods = mods
    BY <1>3 DEF PageFields
  <1>5. u = [Pressed EXCEPT !.mods = IF key \notin ui.mods THEN @ \cup {key} ELSE @ \ {key}]
    BY <1>3
  <1>6. Received(i, r, u, net[i].wire)
    BY <1>2, <1>5
  <1>7. r.events = s.events /\ s.events = <<>>
    <2>1. s.events = <<>> /\ DOMAIN s = Fields
      BY <1>1, SessionFacts
    <2>2. QED
      BY <2>1 DEF SendKey, Send, Fields
  <1>8. /\ DOMAIN s = Fields /\ Lists(s) /\ s.sock = "open"
        /\ Ask(n, s) = n /\ DOMAIN n = NetFields /\ IsList(n.wire)
        /\ n.down = net[i].down
    BY <1>1, <1>7, TypeStart
  <1>9. /\ Typing(s, r) /\ Keyed(n, m)
        /\ m.down = DownIf(s.viewOnly, n.down, key, on)
    <2> HIDE DEF n, on
    <2>1. DOMAIN Ask(n, s) = NetFields /\ IsList(Ask(n, s).wire)
      BY <1>8
    <2>2. DOMAIN s = Fields /\ Lists(s) /\ s.conn = "connected" /\ s.sock = "open"
      BY <1>1, <1>8
    <2>3. /\ Typing(s, r) /\ Keyed(Ask(n, s), Ask(n, r))
          /\ Ask(n, r).down = DownIf(s.viewOnly, Ask(n, s).down, key, on)
      BY <2>1, <2>2, SendKeyFacts
    <2>4. QED
      BY <1>8, <2>3
  <1> HIDE DEF r, u
  <1>10. /\ Inv' /\ ui' = u /\ ui'.cur = i /\ ui'.connected /\ net'[i] = m
    BY <1>1, <1>3, <1>4, <1>6, <1>9, TypeStep
  <1> HIDE DEF m, n
  <1>11. ASSUME KeysAgree, ~s.viewOnly PROVE KeysAgree'
    <2>1. ui.mods = net[i].down
      BY <1>1, <1>11 DEF KeysAgree
    <2>2. net'[i].down = mods
      BY <1>8, <1>9, <1>10, <1>11, <2>1 DEF DownIf, Down
    <2>3. ui'.mods = mods
      BY <1>4, <1>10
    <2>4. QED
      BY <1>10, <2>2, <2>3 DEF KeysAgree
  <1>12. QED
    BY <1>10, <1>11

\* One key of the chord.
ChordDown(s, down, e) == DownIf(s.viewOnly, down, e[1], e[2])

LEMMA ChordKey ==
  ASSUME NEW s, DOMAIN s = Fields, Lists(s), s.conn = "connected", s.sock = "open",
         NEW n, IsList(n.wire), NEW r, Typing(s, r), Keyed(n, Ask(n, r)), NEW e,
         NEW x, x = SendKeyOf(r, e)
  PROVE /\ Typing(s, x) /\ Keyed(n, Ask(n, x))
        /\ Ask(n, x).down = ChordDown(s, Ask(n, r).down, e)
  <1> DEFINE key == e[1]
             on == e[2]
             t == SendKey(r, key, on)
  <1>1. SendKeyOf(r, e) = t
    BY DEF SendKeyOf
  <1> HIDE DEF key, on
  <1>2. /\ DOMAIN r = Fields /\ Lists(r) /\ r.conn = "connected" /\ r.sock = "open"
        /\ r.viewOnly = s.viewOnly
    BY DEF Typing
  <1>3. DOMAIN Ask(n, r) = NetFields /\ IsList(Ask(n, r).wire)
    BY DEF Keyed
  <1>4. /\ Typing(r, t) /\ Keyed(Ask(n, r), Ask(n, t))
        /\ Ask(n, t).down = DownIf(r.viewOnly, Ask(n, r).down, key, on)
    BY <1>2, <1>3, SendKeyFacts
  <1> HIDE DEF t
  <1>5. Typing(s, t)
    BY <1>4 DEF Typing
  <1>6. Keyed(n, Ask(n, t))
    BY <1>4 DEF Keyed
  <1>7. QED
    BY <1>1, <1>2, <1>4, <1>5, <1>6 DEF key, on, ChordDown, Typing

LEMMA ListSix ==
  ASSUME NEW a, NEW b, NEW c, NEW d, NEW e, NEW f
  PROVE LET q == <<a, b, c, d, e, f>>
        IN /\ q \in Seq({a, b, c, d, e, f}) /\ Len(q) = 6
           /\ q[1] = a /\ q[2] = b /\ q[3] = c /\ q[4] = d /\ q[5] = e /\ q[6] = f
  OBVIOUS

\* Ctrl-Alt-Del leaves no key down that was up.
LEMMA ChordFacts ==
  ASSUME NEW s, DOMAIN s = Fields, Lists(s), s.conn = "connected", s.sock = "open",
         NEW n, DOMAIN n = NetFields, IsList(n.wire), Ask(n, s) = n
  PROVE LET r == SendCtrlAltDel(s)
        IN /\ Typing(s, r) /\ Keyed(n, Ask(n, r))
           /\ n.down = {} => Ask(n, r).down = {}
  <1> DEFINE a == <<"ctrl", TRUE>>
             b == <<"alt", TRUE>>
             c == <<"delete", TRUE>>
             d == <<"delete", FALSE>>
             e == <<"alt", FALSE>>
             f == <<"ctrl", FALSE>>
  <1>0. /\ a[1] = "ctrl" /\ a[2] /\ b[1] = "alt" /\ b[2] /\ c[1] = "delete" /\ c[2]
        /\ d[1] = "delete" /\ ~d[2] /\ e[1] = "alt" /\ ~e[2] /\ f[1] = "ctrl" /\ ~f[2]
    OBVIOUS
  <1>0a. Chord = <<a, b, c, d, e, f>>
    BY DEF Chord
  <1> HIDE DEF a, b, c, d, e, f
  <1>1. /\ Chord \in Seq({a, b, c, d, e, f}) /\ Len(Chord) = 6
        /\ Chord[1] = a /\ Chord[2] = b /\ Chord[3] = c
        /\ Chord[4] = d /\ Chord[5] = e /\ Chord[6] = f
    BY <1>0a, ListSix
  <1>2. PICK q : Typed!Runs(s, Chord, q) /\ Typed!FoldLeft(SendKeyOf, s, Chord) = q[Len(Chord)]
    BY <1>1, Typed!FoldRun
  <1>3. /\ q[0] = s /\ q[1] = SendKeyOf(q[0], a) /\ q[2] = SendKeyOf(q[1], b)
        /\ q[3] = SendKeyOf(q[2], c) /\ q[4] = SendKeyOf(q[3], d)
        /\ q[5] = SendKeyOf(q[4], e) /\ q[6] = SendKeyOf(q[5], f)
    <2>1. q[0] = s /\ \A k \in 1 .. 6 : q[k] = SendKeyOf(q[k - 1], Chord[k])
      BY <1>1, <1>2 DEF Typed!Runs
    <2>2. /\ q[1] = SendKeyOf(q[1 - 1], Chord[1]) /\ q[2] = SendKeyOf(q[2 - 1], Chord[2])
          /\ q[3] = SendKeyOf(q[3 - 1], Chord[3]) /\ q[4] = SendKeyOf(q[4 - 1], Chord[4])
          /\ q[5] = SendKeyOf(q[5 - 1], Chord[5]) /\ q[6] = SendKeyOf(q[6 - 1], Chord[6])
      BY <2>1
    <2>3. 1 - 1 = 0 /\ 2 - 1 = 1 /\ 3 - 1 = 2 /\ 4 - 1 = 3 /\ 5 - 1 = 4 /\ 6 - 1 = 5
      OBVIOUS
    <2>4. QED
      BY <1>1, <2>1, <2>2, <2>3
  <1>4. SendCtrlAltDel(s) = q[6]
    BY <1>1, <1>2, SameFold DEF SendCtrlAltDel
  <1>5. Typing(s, s) /\ Keyed(n, Ask(n, s)) /\ Ask(n, s).down = n.down
    BY DEF Typing, Keyed
  <1>6. /\ Typing(s, q[1]) /\ Keyed(n, Ask(n, q[1]))
        /\ Ask(n, q[1]).down = ChordDown(s, Ask(n, q[0]).down, a)
    <2>1. Typing(s, q[0]) /\ Keyed(n, Ask(n, q[0]))
      BY <1>3, <1>5
    <2>2. q[1] = SendKeyOf(q[0], a)
      BY <1>3
    <2>3. QED
      BY <2>1, <2>2, ChordKey
  <1>7. /\ Typing(s, q[2]) /\ Keyed(n, Ask(n, q[2]))
        /\ Ask(n, q[2]).down = ChordDown(s, Ask(n, q[1]).down, b)
    <2>1. Typing(s, q[1]) /\ Keyed(n, Ask(n, q[1]))
      BY <1>3, <1>6
    <2>2. q[2] = SendKeyOf(q[1], b)
      BY <1>3
    <2>3. QED
      BY <2>1, <2>2, ChordKey
  <1>8. /\ Typing(s, q[3]) /\ Keyed(n, Ask(n, q[3]))
        /\ Ask(n, q[3]).down = ChordDown(s, Ask(n, q[2]).down, c)
    <2>1. Typing(s, q[2]) /\ Keyed(n, Ask(n, q[2]))
      BY <1>3, <1>7
    <2>2. q[3] = SendKeyOf(q[2], c)
      BY <1>3
    <2>3. QED
      BY <2>1, <2>2, ChordKey
  <1>9. /\ Typing(s, q[4]) /\ Keyed(n, Ask(n, q[4]))
        /\ Ask(n, q[4]).down = ChordDown(s, Ask(n, q[3]).down, d)
    <2>1. Typing(s, q[3]) /\ Keyed(n, Ask(n, q[3]))
      BY <1>3, <1>8
    <2>2. q[4] = SendKeyOf(q[3], d)
      BY <1>3
    <2>3. QED
      BY <2>1, <2>2, ChordKey
  <1>10. /\ Typing(s, q[5]) /\ Keyed(n, Ask(n, q[5]))
        /\ Ask(n, q[5]).down = ChordDown(s, Ask(n, q[4]).down, e)
    <2>1. Typing(s, q[4]) /\ Keyed(n, Ask(n, q[4]))
      BY <1>3, <1>9
    <2>2. q[5] = SendKeyOf(q[4], e)
      BY <1>3
    <2>3. QED
      BY <2>1, <2>2, ChordKey
  <1>11. /\ Typing(s, q[6]) /\ Keyed(n, Ask(n, q[6]))
        /\ Ask(n, q[6]).down = ChordDown(s, Ask(n, q[5]).down, f)
    <2>1. Typing(s, q[5]) /\ Keyed(n, Ask(n, q[5]))
      BY <1>3, <1>10
    <2>2. q[6] = SendKeyOf(q[5], f)
      BY <1>3
    <2>3. QED
      BY <2>1, <2>2, ChordKey
  <1>12. n.down = {} => Ask(n, q[6]).down = {}
    BY <1>0, <1>3, <1>5, <1>6, <1>7, <1>8, <1>9, <1>10, <1>11 DEF ChordDown, DownIf, Down
  <1>13. QED
    BY <1>4, <1>11, <1>12

LEMMA CtrlAltDelStep ==
  ASSUME Inv, plan' = plan, ClickCtrlAltDel
  PROVE Inv' /\ (KeysAgree /\ ui.mods = {} => KeysAgree')
  <1> DEFINE i == ui.cur
             s == rfb[i]
             r == SendCtrlAltDel(s)
             n == Note(net[i], r, net[i].wire)
             b == Note(net[i], s, net[i].wire)
  <1>1. /\ i \in Ids /\ s.conn = "connected" /\ ui.connected
        /\ DOMAIN ui = PageFields
    <2>1. ui.visual = "connected"
      BY DEF ClickCtrlAltDel
    <2>2. i \in Ids /\ s.conn = "connected"
      BY <2>1, HeldSession
    <2>3. QED
      BY <2>2, ConnectedPage
  <1>2. Received(i, r, Pressed, net[i].wire)
    BY DEF ClickCtrlAltDel, Callback
  <1>3. Pressed.mods = ui.mods /\ AsBefore(Pressed) /\ DOMAIN Pressed = PageFields
    BY <1>1, PressedPage DEF AsBefore
  <1>4. Pressed = [Pressed EXCEPT !.mods = Pressed.mods]
    BY <1>3 DEF PageFields, Pressed
  <1>5. s.events = <<>>
    BY <1>1, SessionFacts
  <1>6. /\ DOMAIN s = Fields /\ Lists(s) /\ s.sock = "open"
        /\ Ask(b, s) = b /\ DOMAIN b = NetFields /\ IsList(b.wire)
    BY <1>1, <1>5, TypeStart
  <1>7. r.events = <<>>
    <2> HIDE DEF b
    <2>1. Typing(s, r)
      BY <1>1, <1>6, ChordFacts
    <2>2. QED
      BY <1>5, <2>1 DEF Typing
  <1> HIDE DEF b, r
  <1>8. /\ Ask(n, s) = n /\ DOMAIN n = NetFields /\ IsList(n.wire)
        /\ n.down = net[i].down
    BY <1>1, <1>7, TypeStart
  <1> HIDE DEF n
  <1>9. /\ Typing(s, r) /\ Keyed(n, Ask(n, r))
        /\ n.down = {} => Ask(n, r).down = {}
    BY <1>1, <1>6, <1>8, ChordFacts DEF r
  <1>9a. Keyed(Note(net[i], r, net[i].wire), Ask(Note(net[i], r, net[i].wire), r))
    BY <1>9 DEF n
  <1>9b. Typing(s, r)
    BY <1>9
  <1>10. /\ Inv' /\ ui' = Pressed /\ ui'.cur = i /\ ui'.connected /\ net'[i] = Ask(n, r)
    BY <1>1, <1>2, <1>3, <1>4, <1>9a, <1>9b, TypeStep DEF n
  <1>11. ASSUME KeysAgree, ui.mods = {} PROVE KeysAgree'
    <2>1. net[i].down = {}
      BY <1>1, <1>11 DEF KeysAgree
    <2>2. net'[i].down = {} /\ ui'.mods = {}
      BY <1>3, <1>8, <1>9, <1>10, <1>11, <2>1
    <2>3. QED
      BY <1>10, <2>2 DEF KeysAgree
  <1>12. QED
    BY <1>10, <1>11

-----------------------------------------------------------------------------
(* The page alone.                                                         *)

\* What a button or a timer of the page does to it: the status may go, and the
\* panel may close or be another one.
Browse(u) ==
  /\ DOMAIN u = PageFields /\ u.cur = ui.cur /\ u.connected = ui.connected
  /\ u.reconnect = ui.reconnect /\ u.visual = ui.visual /\ u.ask = ui.ask
  /\ u.mods = ui.mods /\ u.power = ui.power
  /\ u.status = ui.status \/ u.status.text = ""
  /\ u.panel = "power" => u.power

LEMMA BrowseStep ==
  ASSUME Inv, rfb' = rfb, net' = net, plan' = plan, Browse(ui')
  PROVE Inv' /\ KeysKept
  <1>1. DOMAIN ui = PageFields /\ PowerFits(ui) /\ PageFits(ui, Len(rfb), rfb[ui.cur].conn)
    BY PageDomain
  <1>2. ui'.status.text = "failed" => ui.status.text = "failed"
    BY DEF Browse
  <1>3. PageFits(ui', Len(rfb), rfb[ui.cur].conn)
    BY <1>1, <1>2 DEF PageFits, PowerFits, Browse
  <1>4. Inv'
    BY <1>2, <1>3, PageStep DEF Browse
  <1>5. KeysKept
    BY DEF KeysKept, Browse
  <1>6. QED
    BY <1>4, <1>5

LEMMA PanelStep ==
  ASSUME Inv, plan' = plan, ClickPanel
  PROVE Inv' /\ KeysKept
  <1>1. DOMAIN ui = PageFields /\ PowerFits(ui)
    BY PageDomain
  <1>2. PICK p \in {"settings", "power", "keys"} :
          (p = "power" => ui.power) /\ ui' = TogglePanel(Pressed, p)
    BY DEF ClickPanel
  <1>3. AsBefore(Pressed)
    BY <1>1, PressedPage
  <1> DEFINE u == Pressed
  <1> HIDE DEF u
  <1>4. Browse(TogglePanel(u, p))
    BY <1>1, <1>2, <1>3 DEF TogglePanel, Browse, AsBefore, PageFields, PowerFits, u
  <1>5. rfb' = rfb /\ net' = net
    BY DEF ClickPanel
  <1>6. QED
    BY <1>2, <1>4, <1>5, BrowseStep DEF u

LEMMA StatusStep ==
  ASSUME Inv, plan' = plan, ui' = HideStatus(ui), rfb' = rfb, net' = net
  PROVE Inv' /\ KeysKept
  <1>1. DOMAIN ui = PageFields /\ PowerFits(ui)
    BY PageDomain
  <1>2. Browse(HideStatus(ui))
    BY <1>1 DEF HideStatus, Browse, PageFields, PowerFits
  <1>3. QED
    BY <1>2, BrowseStep

LEMMA CloseBar ==
  ASSUME NEW u, AsBefore(u), PowerFits(ui)
  PROVE Browse(CloseControlbar(u)) /\ Browse([u EXCEPT !.bar = TRUE])
  BY DEF CloseControlbar, Browse, AsBefore, PageFields, PowerFits

LEMMA HandleStep ==
  ASSUME Inv, plan' = plan, ClickHandle
  PROVE Inv' /\ KeysKept
  <1>1. DOMAIN ui = PageFields /\ PowerFits(ui)
    BY PageDomain
  <1>2. AsBefore(Pressed)
    BY <1>1, PressedPage
  <1>3. /\ ui' = IF Pressed.bar THEN CloseControlbar(Pressed)
                 ELSE [Pressed EXCEPT !.bar = TRUE]
        /\ rfb' = rfb /\ net' = net
    BY DEF ClickHandle
  <1>4. Browse(CloseControlbar(Pressed)) /\ Browse([Pressed EXCEPT !.bar = TRUE])
    BY <1>1, <1>2, CloseBar
  <1>5. Browse(ui')
    BY <1>3, <1>4
  <1>6. QED
    BY <1>3, <1>5, BrowseStep

LEMMA BarStep ==
  ASSUME Inv, plan' = plan, ControlbarTimeout
  PROVE Inv' /\ KeysKept
  <1>1. DOMAIN ui = PageFields /\ PowerFits(ui)
    BY PageDomain
  <1>2. AsBefore([ui EXCEPT !.barTimer = FALSE])
    BY <1>1 DEF AsBefore, PageFields
  <1>3. Browse(CloseControlbar([ui EXCEPT !.barTimer = FALSE]))
    BY <1>1, <1>2, CloseBar
  <1>4. rfb' = rfb /\ net' = net /\ ui' = CloseControlbar([ui EXCEPT !.barTimer = FALSE])
    BY DEF ControlbarTimeout
  <1>5. QED
    BY <1>3, <1>4, BrowseStep

\* A step of a page that holds no session and does not start one.
LEMMA IdleStep ==
  ASSUME Inv, rfb' = rfb, net' = net, plan' = plan, ui.cur = NONE,
         DOMAIN ui' = PageFields, ui'.cur = NONE, ui'.connected = ui.connected,
         ~ui'.reconnect,
         ui'.visual \notin {"connecting", "connected", "disconnecting"},
         ui'.ask => ui.ask, ui'.status = ui.status, ~ui'.power, ui'.panel # "power"
  PROVE Inv' /\ KeysKept
  <1>1. PageFits(ui, Len(rfb), rfb[ui.cur].conn)
    BY PageDomain
  <1>2. PageFits(ui', Len(rfb), rfb[ui.cur].conn) /\ ~ui.connected
    BY <1>1 DEF PageFits, PowerFits
  <1>3. Inv'
    BY <1>2, PageStep
  <1>4. QED
    BY <1>2, <1>3 DEF KeysKept

LEMMA CancelStep ==
  ASSUME Inv, plan' = plan, CancelReconnect
  PROVE Inv' /\ KeysKept
  <1>1. PageFits(ui, Len(rfb), rfb[ui.cur].conn) /\ DOMAIN ui = PageFields
    BY PageDomain
  <1>2. ui.visual = "reconnecting" /\ rfb' = rfb /\ net' = net
    BY DEF CancelReconnect
  <1>3. ui.cur = NONE /\ ~ui.connected
    BY <1>1, <1>2 DEF PageFits
  <1> DEFINE v == [ui EXCEPT !.reconnect = FALSE]
             u == UpdateVisualState(v, "disconnected")
  <1>4. /\ DOMAIN v = PageFields /\ v.cur = NONE /\ ~v.connected /\ ~v.reconnect
        /\ v.status = ui.status /\ v.connected = ui.connected
    BY <1>1, <1>3 DEF PageFields
  <1>5. ui' = [u EXCEPT !.bar = TRUE, !.dlg = TRUE]
    BY DEF CancelReconnect
  <1> HIDE DEF v
  <1>6. /\ DOMAIN u = PageFields
        /\ u.cur = v.cur /\ u.connected = v.connected /\ u.reconnect = v.reconnect
        /\ u.visual = "disconnected" /\ ~u.ask /\ u.status = v.status
        /\ ~u.power /\ u.panel # "power"
    BY <1>4, VisualPage
  <1> HIDE DEF u
  <1>7. /\ DOMAIN ui' = PageFields
        /\ ui'.cur = NONE /\ ui'.connected = ui.connected /\ ~ui'.reconnect
        /\ ui'.visual = "disconnected" /\ ~ui'.ask /\ ui'.status = ui.status
        /\ ~ui'.power /\ ui'.panel # "power"
    BY <1>4, <1>5, <1>6 DEF PageFields
  <1>8. QED
    BY <1>2, <1>3, <1>7, IdleStep

LEMMA SetPasswordStep ==
  ASSUME Inv, plan' = plan, SetPassword
  PROVE Inv' /\ KeysKept
  <1>1. ui.ask
    BY DEF SetPassword
  <1>2. CASE ui.cur = NONE
    <2>1. ui' = ui /\ rfb' = rfb /\ net' = net
      BY <1>2 DEF SetPassword
    <2>2. DOMAIN ui = PageFields /\ PowerFits(ui)
      BY PageDomain
    <2>3. Browse(ui')
      BY <2>1, <2>2 DEF Browse, PowerFits
    <2>4. QED
      BY <2>1, <2>3, BrowseStep
  <1>3. CASE ui.cur # NONE
    <2>1. PICK given \in BOOLEAN :
            Callback(ui.cur, SendCredentials(rfb[ui.cur], given),
                     [ui EXCEPT !.password = given, !.ask = FALSE])
      BY <1>3 DEF SetPassword
    <2>2. QED
      BY <1>1, <1>3, <2>1, PasswordStep
  <1>4. QED
    BY <1>2, <1>3

LEMMA ClickViewOnlyStep ==
  ASSUME Inv, plan' = plan, ClickViewOnly
  PROVE Inv' /\ KeysKept
  <1> DEFINE u == [Pressed EXCEPT !.viewOnly = ~@]
  <1>1. DOMAIN ui = PageFields /\ PowerFits(ui)
    BY PageDomain
  <1>2. AsBefore(Pressed)
    BY <1>1, PressedPage
  <1>3. AsBefore(u)
    BY <1>2 DEF AsBefore, PageFields
  <1>4. IF ui.cur = NONE THEN ui' = u /\ rfb' = rfb /\ net' = net
        ELSE Callback(ui.cur, SetViewOnly(rfb[ui.cur], u.viewOnly), u)
    BY DEF ClickViewOnly
  <1> HIDE DEF u
  <1>5. CASE ui.cur = NONE
    <2>1. Browse(u)
      BY <1>1, <1>3 DEF AsBefore, Browse, PowerFits
    <2>2. QED
      BY <1>4, <1>5, <2>1, BrowseStep
  <1>6. CASE ui.cur # NONE
    BY <1>3, <1>4, <1>6, ViewOnlyStep
  <1>7. QED
    BY <1>5, <1>6

\* A reconnection that has been inhibited.
LEMMA InhibitedStep ==
  ASSUME Inv, plan' = plan, ui' = [ui EXCEPT !.reconnect = FALSE], ui.reconnect,
         rfb' = rfb, net' = net
  PROVE Inv' /\ KeysKept
  <1>1. PageFits(ui, Len(rfb), rfb[ui.cur].conn) /\ DOMAIN ui = PageFields /\ PowerFits(ui)
    BY PageDomain
  <1>2. ui.cur = NONE /\ ui.visual = "reconnecting" /\ ~ui.connected
    BY <1>1 DEF PageFits
  <1>3. /\ DOMAIN ui' = PageFields /\ ui'.cur = NONE /\ ui'.connected = ui.connected
        /\ ~ui'.reconnect /\ ui'.visual = "reconnecting" /\ ui'.ask = ui.ask
        /\ ui'.status = ui.status /\ ui'.power = ui.power /\ ui'.panel = ui.panel
    BY <1>1, <1>2 DEF PageFields
  <1>4. ~ui'.power /\ ui'.panel # "power"
    BY <1>1, <1>2, <1>3 DEF PowerFits
  <1>5. QED
    BY <1>2, <1>3, <1>4, IdleStep

-----------------------------------------------------------------------------
(* A new session.                                                          *)

LEMMA NewSessionFacts ==
  ASSUME NEW password, NEW viewOnly
  PROVE LET r == SetViewOnly(NewSession(password), viewOnly)
        IN /\ DOMAIN r = Fields /\ r.events = <<>> /\ r.out = <<>>
           /\ r.conn = "" /\ r.init = "" /\ r.sock = "none" /\ r.hears = Hearing
           /\ r.rq = <<>> /\ ~r.short /\ ~r.timer /\ ~r.pending /\ ~r.tight /\ ~r.retry
  <1> DEFINE s == NewSession(password)
  <1>1. /\ DOMAIN s = Fields /\ s.events = <<>> /\ s.out = <<>>
        /\ s.conn = "" /\ s.init = "" /\ s.sock = "none" /\ s.hears = Hearing
        /\ s.rq = <<>> /\ ~s.short /\ ~s.timer /\ ~s.pending /\ ~s.tight /\ ~s.retry
    BY DEF NewSession, Fields, Hearing
  <1> HIDE DEF s
  <1>2. QED
    BY <1>1 DEF SetViewOnly, Fields, s

LEMMA PlannedServer ==
  ASSUME Inv, Len(rfb) < Len(plan)
  PROVE IsServer(plan[Len(rfb) + 1]) /\ Len(rfb) + 1 <= Len(plan)
  <1>1. plan \in Plans /\ IsList(rfb)
    BY DEF Inv
  <1>2. plan \in Seq({plan[k] : k \in DOMAIN plan}) /\ \A k \in DOMAIN plan : IsServer(plan[k])
    BY <1>1, PlansAssumption
  <1>3. Len(rfb) \in Nat
    BY <1>1, ListAppend
  <1>4. Len(plan) \in Nat /\ DOMAIN plan = 1 .. Len(plan)
    BY <1>2
  <1>5. Len(rfb) + 1 \in DOMAIN plan /\ Len(rfb) + 1 <= Len(plan)
    BY <1>3, <1>4
  <1>6. QED
    BY <1>2, <1>5

LEMMA NewStep ==
  ASSUME Inv, plan' = plan, NEW u, NEW password, NewConnection(u, password),
         DOMAIN u = PageFields, u.cur = ui.cur, ~u.reconnect,
         u.connected = ui.connected
  PROVE Inv' /\ KeysKept
  <1> DEFINE k == Len(rfb)
             r == SetViewOnly(NewSession(password), u.viewOnly)
             n == [server |-> plan[k + 1], sent |-> 0,
                   wire |-> <<Msg("version", plan[k + 1].greets)>>,
                   down |-> {}, refused |-> FALSE, noisy |-> FALSE]
             h == HideStatus(u)
             v == [h EXCEPT !.panel = "none", !.dlg = FALSE,
                            !.password = password, !.cur = k + 1]
  <1>1. /\ k < Len(plan) /\ u.cur = NONE /\ ui' = UpdateVisualState(v, "connecting")
        /\ rfb' = Append(rfb, r) /\ net' = Append(net, n)
    BY DEF NewConnection
  <1>2. /\ DOMAIN r = Fields /\ r.events = <<>> /\ r.out = <<>>
        /\ r.conn = "" /\ r.init = "" /\ r.sock = "none" /\ r.hears = Hearing
        /\ r.rq = <<>> /\ ~r.short /\ ~r.timer /\ ~r.pending /\ ~r.tight /\ ~r.retry
    BY NewSessionFacts
  <1>3. IsServer(plan[k + 1]) /\ k + 1 <= Len(plan)
    BY <1>1, PlannedServer
  <1>4. /\ DOMAIN n = NetFields /\ IsServer(n.server) /\ ~n.refused /\ ~n.noisy
        /\ n.wire = Greeting(n)
    BY <1>3 DEF NetFields, Greeting
  <1>5. /\ DOMAIN h = PageFields /\ h.status.text = "" /\ h.connected = u.connected
        /\ h.reconnect = u.reconnect
    BY DEF HideStatus, PageFields
  <1> HIDE DEF r, n, h
  <1>6. /\ DOMAIN v = PageFields /\ v.status = h.status /\ v.cur = k + 1
        /\ v.reconnect = h.reconnect
    BY <1>5 DEF PageFields
  <1> HIDE DEF v
  <1>7. ~ui.connected /\ PageFits(ui, k, rfb[ui.cur].conn)
    BY <1>1, PageDomain DEF PageFits
  <1>8. ~u.connected => ~v.connected
    BY <1>5 DEF v, PageFields
  <1> DEFINE w == UpdateVisualState(v, "connecting")
  <1>9. /\ DOMAIN w = PageFields
        /\ w.cur = v.cur /\ w.connected = v.connected /\ w.reconnect = v.reconnect
        /\ w.visual = "connecting" /\ ~w.ask /\ w.status = v.status
        /\ ~v.connected => ~w.power /\ w.panel # "power"
    BY <1>6, VisualPage
  <1> HIDE DEF w
  <1>10. IsList(rfb) /\ IsList(net) /\ Len(net) = k
    BY DEF Inv
  <1>11. /\ IsList(rfb') /\ k \in Nat /\ Len(rfb') = k + 1
         /\ \A j \in 1 .. k : rfb'[j] = rfb[j]
         /\ rfb'[k + 1] = r
    BY <1>1, <1>10, ListAppend
  <1>12. /\ IsList(net') /\ Len(net') = k + 1
         /\ \A j \in 1 .. k : net'[j] = net[j]
         /\ net'[k + 1] = n
    BY <1>1, <1>10, ListAppend
  <1> HIDE DEF k
  <1>13. Ids' = 1 .. k + 1 /\ Ids = 1 .. k
    BY <1>11 DEF Ids, k
  <1>14. \A j \in Ids' : j \in Ids \/ j = k + 1
    BY <1>11, <1>13
  <1>15. Fits(r, n, Noise(net', k + 1))
    <2>1. Unopened(r, n)
      BY <1>2, <1>4 DEF Unopened
    <2>2. QED
      BY <1>2, <1>4, <2>1 DEF Fits
  <1>16. ASSUME NEW j \in Ids
         PROVE /\ Fits(rfb'[j], net'[j], Noise(net', j))
               /\ rfb'[j].conn = "disconnected"
    <2>1. \A i \in 1 .. j - 1 : i \in 1 .. k
      BY <1>11, <1>13
    <2>2. Noise(net, j) => Noise(net', j)
      BY <1>12, <2>1 DEF Noise
    <2>3. Fits(rfb[j], net[j], Noise(net, j))
      BY DEF Inv
    <2>4. j # ui.cur
      BY <1>1, <1>13, <1>11 DEF NONE
    <2>5. rfb[j].conn = "disconnected"
      BY <2>4 DEF Inv
    <2>6. rfb'[j] = rfb[j] /\ net'[j] = net[j]
      BY <1>11, <1>12, <1>13
    <2>7. Fits(rfb[j], net[j], Noise(net', j))
      BY <2>2, <2>3, FitsMore
    <2>8. QED
      BY <2>5, <2>6, <2>7
  <1>17. \A j \in Ids' : Fits(rfb'[j], net'[j], Noise(net', j))
    BY <1>11, <1>12, <1>14, <1>15, <1>16
  <1>18a. ui' = w
    BY <1>1 DEF w
  <1>18b. k + 1 # NONE
    BY <1>11 DEF NONE
  <1>18. ui' = w /\ ui'.cur = k + 1 /\ ~ui'.ask /\ ui'.status.text = "" /\ k + 1 # NONE
    BY <1>5, <1>6, <1>9, <1>18a, <1>18b
  <1>19. \A j \in Ids' : j # ui'.cur => rfb'[j].conn = "disconnected"
    BY <1>14, <1>16, <1>18
  <1>20. rfb'[ui'.cur] = r
    BY <1>11, <1>18
  <1>21. ~w.connected /\ ~w.power /\ w.panel # "power" /\ ~w.reconnect
    <2>1. ~u.connected
      BY <1>7
    <2>2. QED
      BY <1>5, <1>6, <1>8, <1>9, <2>1
  <1>22. PageFits(ui', k + 1, r.conn)
    BY <1>2, <1>6, <1>9, <1>18, <1>21 DEF PageFits, PowerFits
  <1>23. GoingOn(ui', rfb'[ui'.cur])
    BY <1>2, <1>20 DEF GoingOn
  <1>24. RefusalShown'
    BY <1>18 DEF RefusalShown
  <1>25. plan' \in Plans /\ Len(rfb') <= Len(plan')
    BY <1>3, <1>11 DEF Inv, k
  <1>26. PageFits(ui', Len(rfb'), rfb'[ui'.cur].conn)
    BY <1>11, <1>20, <1>22
  <1>27. Inv'
    BY <1>11, <1>12, <1>17, <1>18, <1>19, <1>23, <1>24, <1>25, <1>26 DEF Inv
  <1>28. QED
    BY <1>7, <1>27 DEF KeysKept

LEMMA ConnectPressed ==
  ASSUME Inv, plan' = plan, Connect_
  PROVE Inv' /\ KeysKept
  <1>1. PageFits(ui, Len(rfb), rfb[ui.cur].conn) /\ DOMAIN ui = PageFields
    BY PageDomain
  <1>2. ~Covered /\ NewConnection(ui, WantsPassword)
    BY DEF Connect_
  <1>3. ~ui.reconnect
    BY <1>1, <1>2 DEF PageFits, Covered
  <1>4. QED
    BY <1>1, <1>2, <1>3, NewStep

LEMMA ReconnectStep ==
  ASSUME Inv, plan' = plan, Reconnect
  PROVE Inv' /\ KeysKept
  <1> DEFINE u == [ui EXCEPT !.reconnect = FALSE]
  <1>1. DOMAIN ui = PageFields
    BY PageDomain
  <1>2. DOMAIN u = PageFields /\ u.cur = ui.cur /\ ~u.reconnect /\ u.connected = ui.connected
    BY <1>1 DEF PageFields
  <1>3. /\ ui.reconnect
        /\ IF u.inhibit THEN ui' = u /\ rfb' = rfb /\ net' = net
           ELSE NewConnection(u, u.password)
    BY DEF Reconnect
  <1>4. CASE u.inhibit
    BY <1>3, <1>4, InhibitedStep
  <1> HIDE DEF u
  <1>5. CASE ~u.inhibit
    BY <1>2, <1>3, <1>5, NewStep
  <1>6. QED
    BY <1>4, <1>5

-----------------------------------------------------------------------------
(* All steps.                                                              *)

LEMMA InitInv == Init => Inv
  <1>1. SUFFICES ASSUME Init PROVE Inv
    OBVIOUS
  <1>2. /\ rfb = <<>> /\ net = <<>> /\ plan \in Plans
        /\ DOMAIN ui = PageFields /\ ui.cur = NONE /\ ~ui.connected /\ ~ui.reconnect
        /\ ui.visual = "init" /\ ~ui.ask /\ ui.status.text = ""
        /\ ~ui.power /\ ui.panel = "none"
    <2>1. rfb = <<>> /\ net = <<>> /\ plan \in Plans
      BY <1>1 DEF Init
    <2>2. PICK reconnect \in BOOLEAN, viewOnly \in BOOLEAN :
            ui = [cur |-> NONE, connected |-> FALSE, inhibit |-> TRUE,
                  reconnect |-> FALSE, password |-> FALSE,
                  wantsReconnect |-> reconnect, viewOnly |-> viewOnly,
                  visual |-> "init", dlg |-> TRUE, ask |-> FALSE,
                  status |-> [kind |-> "none", text |-> ""], hide |-> FALSE,
                  bar |-> TRUE, barTimer |-> FALSE, panel |-> "none",
                  power |-> FALSE, mods |-> {}]
      BY <1>1 DEF Init
    <2>3. /\ ui.cur = NONE /\ ui.connected = FALSE /\ ui.reconnect = FALSE
          /\ ui.visual = "init" /\ ui.ask = FALSE
          /\ ui.status = [kind |-> "none", text |-> ""]
          /\ ui.power = FALSE /\ ui.panel = "none"
      BY <2>2
    <2>4. DOMAIN ui = PageFields
      BY <2>2 DEF PageFields
    <2>5. ui.status.text = ""
      <3>1. [kind |-> "none", text |-> ""].text = ""
        OBVIOUS
      <3>2. QED
        BY <2>3, <3>1
    <2>6. ~ui.connected /\ ~ui.reconnect /\ ~ui.ask /\ ~ui.power
      BY <2>3
    <2>7. QED
      BY <2>1, <2>3, <2>4, <2>5, <2>6
  <1>3. IsList(rfb) /\ IsList(net) /\ Len(net) = Len(rfb) /\ Len(rfb) = 0
    BY <1>2, ListEmpty
  <1>4. Ids = {}
    BY <1>3 DEF Ids
  <1>5. Len(rfb) <= Len(plan)
    <2>1. plan \in Seq({plan[k] : k \in DOMAIN plan})
      BY <1>2, PlansAssumption
    <2>2. Len(plan) \in Nat
      BY <2>1
    <2>3. QED
      BY <1>3, <2>2
  <1>6. PageFits(ui, Len(rfb), rfb[ui.cur].conn)
    BY <1>2 DEF PageFits, PowerFits
  <1>7. RefusalShown
    BY <1>2 DEF RefusalShown
  <1>8. QED
    BY <1>2, <1>3, <1>4, <1>5, <1>6, <1>7 DEF Inv

LEMMA TimersStep ==
  ASSUME Inv, plan' = plan, NEW i \in Ids, Timers(i)
  PROVE Inv' /\ KeysKept
  <1>1. CASE StartTimeout(i)
    <2>1. PICK refuses \in Refusals : Callback(i, Connect(rfb[i], ~refuses), ui)
      BY <1>1 DEF StartTimeout
    <2> DEFINE opens == ~refuses
    <2>2. opens \in BOOLEAN /\ Callback(i, Connect(rfb[i], opens), ui)
      BY <2>1
    <2> HIDE DEF opens
    <2>3. QED
      BY <2>2, StartStep
  <1>2. CASE DisconnTimeout(i)
    BY <1>2, DisconnStep DEF DisconnTimeout
  <1>3. CASE RetryTimeout(i)
    <2>1. PICK enough \in BOOLEAN : Callback(i, CredentialsTimeout(rfb[i], enough), ui)
      BY <1>3 DEF RetryTimeout
    <2>2. rfb[i].retry
      BY <1>3 DEF RetryTimeout
    <2>3. QED
      BY <2>1, <2>2, RetryStep
  <1>4. QED
    BY <1>1, <1>2, <1>3 DEF Timers

LEMMA NetworkStep ==
  ASSUME Inv, plan' = plan, NEW i \in Ids, Network(i)
  PROVE Inv' /\ KeysKept
  <1>1. CASE SocketOpens(i)
    BY <1>1, OpenStep DEF SocketOpens
  <1>2. CASE ServerSends(i)
    <2>1. PICK e \in net[i].server.sends :
            net' = [net EXCEPT ![i].wire = Append(@, e), ![i].sent = @ + 1]
      BY <1>2 DEF ServerSends
    <2>2. /\ ui' = ui /\ rfb' = rfb /\ rfb[i].sock = "open"
          /\ rfb[i].init = "ServerInitialisation"
      BY <1>2 DEF ServerSends
    <2> DEFINE m == [net[i] EXCEPT !.wire = Append(@, e), !.sent = @ + 1]
    <2>3. DOMAIN net[i] = NetFields
      BY SessionFacts
    <2>4. /\ DOMAIN m = NetFields
          /\ m.server = net[i].server /\ m.wire = Append(net[i].wire, e)
          /\ m.down = net[i].down /\ m.refused = net[i].refused /\ m.noisy = net[i].noisy
      BY <2>3 DEF NetFields
    <2>5. net' = [net EXCEPT ![i] = m]
      <3>1. IsList(net) /\ Len(net) = Len(rfb)
        BY DEF Inv
      <3>2. PICK S : net \in Seq(S)
        BY <3>1 DEF IsList
      <3>3. i \in DOMAIN net
        BY <3>1, <3>2 DEF Ids
      <3>4. QED
        BY <2>1, <3>3
    <2> HIDE DEF m
    <2>6. QED
      BY <2>2, <2>4, <2>5, SendsStep
  <1>3. CASE SocketReceives(i)
    <2>1. PICK k \in 0 .. Len(net[i].wire), partial \in BOOLEAN, enough \in BOOLEAN :
            /\ k = 0 => rfb[i].short /\ ~partial
            /\ Received(i, OnMessage(rfb[i], SubSeq(net[i].wire, 1, k), partial, enough),
                        ui, SubSeq(net[i].wire, k + 1, Len(net[i].wire)))
      BY <1>3 DEF SocketReceives
    <2>2. rfb[i].sock = "open"
      BY <1>3 DEF SocketReceives
    <2>3. QED
      BY <2>1, <2>2, ReceiveStep
  <1>4. CASE SocketCloses(i)
    BY <1>4, CloseStep DEF SocketCloses
  <1>5. CASE DisplayFlushes(i)
    <2>1. PICK enough \in BOOLEAN : Callback(i, OnFlush(rfb[i], enough), ui)
      BY <1>5 DEF DisplayFlushes
    <2>2. rfb[i].pending
      BY <1>5 DEF DisplayFlushes
    <2>3. QED
      BY <2>1, <2>2, FlushStep
  <1>6. QED
    BY <1>1, <1>2, <1>3, <1>4, <1>5 DEF Network

\* What a step may do to the keys that are pressed.
KeysStay ==
  \/ KeysKept
  \/ ClickModifier /\ (KeysAgree => KeysAgree' \/ rfb[ui.cur].viewOnly)
  \/ ClickCtrlAltDel /\ (KeysAgree /\ ui.mods = {} => KeysAgree')

LEMMA NextInv == Inv /\ [Next]_vars => Inv' /\ (KeysStay \/ UNCHANGED vars)
  <1>1. SUFFICES ASSUME Inv, [Next]_vars PROVE Inv' /\ (KeysStay \/ UNCHANGED vars)
    OBVIOUS
  <1>2. CASE UNCHANGED vars
    <2>1. ui' = ui /\ rfb' = rfb /\ net' = net /\ plan' = plan
      BY <1>2 DEF vars
    <2>2. DOMAIN ui = PageFields /\ PowerFits(ui)
      BY <1>1, PageDomain
    <2>3. Browse(ui')
      BY <2>1, <2>2 DEF Browse, PowerFits
    <2>4. QED
      BY <1>1, <1>2, <2>1, <2>3, BrowseStep
  <1>3. CASE Next
    <2>1. plan' = plan
      BY <1>3 DEF Next
    <2>2. CASE Connect_
      BY <1>1, <2>1, <2>2, ConnectPressed DEF KeysStay
    <2>3. CASE ClickDisconnect
      BY <1>1, <2>1, <2>3, DisconnectStep DEF KeysStay
    <2>4. CASE CancelReconnect
      BY <1>1, <2>1, <2>4, CancelStep DEF KeysStay
    <2>5. CASE SetPassword
      BY <1>1, <2>1, <2>5, SetPasswordStep DEF KeysStay
    <2>6. CASE ClickStatus
      BY <1>1, <2>1, <2>6, StatusStep DEF KeysStay, ClickStatus
    <2>7. CASE ClickPanel
      BY <1>1, <2>1, <2>7, PanelStep DEF KeysStay
    <2>8. CASE ClickViewOnly
      BY <1>1, <2>1, <2>8, ClickViewOnlyStep DEF KeysStay
    <2>9. CASE ClickModifier
      BY <1>1, <2>1, <2>9, ModifierStep DEF KeysStay
    <2>10. CASE ClickCtrlAltDel
      BY <1>1, <2>1, <2>10, CtrlAltDelStep DEF KeysStay
    <2>11. CASE ClickPower
      BY <1>1, <2>1, <2>11, PowerStep DEF KeysStay
    <2>12. CASE ClickHandle
      BY <1>1, <2>1, <2>12, HandleStep DEF KeysStay
    <2>13. CASE Reconnect
      BY <1>1, <2>1, <2>13, ReconnectStep DEF KeysStay
    <2>14. CASE StatusTimeout
      BY <1>1, <2>1, <2>14, StatusStep DEF KeysStay, StatusTimeout
    <2>15. CASE ControlbarTimeout
      BY <1>1, <2>1, <2>15, BarStep DEF KeysStay
    <2>16. ASSUME NEW i \in Ids, Timers(i) PROVE Inv' /\ KeysStay
      BY <1>1, <2>1, <2>16, TimersStep DEF KeysStay
    <2>17. ASSUME NEW i \in Ids, Network(i) PROVE Inv' /\ KeysStay
      BY <1>1, <2>1, <2>17, NetworkStep DEF KeysStay
    <2>18. QED
      BY <1>3, <2>2, <2>3, <2>4, <2>5, <2>6, <2>7, <2>8, <2>9, <2>10, <2>11, <2>12,
         <2>13, <2>14, <2>15, <2>16, <2>17 DEF Next, User
  <1>4. QED
    BY <1>1, <1>2, <1>3

\* The invariant of the page and its sessions holds in every state.
THEOREM Invariance == Spec => []Inv
  BY InitInv, NextInv, PTL DEF Spec

\* What the invariant says of the properties.
LEMMA InvApart == Inv => SessionsApart
  <1>1. SUFFICES ASSUME Inv PROVE SessionsApart
    OBVIOUS
  <1>2. PageFits(ui, Len(rfb), rfb[ui.cur].conn)
    BY <1>1 DEF Inv
  <1>3. \A i \in Ids : i # ui.cur => rfb[i].conn = "disconnected"
    BY <1>1 DEF Inv
  <1>4. ui.cur # NONE => rfb[ui.cur].conn # "disconnected"
    BY <1>2 DEF PageFits
  <1>5. ui.connected <=> (ui.cur # NONE /\ rfb[ui.cur].conn = "connected")
    BY <1>2 DEF PageFits
  <1>6. ui.reconnect => ui.cur = NONE /\ ui.visual = "reconnecting"
    BY <1>2 DEF PageFits
  <1>7. ui.ask => \/ ui.cur # NONE /\ rfb[ui.cur].conn = "connecting"
                  \/ \E i \in Ids : net[i].noisy
    BY <1>1 DEF Inv, Waits
  <1>8. OneSession
    BY <1>3, <1>4, <1>5, <1>6, <1>7 DEF OneSession
  <1>9. ASSUME NEW i \in Ids, rfb[i].conn = "disconnected"
        PROVE Dead(rfb[i], net[i], Noise(net, i))
    <2>1. Fits(rfb[i], net[i], Noise(net, i))
      BY <1>1 DEF Inv
    <2>2. QED
      BY <1>9, <2>1 DEF Fits, Setting
  <1>10. LeftoversExplained
    BY <1>9 DEF LeftoversExplained, Dead, Noise
  <1>11. QED
    BY <1>8, <1>10 DEF SessionsApart

LEMMA InvGoesOn == Inv => HandshakeGoesOn
  <1>1. SUFFICES ASSUME Inv PROVE HandshakeGoesOn
    OBVIOUS
  <1>2. SUFFICES ASSUME NEW i \in Ids,
                        rfb[i].conn = "connecting", rfb[i].sock = "open", Whole(rfb[i])
                 PROVE \/ ui.ask \/ rfb[i].retry
                       \/ rfb[i].init = "SecurityResult" /\ rfb[i].scheme = "tight"
    BY DEF HandshakeGoesOn
  <1>3. i = ui.cur
    BY <1>1, <1>2 DEF Inv
  <1>4. i # NONE
    BY DEF Ids, NONE
  <1>5. GoingOn(ui, rfb[i])
    BY <1>1, <1>3, <1>4 DEF Inv
  <1>6. QED
    BY <1>2, <1>5 DEF GoingOn, LeftAlone

\* SessionsApart: there is never more than one live session, which is the one
\* that the page holds, and what a session leaves behind, a socket that never
\* opened, a grabbed keyboard or events after its end, has one of the causes
\* listed there (UI.connect, UI.disconnectFinished, RFB._updateConnectionState).
THEOREM SessionsApartHolds == Spec => []SessionsApart
  BY Invariance, InvApart, PTL

\* HandshakeGoesOn: a session that is being set up does not sit on a whole
\* message of the server, but for the one case given there (RFB._init_msg).
THEOREM HandshakeGoesOnHolds == Spec => []HandshakeGoesOn
  BY Invariance, InvGoesOn, PTL

LEMMA InvShown == Inv => RefusalShown
  BY DEF Inv

\* RefusalShown: a server's refusal is not covered up by the failure that
\* follows from it, unless it was read after the session's end (UI.showStatus,
\* RFB._fail).
THEOREM RefusalShownHolds == Spec => []RefusalShown
  BY Invariance, InvShown, PTL

\* KeysInStep: within a connection that is not view only, the buttons of the
\* keys and the guest part only by Ctrl-Alt-Del pressed while a button is
\* (UI.toggleCtrl, UI.sendCtrlAltDel, RFB.sendKey).
THEOREM KeysInStepHolds == Spec => KeysInStep
  <1>1. ASSUME KeysStay, KeysAgree, ~KeysAgree'
        PROVE \/ ~ui.connected \/ rfb[ui.cur].viewOnly
              \/ ClickCtrlAltDel /\ ui.mods # {}
    <2>1. CASE KeysKept
      <3>1. ui'.connected /\ ui'.mods # net'[ui'.cur].down
        BY <1>1 DEF KeysAgree
      <3>2. ui.connected => ui.mods = net[ui.cur].down
        BY <1>1 DEF KeysAgree
      <3>3. QED
        BY <2>1, <3>1, <3>2 DEF KeysKept
    <2>2. QED
      BY <1>1, <2>1 DEF KeysStay
  <1>2. ASSUME Inv, [Next]_vars
        PROVE [KeysAgree /\ ~KeysAgree' =>
                 \/ ~ui.connected \/ rfb[ui.cur].viewOnly
                 \/ ClickCtrlAltDel /\ ui.mods # {}]_vars
    BY <1>1, <1>2, NextInv
  <1>3. QED
    BY <1>2, Invariance, PTL DEF Spec, KeysInStep
=============================================================================
