----------------------------- MODULE TermParser -----------------------------
(***************************************************************************)
(* From the guest's characters to the calls of the handlers                *)
(* (StringToUtf32, EscapeSequenceParser and its transition table in        *)
(* xterm.js).  A character is named: the classes the table tells apart are *)
(* the sets below, with the few members that the runs feed (bq is the      *)
(* backquote).  The parser is a value; `calls' is what it has called, one  *)
(* entry for each handler call and one for each printed character.         *)
(***************************************************************************)
EXTENDS Integers, Sequences
LOCAL INSTANCE SequencesExt

Digits == {"0", "1", "2", "3", "4", "7", "8"}
Digit(c) == CASE c = "1" -> 1 [] c = "2" -> 2 [] c = "3" -> 3 [] c = "4" -> 4
              [] c = "7" -> 7 [] c = "8" -> 8 [] OTHER -> 0
Privates == {"?", ">"}                      \* 3c to 3f
Intermediates == {"$", "!", "("}            \* 20 to 2f
Finals == {"@", "A", "B", "C", "D", "E", "F", "G", "H", "I", "J", "K", "L", "M", "P",
           "S", "T", "X", "Z", "[", "\\", "]", "bq", "a", "b", "c", "d", "e", "f", "g",
           "h", "l", "p", "q", "r", "s", "u"}     \* 40 to 7e
Printables == Digits \cup Privates \cup Intermediates \cup Finals \cup {";", ":"}
Controls == {"bel", "lf", "cr"}             \* 00 to 1f but those named below
Cancels == {"can"}                          \* 18 and 1a
Introducers == {"X"}                        \* after esc: a string nobody reads
High == {"W"}                               \* a0 and above
\* Also "esc" (1b), "del" (7f) and "st" (9c).

Ground == "ground"
Escape == "escape"
EscapeI == "escape intermediate"
CsiEntry == "csi entry"
CsiParam == "csi param"
CsiI == "csi intermediate"
CsiIgnore == "csi ignore"
Sos == "sos pm apc"
Osc == "osc"
DcsEntry == "dcs entry"
DcsParam == "dcs param"
DcsI == "dcs intermediate"
DcsIgnore == "dcs ignore"
DcsPass == "dcs passthrough"
Csi == {CsiEntry, CsiParam, CsiI, CsiIgnore}
Dcs == {DcsEntry, DcsParam, DcsI}

(***************************************************************************)
(* VT500_TRANSITION_TABLE: what is done with a character, and the next     *)
(* state.  "error" is what the table holds where nothing was entered.      *)
(***************************************************************************)
InEscape(c) ==
    CASE c = "[" -> <<"clear", CsiEntry>>
      [] c = "]" -> <<"osc start", Osc>>
      [] c = "P" -> <<"clear", DcsEntry>>
      [] c \in Introducers -> <<"ignore", Sos>>
      [] c \in Intermediates -> <<"collect", EscapeI>>
      [] OTHER -> <<"esc", Ground>>

InCsi(state, c) ==
    CASE c \in Finals -> IF state = CsiIgnore THEN <<"ignore", Ground>> ELSE <<"csi", Ground>>
      [] state = CsiIgnore -> <<"ignore", CsiIgnore>>
      [] c \in Intermediates -> <<"collect", CsiI>>
      [] state = CsiI -> <<"ignore", CsiIgnore>>
      [] c \in Digits \cup {";"} -> <<"param", CsiParam>>
      [] c \in Privates /\ state = CsiEntry -> <<"collect", CsiParam>>
      [] OTHER -> <<"ignore", CsiIgnore>>

InDcs(state, c) ==
    CASE c \in Finals -> <<"hook", DcsPass>>
      [] c \in Intermediates -> <<"collect", DcsI>>
      [] state = DcsI -> <<"ignore", DcsIgnore>>
      [] c \in Digits \cup {";"} -> <<"param", DcsParam>>
      [] c \in Privates /\ state = DcsEntry -> <<"collect", DcsParam>>
      [] OTHER -> <<"ignore", DcsIgnore>>

Transition(state, c) ==
    CASE state = Osc /\ c \in {"st", "esc", "can", "bel"} -> <<"osc end", Ground>>
      [] state = DcsPass /\ c \in {"st", "esc"} -> <<"unhook", Ground>>
      [] c = "esc" -> <<"clear", Escape>>
      [] c = "st" -> <<"ignore", Ground>>
      [] c \in Cancels -> <<"execute", Ground>>
      [] c \in Controls ->
            CASE state \in {Osc, Sos, DcsIgnore} \cup Dcs -> <<"ignore", state>>
              [] state = DcsPass -> <<"put", DcsPass>>
              [] OTHER -> <<"execute", state>>
      [] c = "del" -> IF state = Osc THEN <<"osc put", Osc>>
                      ELSE IF state = Ground THEN <<"error", Ground>>
                      ELSE <<"ignore", state>>
      [] c \in High -> IF state = Osc THEN <<"osc put", Osc>> ELSE <<"error", Ground>>
      [] state = Ground -> <<"print", Ground>>
      [] state = Escape -> InEscape(c)
      [] state = EscapeI -> IF c \in Intermediates THEN <<"collect", EscapeI>> ELSE <<"esc", Ground>>
      [] state \in Csi -> InCsi(state, c)
      [] state = Osc -> <<"osc put", Osc>>
      [] state \in {Sos, DcsIgnore} -> <<"ignore", state>>
      [] state \in Dcs -> InDcs(state, c)
      [] state = DcsPass -> <<"put", DcsPass>>

\* What survives between two chunks, and the calls.  `hooked' names the handler
\* that a device control string is passed to.
FreshParser == [state |-> Ground, osc |-> <<>>, params |-> <<0>>, collect |-> <<>>,
                hooked |-> <<>>, calls |-> <<>>]

-----------------------------------------------------------------------------
(***************************************************************************)
(* parse.  Characters to print, or to pass to a DCS handler, are not       *)
(* handled one by one: the place of the first is noted (`print', `dcs'),   *)
(* and all from there to the place reached are handled together.  Here     *)
(* they are the characters since, with `on' saying that there are some.    *)
(***************************************************************************)
Idle == [on |-> FALSE, text |-> <<>>]
Begun(run) == IF run.on THEN run ELSE [on |-> TRUE, text |-> <<>>]
Passing(run, c) == IF run.on THEN [run EXCEPT !.text = Append(@, c)] ELSE run

Call(p, name, args) == [p EXCEPT !.calls = Append(@, <<name>> \o args)]

Flush(p) ==
    LET One(q, c) == Call(q, "print", <<c>>)
    IN  [FoldLeft(One, p, p.print.text) EXCEPT !.print = Idle]
Passed(p) == IF p.hooked # <<>> /\ p.dcs.on THEN Call(p, "put", <<p.dcs.text>>) ELSE p

Cleared(p) == [p EXCEPT !.osc = <<>>, !.params = <<0>>, !.collect = <<>>, !.dcs = Idle]

Param(p, c) ==
    IF c = ";" THEN [p EXCEPT !.params = Append(@, 0)]
    ELSE [p EXCEPT !.params[Len(p.params)] = @ * 10 + Digit(c)]

\* A character that is not in the table; one above 9f has its place there.
Unknown(p, state, c) ==
    CASE c \in High /\ state = Ground -> [p EXCEPT !.print = Begun(@)]
      [] c \in High /\ state = DcsPass -> [p EXCEPT !.dcs = Begun(@)]
      [] OTHER -> p

OscEnd(p, c) ==
    IF p.osc = <<>> \/ c \in Cancels THEN Cleared(p) ELSE Cleared(Call(p, "osc", <<p.osc>>))

Act(p, action, c) ==
    CASE action = "print" -> [p EXCEPT !.print = Begun(@)]
      [] action = "execute" -> Call(Flush(p), "execute", <<c>>)
      [] action = "ignore" -> IF p.print.on THEN Flush(p)
                              ELSE [Passed(p) EXCEPT !.dcs = Idle]
      [] action = "error" -> Unknown(p, p.state, c)
      [] action = "csi" -> Call(p, "csi", <<p.collect, p.params, c>>)
      [] action = "param" -> Param(p, c)
      [] action = "collect" -> [p EXCEPT !.collect = Append(@, c)]
      [] action = "esc" -> Call(p, "esc", <<Append(p.collect, c)>>)
      [] action = "clear" -> Cleared(Flush(p))
      [] action = "hook" -> Call([p EXCEPT !.hooked = Append(p.collect, c)], "hook",
                                 <<p.collect, p.params, c>>)
      [] action = "put" -> [p EXCEPT !.dcs = Begun(@)]
      [] action = "unhook" ->
            Cleared(IF p.hooked # <<>>
                  THEN [Call(Passed(p), "unhook", <<p.hooked>>) EXCEPT !.hooked = <<>>] ELSE p)
      [] action = "osc start" -> [Flush(p) EXCEPT !.osc = <<>>]
      [] action = "osc put" -> [p EXCEPT !.osc = Append(@, c)]
      [] action = "osc end" -> OscEnd(p, c)

\* After an error in a string or an ignored sequence, and after an esc that
\* ended a string, the state is not the table's.
After(state, action, next, c) ==
    CASE action = "error" /\ c \in High /\ state \in {CsiIgnore, DcsIgnore, DcsPass} -> state
      [] action \in {"osc end", "unhook"} /\ c = "esc" -> Escape
      [] OTHER -> next

Consume(p, c) ==
    LET t == Transition(p.state, c)
        q == Act(p, t[1], c)
    IN  [q EXCEPT !.state = After(p.state, t[1], t[2], c),
                  !.print = Passing(@, c), !.dcs = Passing(@, c)]

\* Mutant: a sequence that the chunk breaks off loses its parameters.
ParseForgetsParams(p, chunk) ==
    LET begun == [state |-> p.state, osc |-> p.osc, params |-> <<0>>,
                  collect |-> p.collect, hooked |-> p.hooked, calls |-> p.calls,
                  print |-> Idle, dcs |-> Idle]
        q == FoldLeft(Consume, begun, chunk)
        done == IF q.state = Ground THEN Flush(q)
                ELSE IF q.state = DcsPass THEN Passed(q) ELSE q
    IN  [f \in DOMAIN FreshParser |-> done[f]]

\* The end of the chunk: what has begun is handled as far as it came.
Parse(p, chunk) ==
    LET begun == [state |-> p.state, osc |-> p.osc, params |-> p.params,
                  collect |-> p.collect, hooked |-> p.hooked, calls |-> p.calls,
                  print |-> Idle, dcs |-> Idle]
        q == FoldLeft(Consume, begun, chunk)
        done == IF q.state = Ground THEN Flush(q)
                ELSE IF q.state = DcsPass THEN Passed(q) ELSE q
    IN  [f \in DOMAIN FreshParser |-> done[f]]
=============================================================================
