---------------------------- MODULE ConsoleProxy ----------------------------
(***************************************************************************)
(* The console and VNC websockets of web/env_handler_virtual_machine.go.   *)
(* The handler of a session upgrades the HTTP connection, gets a stream to *)
(* the VM, starts a goroutine (the pump) that copies the stream to the     *)
(* browser, and itself copies the browser to the stream.  The connection   *)
(* of the pool is held only while the stream is opened.  Nobody closes the *)
(* websocket, and only the console handler closes its stream.              *)
(***************************************************************************)
EXTENDS Integers, Sequences, SequencesExt

CONSTANTS
    Sessions,       \* browser windows on one VM
    Kinds,          \* which of them may show its console, which its display
    MaxMessages     \* bound: messages of all sessions, in both directions

ASSUME KindsAssumption == Kinds \subseteq [Sessions -> {"console", "vnc"}]
ASSUME MessagesAssumption == MaxMessages \in Nat

VARIABLES
    kind,       \* kind[s]: console or VNC
    handler,    \* where the handler is
    pump,       \* where its goroutine is
    stream,     \* the stream to the VM, "broken" from the VM's side
    ws,         \* the websocket
    typed,      \* messages the browser sent
    inbox,      \* those the handler has not read
    sending,    \* the one it read and has not written, or 0
    printed,    \* messages the VM sent on the stream
    outbox,     \* those the pump has not read
    writing,    \* the one it read and has not written, or 0
    input,      \* what reached the VM
    screen      \* what reached the browser

browserVars == <<typed, inbox, sending, input>>
vmVars == <<printed, outbox, writing, screen>>
vars == <<kind, handler, pump, stream, ws, browserVars, vmVars>>

Consoles == {s \in Sessions : kind[s] = "console"}

HandlerPcs == {"upgrade", "open", "next", "send", "returned"}
PumpPcs == {"off", "read", "write", "ended"}

Copying(s) == handler[s] \in {"next", "send"}

TypeOK == /\ kind \in Kinds
          /\ handler \in [Sessions -> HandlerPcs]
          /\ pump \in [Sessions -> PumpPcs]
          /\ stream \in [Sessions -> {"none", "open", "broken", "closed"}]
          /\ ws \in [Sessions -> {"none", "open", "gone"}]
          /\ \A s \in Sessions :
               /\ typed[s] \in 0 .. MaxMessages /\ printed[s] \in 0 .. MaxMessages
               /\ sending[s] \in 0 .. MaxMessages /\ writing[s] \in 0 .. MaxMessages
               /\ \A q \in {inbox[s], outbox[s], input[s], screen[s]} :
                    q \in Seq(1 .. MaxMessages)
               /\ Copying(s) => stream[s] \in {"open", "broken"}

Init == /\ kind \in Kinds
        /\ handler = [s \in Sessions |-> "upgrade"]
        /\ pump = [s \in Sessions |-> "off"]
        /\ stream = [s \in Sessions |-> "none"]
        /\ ws = [s \in Sessions |-> "none"]
        /\ typed = [s \in Sessions |-> 0]
        /\ printed = [s \in Sessions |-> 0]
        /\ sending = [s \in Sessions |-> 0]
        /\ writing = [s \in Sessions |-> 0]
        /\ inbox = [s \in Sessions |-> <<>>]
        /\ outbox = [s \in Sessions |-> <<>>]
        /\ input = [s \in Sessions |-> <<>>]
        /\ screen = [s \in Sessions |-> <<>>]

HandlerTo(s, l) == handler' = [handler EXCEPT ![s] = l]
PumpTo(s, l) == pump' = [pump EXCEPT ![s] = l]

-----------------------------------------------------------------------------
(* The handler                                                             *)

\* Mutant: the deferred console.Close is missing.
ReturnOpen(s) == /\ HandlerTo(s, "returned")
                 /\ UNCHANGED stream

\* The console handler closes its stream as it returns, the VNC handler does
\* not.  Closing makes the reads and writes of the stream fail.
Return(s) == /\ HandlerTo(s, "returned")
             /\ stream' = IF s \in Consoles /\ stream[s] # "none"
                            THEN [stream EXCEPT ![s] = "closed"] ELSE stream

Upgrade(s) == /\ handler[s] = "upgrade"
              /\ ws' = [ws EXCEPT ![s] = "open"]
              /\ HandlerTo(s, "open")
              /\ UNCHANGED <<kind, pump, stream, browserVars, vmVars>>

UpgradeFails(s) == /\ handler[s] = "upgrade"
                   /\ Return(s)
                   /\ UNCHANGED <<kind, pump, ws, browserVars, vmVars>>

\* DOMAIN_CONSOLE_FORCE: libvirt ends the console stream of any other session.
ForcedOut(s) == IF s \in Consoles THEN {c \in Consoles \ {s} : stream[c] = "open"} ELSE {}

\* GetConsoleStream or GetGraphicStream, and "go func".
Open(s) == /\ handler[s] = "open"
           /\ stream' = [c \in Sessions |-> IF c = s THEN "open"
                                            ELSE IF c \in ForcedOut(s) THEN "broken"
                                            ELSE stream[c]]
           /\ HandlerTo(s, "next")
           /\ PumpTo(s, "read")
           /\ UNCHANGED <<kind, ws, browserVars, vmVars>>

\* The error page goes to a connection that is a websocket already, and the
\* websocket stays open.
OpenFails(s) == /\ handler[s] = "open"
                /\ Return(s)
                /\ UNCHANGED <<kind, pump, ws, browserVars, vmVars>>

\* The next message of the browser.
ReadMessage(s) == /\ handler[s] = "next"
                  /\ inbox[s] # <<>>
                  /\ HandlerTo(s, "send")
                  /\ sending' = [sending EXCEPT ![s] = Head(inbox[s])]
                  /\ inbox' = [inbox EXCEPT ![s] = Tail(@)]
                  /\ UNCHANGED <<kind, pump, stream, ws, typed, input, vmVars>>

\* The browser is gone.
NextFails(s) == /\ handler[s] = "next"
                /\ inbox[s] = <<>>
                /\ ws[s] = "gone"
                /\ Return(s)
                /\ UNCHANGED <<kind, pump, ws, browserVars, vmVars>>

Send(s) == /\ handler[s] = "send"
           /\ stream[s] = "open"
           /\ input' = [input EXCEPT ![s] = Append(@, sending[s])]
           /\ sending' = [sending EXCEPT ![s] = 0]
           /\ HandlerTo(s, "next")
           /\ UNCHANGED <<kind, pump, stream, ws, typed, inbox, vmVars>>

SendFails(s) == /\ handler[s] = "send"
                /\ stream[s] # "open"
                /\ Return(s)
                /\ UNCHANGED <<kind, pump, ws, browserVars, vmVars>>

-----------------------------------------------------------------------------
(* The pump                                                                *)

\* What the VM sent before the stream broke can still be read.
Recv(s) == /\ pump[s] = "read"
           /\ stream[s] \in {"open", "broken"}
           /\ outbox[s] # <<>>
           /\ PumpTo(s, "write")
           /\ writing' = [writing EXCEPT ![s] = Head(outbox[s])]
           /\ outbox' = [outbox EXCEPT ![s] = Tail(@)]
           /\ UNCHANGED <<kind, handler, stream, ws, browserVars, printed, screen>>

RecvFails(s) == /\ pump[s] = "read"
                /\ stream[s] # "open"
                /\ PumpTo(s, "ended")
                /\ UNCHANGED <<kind, handler, stream, ws, browserVars, vmVars>>

DeliverOutput(s) == /\ pump[s] = "write"
                    /\ ws[s] = "open"
                    /\ screen' = [screen EXCEPT ![s] = Append(@, writing[s])]
                    /\ writing' = [writing EXCEPT ![s] = 0]
                    /\ PumpTo(s, "read")
                    /\ UNCHANGED <<kind, handler, stream, ws, browserVars, printed, outbox>>

DeliverFails(s) == /\ pump[s] = "write"
                   /\ ws[s] = "gone"
                   /\ PumpTo(s, "ended")
                   /\ UNCHANGED <<kind, handler, stream, ws, browserVars, vmVars>>

-----------------------------------------------------------------------------
(* Browser and VM                                                          *)

Messages == MapThenSumSet(LAMBDA s : typed[s] + printed[s], Sessions)

Type(s) == /\ ws[s] = "open"
           /\ Messages < MaxMessages
           /\ typed' = [typed EXCEPT ![s] = @ + 1]
           /\ inbox' = [inbox EXCEPT ![s] = Append(@, typed[s] + 1)]
           /\ UNCHANGED <<kind, handler, pump, stream, ws, sending, input, vmVars>>

CloseBrowser(s) == /\ ws[s] = "open"
                   /\ ws' = [ws EXCEPT ![s] = "gone"]
                   /\ UNCHANGED <<kind, handler, pump, stream, browserVars, vmVars>>

\* The VM writes to its console, or its display changes.
Output(s) == /\ stream[s] = "open"
             /\ Messages < MaxMessages
             /\ printed' = [printed EXCEPT ![s] = @ + 1]
             /\ outbox' = [outbox EXCEPT ![s] = Append(@, printed[s] + 1)]
             /\ UNCHANGED <<kind, handler, pump, stream, ws, browserVars, writing, screen>>

\* The VM stops, or the connection to the hypervisor breaks.
Break(s) == /\ stream[s] = "open"
            /\ stream' = [stream EXCEPT ![s] = "broken"]
            /\ UNCHANGED <<kind, handler, pump, ws, browserVars, vmVars>>

-----------------------------------------------------------------------------

HandlerStep(s) == \/ Upgrade(s) \/ UpgradeFails(s) \/ Open(s) \/ OpenFails(s)
                  \/ ReadMessage(s) \/ NextFails(s) \/ Send(s) \/ SendFails(s)

PumpStep(s) == Recv(s) \/ RecvFails(s) \/ DeliverOutput(s) \/ DeliverFails(s)

Next == \E s \in Sessions : \/ HandlerStep(s) \/ PumpStep(s)
                            \/ Type(s) \/ CloseBrowser(s) \/ Output(s) \/ Break(s)

Spec == Init /\ [][Next]_vars

\* Goroutines are scheduled; browser and VM owe nothing.
Fairness == \A s \in Sessions : WF_vars(HandlerStep(s)) /\ WF_vars(PumpStep(s))

FairSpec == Spec /\ Fairness

-----------------------------------------------------------------------------
(* Properties                                                              *)

FirstOnes(q) == q = [i \in 1 .. Len(q) |-> i]

\* Each direction delivers what was sent, in order and without gaps, up to the
\* end of the session.
InOrder == \A s \in Sessions : FirstOnes(input[s]) /\ FirstOnes(screen[s])

\* When a console handler returns, its pump ends too: the closed stream wakes it.
ConsolePumpEnds ==
    \A s \in Sessions :
       (kind[s] = "console" /\ handler[s] = "returned") ~> pump[s] \in {"off", "ended"}

\* A VNC pump outlives its handler for ever only while the VM keeps the
\* connection open and sends nothing.
VncPumpEnds ==
    \A s \in Sessions :
       <>[](kind[s] = "vnc" /\ handler[s] = "returned" /\ pump[s] \notin {"off", "ended"})
          => <>[](pump[s] = "read" /\ stream[s] = "open" /\ outbox[s] = <<>>)

\* A handler outlives its stream (the VM stopped, or another browser took the
\* console) for ever only while its browser is there and sends nothing.
HandlerEnds ==
    \A s \in Sessions :
       <>[](Copying(s) /\ stream[s] # "open")
          => <>[](handler[s] = "next" /\ ws[s] = "open" /\ inbox[s] = <<>>)

\* A session carries both directions in order, and when it ends no goroutine is
\* left behind except in the two cases named above.
SessionsSound == []InOrder /\ ConsolePumpEnds /\ VncPumpEnds /\ HandlerEnds
=============================================================================
