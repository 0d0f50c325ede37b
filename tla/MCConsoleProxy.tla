--------------------------- MODULE MCConsoleProxy ---------------------------
(***************************************************************************)
(* Two browsers take the console from each other, or one of them shows the *)
(* display.                                                                *)
(***************************************************************************)
EXTENDS ConsoleProxy, TLC

CONSTANTS b1, b2

MCKinds == {[s \in {b1, b2} |-> "console"],
            (b1 :> "console") @@ (b2 :> "vnc")}
=============================================================================
