----------------------------- MODULE MCVncInput ------------------------------
(***************************************************************************)
(* The input of the VNC page: in one behaviour the user types, in another  *)
(* uses the pointer, in a third changes the settings and the window.  The  *)
(* bounds of the others are then zero.                                     *)
(***************************************************************************)
EXTENDS VncKeyboard, VncPointer

MCBrowsers ==
  {[os |-> "windows", legacy |-> FALSE, qemu |-> FALSE],
   [os |-> "windows", legacy |-> TRUE,  qemu |-> TRUE],
   [os |-> "mac",     legacy |-> FALSE, qemu |-> FALSE],
   [os |-> "other",   legacy |-> FALSE, qemu |-> TRUE],
   [os |-> "other",   legacy |-> TRUE,  qemu |-> FALSE]}

Typing == presses > 0 /\ acts = 0 /\ changes = 0
            /\ ui.resize = "off" /\ ~ui.cache /\ ~ui.mobile /\ ~server.resizes
            /\ display.fb = window.size /\ window.size = 1
Pointing == presses = 0 /\ acts > 0 /\ changes = 1
              /\ ~ui.mobile /\ display.fb = 3 /\ window.size # 1
              /\ \/ ui.resize = "off" /\ ui.cache /\ server.resizes
                 \/ ui.resize = "scale" /\ ~server.resizes
              /\ browser = [os |-> "mac", legacy |-> FALSE, qemu |-> FALSE]
Viewing == presses = 0 /\ acts = 0 /\ changes > 1
             /\ browser = [os |-> "mac", legacy |-> FALSE, qemu |-> FALSE]

MCInit == /\ KeyInit /\ ScreenInit /\ PointerInit
          /\ Typing \/ Pointing \/ Viewing

MCNext == \/ KeyNext /\ UNCHANGED <<screenVars, pointerVars>>
          \/ PointerNext /\ UNCHANGED keyVars

MCSpec == MCInit /\ [][MCNext]_<<keyVars, screenVars, pointerVars>>
=============================================================================
