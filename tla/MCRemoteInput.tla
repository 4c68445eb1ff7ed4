--------------------------- MODULE MCRemoteInput ---------------------------
(***************************************************************************)
(* Computers for RemoteInput: for each platform the keys its workarounds   *)
(* are about, a mouse with two buttons on two positions, and screens for   *)
(* two and three fingers.                                                  *)
(***************************************************************************)
EXTENDS RemoteInput

Computer(platform, reporting, keys) ==
  [platform |-> platform, reporting |-> reporting, keys |-> keys, buttons |-> {},
   positions |-> {}, fingers |-> {}, qemu |-> FALSE, leds |-> FALSE, viewOnly |-> FALSE]

MCKeyboards ==
  {Computer("windows", "modern", {"ControlLeft", "AltRight", "KeyA"}),
   Computer("windows", "modern", {"ShiftLeft", "ShiftRight", "Lang"}),
   Computer("windows", "legacy", {"ShiftLeft", "ShiftRight", "AltRight"}),
   Computer("mac", "modern", {"MetaLeft", "KeyA", "CapsLock"}),
   Computer("other", "virtual", {"KeyA"}),
   [Computer("other", "modern", {"KeyA", "ShiftLeft"}) EXCEPT !.leds = TRUE],
   [Computer("other", "legacy", {"KeyA", "CapsLock"})
      EXCEPT !.leds = TRUE, !.qemu = TRUE, !.viewOnly = TRUE]}

MCMouse ==
  [Computer("other", "modern", {})
     EXCEPT !.buttons = {"left", "right"}, !.positions = {0, 1, 2}]

MCScreen == [Computer("other", "modern", {}) EXCEPT !.positions = {1}, !.fingers = {1, 2, 3}]

\* Two fingers pinch, and the kiosk reports its lock.
MCPinch == [MCScreen EXCEPT !.fingers = {1, 2}, !.leds = TRUE]

MCSetups == MCKeyboards \cup {MCMouse, MCScreen, MCPinch}
=============================================================================
