---------------------------- MODULE RemoteInput ----------------------------
(***************************************************************************)
(* Keyboard, mouse and touch of a connected remote control session: how    *)
(* the noVNC client (input/keyboard.js, input/util.js, gesturehandler.js,  *)
(* util/events.js and the input handlers of rfb.js) and vnc-interop.js     *)
(* turn what a user does into key and pointer messages, and which keys and *)
(* buttons the kiosk then holds down.                                      *)
(*                                                                         *)
(* One action is one event the browser delivers, or one timer, with its    *)
(* whole handler.  What the user holds is the variable "user"; which       *)
(* events an operating system makes of it follows the comments of the      *)
(* source.  The page never drags or clips the viewport.                    *)
(***************************************************************************)
EXTENDS Integers, Sequences

CONSTANTS
  Setups,        \* the computers a behaviour may start on, see SetupRecords
  MaxWins,       \* bound: Windows keys sent and not yet released
  MaxReports     \* bound: LED reports on their way when a key is pressed

ASSUME InputBounds == MaxWins \in Nat /\ MaxReports \in Nat

VARIABLES
  setup,    \* the computer, fixed
  user,     \* what the user holds and where the pointer is
  io,       \* the input side of the RFB object, and the kiosk's side of it
  g,        \* the GestureHandler
  left,     \* history: keys the kiosk held when view-only was switched on
  strayed,  \* history: a key was let go of while the page had the focus
  unseen    \* history: a button was let go of outside an uncaptured canvas

vars == <<setup, user, io, g, left, strayed, unseen>>

-----------------------------------------------------------------------------
(* Keys. *)

\* What stands on the keyboard; "Unidentified" is any key of a virtual one.
PhysicalKeys ==
  {"ControlLeft", "AltRight", "ShiftLeft", "ShiftRight", "MetaLeft", "CapsLock", "Lang", "KeyA"}
Codes == PhysicalKeys \cup {"PlatformA", "Unidentified"}
Keysyms ==
  {"Control_L", "Alt_L", "Alt_R", "Shift_L", "Shift_R", "Super_L", "ISO_Level3_Shift",
   "Mode_switch", "Caps_Lock", "Zenkaku_Hankaku", "Zenkaku", "Hankaku", "Delete", "a", "A",
   "NoSymbol"}
Up == "up"     \* not in _keyDownList

Fingers == 1 .. 4
Kinds == {"onetap", "twotap", "threetap", "drag", "longpress", "twodrag", "pinch"}
Taps == {"onetap", "twotap", "threetap"}

\* The system, how its browser reports keys (KeyboardEvent.code, only the old
\* keyCode, or nothing), what is used of the devices, whether the server
\* takes scancodes (QEMU) and reports its LEDs.
SetupRecords ==
  [platform : {"windows", "mac", "other"}, reporting : {"modern", "legacy", "virtual"},
   keys : SUBSET PhysicalKeys, buttons : SUBSET {"left", "middle", "right"},
   positions : SUBSET (0 .. 2), fingers : SUBSET Fingers,
   qemu : BOOLEAN, leds : BOOLEAN, viewOnly : BOOLEAN]

ASSUME SetupsAssumption == Setups \subseteq SetupRecords

Windows == setup.platform = "windows"
Mac == setup.platform = "mac"

DomKeys(c) ==
  CASE c \in {"ShiftLeft", "ShiftRight"} -> {"Shift"}
    [] c = "ControlLeft" -> {"Control"}
    [] c = "AltRight" -> {"Alt", "AltGraph"}
    [] c = "MetaLeft" -> {"Meta"}
    [] c = "CapsLock" -> {"CapsLock"}
    [] c = "Lang" -> {"Zenkaku", "Hankaku"}
    [] OTHER -> {"a", "A"}

Location(c) ==
  IF c \in {"ShiftRight", "AltRight"} THEN 2
  ELSE IF c \in {"ControlLeft", "ShiftLeft", "MetaLeft"} THEN 1 ELSE 0

\* vkeys.js knows one code for both sides, and no letters.
VKey(c) ==
  IF c \in {"ShiftLeft", "ShiftRight"} THEN "ShiftLeft"
  ELSE IF c = "AltRight" THEN "AltLeft"
  ELSE IF c = "KeyA" THEN "" ELSE c

\* The events a browser may make of a key: a KeyboardEvent of one kind.
EventsOf(c) ==
  IF setup.reporting = "modern"
  THEN {[code |-> c, vkey |-> "", numbered |-> TRUE, key |-> k, location |-> Location(c)] :
          k \in DomKeys(c)}
  ELSE IF setup.reporting = "legacy"
  THEN {[code |-> "", vkey |-> VKey(c), numbered |-> TRUE, key |-> "", location |-> Location(c)]}
  ELSE {[code |-> "", vkey |-> "", numbered |-> FALSE, key |-> k, location |-> 0] :
          k \in DomKeys(c)}

RightOf == [ShiftLeft |-> "ShiftRight", ControlLeft |-> "ControlRight", AltLeft |-> "AltRight"]

GetKeycode(e) ==
  IF e.code # "" THEN e.code
  ELSE IF e.vkey = "" THEN "Unidentified"
  ELSE IF e.location = 2 /\ e.vkey \in DOMAIN RightOf THEN RightOf[e.vkey]
  ELSE e.vkey

\* Keyboard._getKeyCode: a letter of an old browser is named by its number.
CodeOf(e) ==
  IF GetKeycode(e) = "Unidentified" /\ e.numbered THEN "PlatformA" ELSE GetKeycode(e)

FixedKeys ==
  [ShiftLeft |-> "Shift", ShiftRight |-> "Shift", ControlLeft |-> "Control",
   AltRight |-> "Alt", MetaLeft |-> "Meta", CapsLock |-> "CapsLock"]

GetKey(e) ==
  IF e.key # "" THEN e.key
  ELSE IF GetKeycode(e) \in DOMAIN FixedKeys THEN FixedKeys[GetKeycode(e)] ELSE "Unidentified"

GetKeysym(e) ==
  LET key == GetKey(e)
  IN  CASE key = "Shift" -> IF e.location = 2 THEN "Shift_R" ELSE "Shift_L"
        [] key = "Control" -> "Control_L"
        [] key = "Alt" -> IF e.location = 2 THEN "Alt_R" ELSE "Alt_L"
        [] key = "AltGraph" -> "ISO_Level3_Shift"
        [] key = "Meta" -> "Super_L"
        [] key = "CapsLock" -> "Caps_Lock"
        [] key \in {"Zenkaku", "Hankaku"} -> IF Windows THEN "Zenkaku_Hankaku" ELSE key
        [] key \in {"a", "A"} -> key
        [] OTHER -> "NoSymbol"

JpBadKeys == {"Zenkaku_Hankaku"}

-----------------------------------------------------------------------------
(* The input side of the RFB object. *)

Buttons == {"left", "middle", "right", "wheelUp", "wheelDown"}

InputRecords ==
  [viewOnly : BOOLEAN,
   list : [Codes -> Keysyms \cup {Up}],   \* _keyDownList
   armed : BOOLEAN,                       \* _altGrArmed, and its timer
   known : {"null", "on", "off"},         \* _remoteCapsLock
   wins : 0 .. MaxWins,                   \* timers of sendWindowsKey
   mask : SUBSET Buttons,                 \* _mouseButtonMask
   pos : 0 .. 2,                          \* _mousePos
   timer : BOOLEAN,                       \* _mouseMoveTimer
   cooling : BOOLEAN,                     \* within MOUSE_MOVE_DELAY of _mouseLastMoveTime
   wheel : -1 .. 1,                       \* _accumulatedWheelDeltaY, in half steps
   capture : BOOLEAN,                     \* document.captureElement is the canvas
   down : SUBSET (Keysyms \cup Codes \cup {"AltLeft"}),    \* kiosk: the keys held
   caps : {"on", "off"},                  \* kiosk: CapsLock
   reports : Seq({"on", "off"}),          \* LED states on their way from the kiosk
   buttons : SUBSET Buttons,              \* kiosk: the buttons held
   at : 0 .. 2,                           \* kiosk: the pointer
   muted : BOOLEAN]                       \* history: the last pointer message was dropped

\* What the server knows a key by.
KeyId(keysym, code) ==
  IF setup.qemu /\ code \in PhysicalKeys \cup {"AltLeft", "Delete"} THEN code ELSE keysym

Toggled(r) == IF r.caps = "on" THEN "off" ELSE "on"

\* RFB.sendKey, and what the kiosk makes of the message.
SendKey(r, keysym, code, down) ==
  IF r.viewOnly \/ KeyId(keysym, code) = "NoSymbol" THEN r
  ELSE IF ~down THEN [r EXCEPT !.down = @ \ {KeyId(keysym, code)}]
  ELSE IF keysym # "Caps_Lock" THEN [r EXCEPT !.down = @ \cup {KeyId(keysym, code)}]
  ELSE [r EXCEPT !.down = @ \cup {KeyId(keysym, code)}, !.caps = Toggled(r),
                 !.reports = IF setup.leds THEN Append(@, Toggled(r)) ELSE @]

Press(r, keysym, code) == SendKey(SendKey(r, keysym, code, TRUE), keysym, code, FALSE)

\* (A mutant: the remote state is not cleared after a fix.)
HandleKeyEventFixesAgain(r, keysym, code, down, capslock) ==
  LET r1 == IF r.known # "null" /\ capslock # "null" /\ r.known # capslock /\ down
            THEN Press(r, "Caps_Lock", "CapsLock") ELSE r
  IN  SendKey(r1, keysym, code, down)

\* The lock of the kiosk is fixed first; its state is then unknown until the
\* next report.  NumLock takes the same steps.  "undefined" is what an
\* argument left out is, which is neither null nor any state.
HandleKeyEvent(r, keysym, code, down, capslock) ==
  LET r1 == IF code = "CapsLock" /\ down THEN [r EXCEPT !.known = "null"] ELSE r
      r2 == IF r1.known # "null" /\ capslock # "null" /\ r1.known # capslock /\ down
            THEN [Press(r1, "Caps_Lock", "CapsLock") EXCEPT !.known = "null"] ELSE r1
  IN  SendKey(r2, keysym, code, down)

\* Keyboard._sendKeyEvent
SendKeyEvent(r, keysym, code, down, capslock) ==
  IF down THEN HandleKeyEvent([r EXCEPT !.list[code] = keysym], keysym, code, TRUE, capslock)
  ELSE IF r.list[code] = Up THEN r
  ELSE HandleKeyEvent([r EXCEPT !.list[code] = Up], keysym, code, FALSE, capslock)

PressAndRelease(r, keysym, code, capslock) ==
  SendKeyEvent(SendKeyEvent(r, keysym, code, TRUE, capslock), keysym, code, FALSE, capslock)

InterruptAltGrSequence(r, capslock) ==
  IF ~r.armed THEN r
  ELSE SendKeyEvent([r EXCEPT !.armed = FALSE], "Control_L", "ControlLeft", TRUE, capslock)

OnMac(keysym) ==
  CASE keysym = "Super_L" -> "Alt_L"
    [] keysym = "Alt_L" -> "Mode_switch"
    [] keysym = "Alt_R" -> "ISO_Level3_Shift"
    [] OTHER -> keysym

\* A keydown: quick, less than 50 ms after the Control key that armed AltGr.
HandleKeyDown(r, e, quick, meta, capslock) ==
  LET code == CodeOf(e)
      altgr == r.armed /\ code = "AltRight" /\ quick
      r1 == IF altgr THEN [r EXCEPT !.armed = FALSE] ELSE InterruptAltGrSequence(r, capslock)
      sym1 == IF altgr THEN "ISO_Level3_Shift" ELSE GetKeysym(e)
      sym2 == IF Mac THEN OnMac(sym1) ELSE sym1
      sym == IF r1.list[code] # Up THEN r1.list[code] ELSE sym2
  IN  CASE code = "Unidentified" ->
             IF sym1 = "NoSymbol" THEN r1 ELSE PressAndRelease(r1, sym1, code, capslock)
        [] code # "Unidentified" /\ Mac /\ meta /\ code # "MetaLeft" ->
             PressAndRelease(r1, sym, code, capslock)
        [] Mac /\ code = "CapsLock" /\ ~meta ->
             PressAndRelease(r1, "Caps_Lock", "CapsLock", capslock)
        [] Windows /\ code # "Unidentified" /\ sym \in JpBadKeys ->
             PressAndRelease(r1, sym, code, capslock)
        [] Windows /\ sym \notin JpBadKeys /\ code = "ControlLeft" /\ r1.list[code] = Up ->
             [r1 EXCEPT !.armed = TRUE]
        [] OTHER -> SendKeyEvent(r1, sym, code, TRUE, capslock)

\* (A mutant: without the workaround for the Shift keys of Windows.)
HandleKeyUpPlain(r, e) ==
  LET r1 == InterruptAltGrSequence(r, "null")
  IN  SendKeyEvent(r1, r1.list[CodeOf(e)], CodeOf(e), FALSE, "null")

HandleKeyUp(r, e) ==
  LET code == CodeOf(e)
      r1 == InterruptAltGrSequence(r, "null")
      r2 == SendKeyEvent(r1, r1.list[code], code, FALSE, "null")
      r3 == SendKeyEvent(r2, r2.list["ShiftRight"], "ShiftRight", FALSE, "null")
  IN  IF Mac /\ code = "CapsLock" THEN PressAndRelease(r1, "Caps_Lock", code, "null")
      ELSE IF Windows /\ code \in {"ShiftLeft", "ShiftRight"}
           THEN SendKeyEvent(r3, r3.list["ShiftLeft"], "ShiftLeft", FALSE, "null")
      ELSE r2

\* A Control key that is withheld for AltGr is pressed and released with the rest.
AllKeysUp(r) ==
  LET r1 == InterruptAltGrSequence(r, "null")
      ids == {KeyId(r1.list[c], c) : c \in {k \in Codes : r1.list[k] # Up}}
  IN  [r1 EXCEPT !.list = [c \in Codes |-> Up],
                 !.down = IF r1.viewOnly THEN @ ELSE @ \ ids]

-----------------------------------------------------------------------------
(* The pointer side of it. *)

\* RFB._sendMouse, and what the kiosk makes of the message.
SendMouse(r, pos, mask) ==
  IF r.viewOnly THEN [r EXCEPT !.muted = TRUE]
  ELSE [r EXCEPT !.buttons = mask, !.at = pos, !.muted = FALSE]

FlushMouseMoveTimer(r, pos) ==
  IF r.timer THEN SendMouse([r EXCEPT !.timer = FALSE], pos, r.mask) ELSE r

HandleMouseButton(r, pos, mask) ==
  SendMouse([FlushMouseMoveTimer(r, pos) EXCEPT !.mask = mask], pos, mask)

Click(r, pos, button, others) ==
  HandleMouseButton(HandleMouseButton(r, pos, others \cup {button}), pos, others)

\* (A mutant: a move that waits keeps the position of the first.)
HandleMouseMoveKeepsFirst(r, pos) ==
  IF r.timer THEN r
  ELSE IF r.cooling THEN [r EXCEPT !.pos = pos, !.timer = TRUE]
  ELSE [SendMouse([r EXCEPT !.pos = pos], pos, r.mask) EXCEPT !.cooling = TRUE]

\* One move is sent per MOUSE_MOVE_DELAY; a timer sends the last of the others.
HandleMouseMove(r, pos) ==
  IF r.timer THEN [r EXCEPT !.pos = pos]
  ELSE IF r.cooling THEN [r EXCEPT !.pos = pos, !.timer = TRUE]
  ELSE [SendMouse([r EXCEPT !.pos = pos], pos, r.mask) EXCEPT !.cooling = TRUE]

\* (A mutant: what has been sent is not taken off.)
HandleWheelKeepsRest(r, pos, held, delta) ==
  CASE r.wheel + delta = -2 -> [Click(r, pos, "wheelUp", held) EXCEPT !.wheel = -2]
    [] r.wheel + delta = 2 -> [Click(r, pos, "wheelDown", held) EXCEPT !.wheel = 2]
    [] OTHER -> [r EXCEPT !.wheel = @ + delta]

\* Half a step per event; X is handled as Y is.
HandleWheel(r, pos, held, delta) ==
  CASE r.wheel + delta = -2 -> [Click(r, pos, "wheelUp", held) EXCEPT !.wheel = 0]
    [] r.wheel + delta = 2 -> [Click(r, pos, "wheelDown", held) EXCEPT !.wheel = 0]
    [] OTHER -> [r EXCEPT !.wheel = @ + delta]

\* A tap close to the one before takes its position; both are positions.
HandleTapEvent(r, pos, button) == Click(HandleMouseMove(r, pos), pos, button, {})

MoveThenButtons(r, pos, mask) == HandleMouseButton(HandleMouseMove(r, pos), pos, mask)

\* Scroll: the wheel button the gesture has moved far enough for, or none.
Scroll(r, pos, scroll) == IF scroll = "none" THEN r ELSE Click(r, pos, scroll, {})

PinchMoves(r, pos, scroll) ==
  LET r1 == IF scroll = "none" THEN r
            ELSE HandleKeyEvent(r, "Control_L", "ControlLeft", TRUE, "undefined")
  IN  HandleKeyEvent(Scroll(r1, pos, scroll), "Control_L", "ControlLeft", FALSE, "undefined")

GestureStart(r, kind, pos) ==
  CASE kind = "onetap" -> HandleTapEvent(r, pos, "left")
    [] kind = "twotap" -> HandleTapEvent(r, pos, "right")
    [] kind = "threetap" -> HandleTapEvent(r, pos, "middle")
    [] kind = "drag" -> MoveThenButtons(r, pos, {"left"})
    [] kind = "longpress" -> MoveThenButtons(r, pos, {"right"})
    [] OTHER -> HandleMouseMove(r, pos)

GestureMove(r, kind, pos, scroll) ==
  CASE kind \in Taps -> r
    [] kind = "twodrag" -> Scroll(HandleMouseMove(r, pos), pos, scroll)
    [] kind = "pinch" -> PinchMoves(HandleMouseMove(r, pos), pos, scroll)
    [] OTHER -> HandleMouseMove(r, pos)

\* (A mutant: a long press that ends keeps its button.)
GestureEndForgets(r, kind, pos) == IF kind = "drag" THEN MoveThenButtons(r, pos, {}) ELSE r

GestureEnd(r, kind, pos) ==
  IF kind \in {"drag", "longpress"} THEN MoveThenButtons(r, pos, {}) ELSE r

-----------------------------------------------------------------------------
(* The GestureHandler. *)

GestureRecords ==
  [state : SUBSET Kinds,       \* the gestures still possible; {} is GH_NOGESTURE
   tracked : Seq([id : Fingers, active : BOOLEAN, far : BOOLEAN]),
   ignored : SUBSET Fingers,
   waiting : BOOLEAN,          \* _waitingRelease
   late : BOOLEAN,             \* ... since more than 250 ms
   age : 0 .. 2,               \* of the first touch: up to 250 ms, to 1000 ms, more
   longpress : BOOLEAN,        \* its timer runs
   twoTouch : BOOLEAN,         \* its timer runs
   twoTouchId : BOOLEAN]       \* _twoTouchTimeoutId is not null

NoTouch ==
  [state |-> Kinds, tracked |-> <<>>, ignored |-> {}, waiting |-> FALSE, late |-> FALSE,
   age |-> 0, longpress |-> FALSE, twoTouch |-> FALSE, twoTouchId |-> FALSE]

Tracked(t) == {t.tracked[i] : i \in 1 .. Len(t.tracked)}
Active(t) == {u.id : u \in {v \in Tracked(t) : v.active}}
KindOf(t) == CHOOSE k \in Kinds : t.state = {k}

HasDetectedGesture(t) ==
  \E k \in Kinds : t.state = {k} /\ (k \in Taps => Active(t) = {})

StopTwoTouch(t) == [t EXCEPT !.twoTouch = FALSE, !.twoTouchId = FALSE]

\* _touchStart; a finger that comes too late or too early is ignored.
StartTouch(t, id) ==
  LET n == Len(t.tracked) + 1
      ignore == [t EXCEPT !.ignored = @ \cup {id}]
      track == [t EXCEPT !.tracked = Append(@, [id |-> id, active |-> TRUE, far |-> FALSE])]
  IN  CASE HasDetectedGesture(t) \/ t.state = {} -> ignore
        [] ~HasDetectedGesture(t) /\ t.state # {} /\ (t.waiting \/ (n > 1 /\ t.age > 0)) ->
             [ignore EXCEPT !.state = {}]
        [] OTHER ->
             CASE n = 1 -> [track EXCEPT !.longpress = TRUE, !.age = 0]
               [] n = 2 -> [track EXCEPT !.state = @ \ {"onetap", "drag", "longpress"},
                                         !.longpress = FALSE]
               [] n = 3 -> [track EXCEPT !.state = @ \ {"twotap", "twodrag", "pinch"}]
               [] OTHER -> [track EXCEPT !.state = {}]

\* Two fingers, one of which has moved far: the angle tells once both have.
DecideTwoTouch(t, id, apart) ==
  IF \E u \in Tracked(t) : u.id # id /\ u.far
  THEN StopTwoTouch([t EXCEPT !.state = @ \ {IF apart THEN "twodrag" ELSE "pinch"}])
  ELSE IF t.twoTouchId THEN t
  ELSE [t EXCEPT !.twoTouch = TRUE, !.twoTouchId = TRUE]

\* _touchMove before a gesture is known.
MoveTouch(t, id, far, apart) ==
  LET n == Len(t.tracked)
      moved == [t EXCEPT !.tracked = [i \in 1 .. n |->
                  IF t.tracked[i].id = id THEN [t.tracked[i] EXCEPT !.far = far]
                  ELSE t.tracked[i]]]
      gone == Taps \cup {"longpress"} \cup (IF n = 1 THEN {} ELSE {"drag"})
                   \cup (IF n = 2 THEN {} ELSE {"twodrag", "pinch"})
      narrowed == [moved EXCEPT !.state = @ \ gone, !.longpress = FALSE]
  IN  IF HasDetectedGesture(t) \/ ~far THEN moved
      ELSE IF n = 2 THEN DecideTwoTouch(narrowed, id, apart) ELSE narrowed

\* _touchEnd up to the question whether that was a gesture.
ReleaseTouch(t, id) ==
  LET t1 == IF ~HasDetectedGesture(t) /\ t.twoTouchId
            THEN [StopTwoTouch(t) EXCEPT !.state = {}] ELSE t
      n == Len(t.tracked)
      gone == {"drag", "twodrag", "pinch", "longpress"}
              \cup (IF t.waiting THEN {}
                    ELSE IF n = 1 THEN {"twotap", "threetap"}
                    ELSE IF n = 2 THEN {"onetap", "threetap"} ELSE {})
      t2 == IF HasDetectedGesture(t1) THEN t1
            ELSE [t1 EXCEPT !.state = @ \ gone, !.longpress = FALSE, !.waiting = TRUE,
                            !.late = t.waiting /\ @]
  IN  IF ~t2.waiting THEN t2
      ELSE [t2 EXCEPT !.state = IF t2.late \/ t2.age = 2 THEN {} ELSE @,
                      !.tracked = [i \in 1 .. n |->
                         IF t2.tracked[i].id = id THEN [t2.tracked[i] EXCEPT !.active = FALSE]
                         ELSE t2.tracked[i]]]

\* (A mutant: the waiting for releases is not reset.)
EndTouchKeepsWaiting(t, id) ==
  LET ignored == (t.ignored \cup Active(t)) \ {id}
  IN  [t EXCEPT !.tracked = <<>>, !.ignored = ignored,
                !.state = IF ignored = {} THEN Kinds ELSE {}]

\* The end of _touchEnd: the fingers that remain are ignored.
EndTouch(t, id) ==
  LET ignored == (t.ignored \cup Active(t)) \ {id}
  IN  [t EXCEPT !.tracked = <<>>, !.ignored = ignored, !.age = 0,
                !.state = IF ignored = {} THEN Kinds ELSE {},
                !.waiting = @ /\ ignored # {}, !.late = @ /\ ignored # {}]

EndIgnored(t, id) ==
  IF t.ignored = {id} /\ t.tracked = <<>>
  THEN [t EXCEPT !.ignored = {}, !.state = Kinds, !.waiting = FALSE, !.late = FALSE]
  ELSE [t EXCEPT !.ignored = @ \ {id}]

-----------------------------------------------------------------------------
(* The keyboard's events. *)

UserRecords ==
  [held : SUBSET (PhysicalKeys \cup {"AltGrControl"}),  \* a fake Control key of Windows
   silent : SUBSET PhysicalKeys,     \* keys whose release the system will not report
   focus : {"canvas", "page", "away"},
   local : {"on", "off"},            \* CapsLock
   buttons : SUBSET {"left", "middle", "right"},
   at : 0 .. 2,                      \* the pointer; 0 is outside the canvas
   fingers : SUBSET Fingers]

Listening == user.focus = "canvas" /\ ~io.viewOnly
KeepTrack == left' = left \cap io'.down

Shifts == {"ShiftLeft", "ShiftRight"}
FakeControl == CHOOSE e \in EventsOf("ControlLeft") : TRUE

\* A key is pressed, or repeats.  Windows makes AltGr of a fake Control key,
\* unless Control is held already, and never reports the release of some
\* keys; macOS does not report it of a key pressed while Meta is held, and
\* turns CapsLock on with a keydown and off with a keyup.
PressKey(c) ==
  LET again == c \in user.held
      fake == Windows /\ c = "AltRight" /\ "ControlLeft" \notin user.held
      meta == "MetaLeft" \in user.held \/ c = "MetaLeft"
      mute == (Mac /\ c # "MetaLeft" /\ "MetaLeft" \in user.held) \/ (Windows /\ c = "Lang")
      toggles == Mac /\ c = "CapsLock"
      local == IF c # "CapsLock" \/ again THEN user.local
               ELSE IF user.local = "on" THEN "off" ELSE "on"
      r == IF fake THEN HandleKeyDown(io, FakeControl, FALSE, FALSE, local) ELSE io
  IN  /\ user.focus = "canvas" /\ Len(io.reports) <= MaxReports
      /\ user' = [user EXCEPT !.local = local,
                     !.held = IF toggles THEN @
                              ELSE @ \cup {c} \cup (IF fake THEN {"AltGrControl"} ELSE {}),
                     !.silent = IF mute /\ ~toggles THEN @ \cup {c} ELSE @ \ {c}]
      /\ IF ~Listening THEN UNCHANGED io
         ELSE \E e \in EventsOf(c), quick \in BOOLEAN :
                io' = IF toggles /\ local = "off" THEN HandleKeyUp(io, e)
                      ELSE HandleKeyDown(r, e, fake \/ quick, meta, local)
      /\ KeepTrack
      /\ UNCHANGED <<setup, g, strayed, unseen>>

\* Windows does not report a Shift key while the other is held.
ReleaseKey(c) ==
  LET fake == c = "AltRight" /\ "AltGrControl" \in user.held
      silent == c \in user.silent \/ (Windows /\ c \in Shifts /\ Shifts \subseteq user.held)
      r == IF fake THEN HandleKeyUp(io, FakeControl) ELSE io
  IN  /\ c \in user.held
      /\ user' = [user EXCEPT !.held = @ \ ({c} \cup (IF fake THEN {"AltGrControl"} ELSE {})),
                              !.silent = @ \ {c}]
      /\ IF ~Listening \/ silent THEN UNCHANGED io
         ELSE \E e \in EventsOf(c) : io' = HandleKeyUp(r, e)
      /\ strayed' = (strayed \/ (user.focus = "page" /\ ~io.viewOnly))
      /\ KeepTrack
      /\ UNCHANGED <<setup, g, unseen>>

\* 100 ms after the Control key.
AltGrTimeout ==
  /\ io.armed
  /\ io' = InterruptAltGrSequence(io, "null")
  /\ KeepTrack
  /\ UNCHANGED <<setup, user, g, strayed, unseen>>

\* The window loses the focus.
Blur ==
  /\ user.focus # "away" /\ setup.keys # {}
  /\ user' = [user EXCEPT !.focus = "away"]
  /\ io' = IF io.viewOnly THEN io ELSE AllKeysUp(io)
  /\ strayed' = FALSE
  /\ KeepTrack
  /\ UNCHANGED <<setup, g, unseen>>

\* It comes back, or the focus moves within the page, which is no blur.
Focus(f) ==
  /\ user.focus # f /\ setup.keys # {}
  /\ user' = [user EXCEPT !.focus = f]
  /\ UNCHANGED <<setup, io, g, left, strayed, unseen>>

\* CapsLock is used in another window.
LockElsewhere ==
  /\ user.focus = "away" /\ setup.leds
  /\ user' = [user EXCEPT !.local = IF @ = "on" THEN "off" ELSE "on"]
  /\ UNCHANGED <<setup, io, g, left, strayed, unseen>>

\* RFB._handleLedEvent
HandleLedEvent ==
  /\ io.reports # <<>>
  /\ io' = [io EXCEPT !.known = Head(io.reports), !.reports = Tail(@)]
  /\ UNCHANGED <<setup, user, g, left, strayed, unseen>>

-----------------------------------------------------------------------------
(* The script's buttons, and the switch of the page. *)

SendWindowsKey ==
  /\ setup.keys # {} /\ io.wins < MaxWins
  /\ io' = [SendKey(io, "Super_L", "Unidentified", TRUE) EXCEPT !.wins = @ + 1]
  /\ KeepTrack
  /\ UNCHANGED <<setup, user, g, strayed, unseen>>

\* (A mutant: its timer sends nothing.)
WinKeyUpForgets ==
  /\ io.wins > 0
  /\ io' = [io EXCEPT !.wins = @ - 1]
  /\ KeepTrack
  /\ UNCHANGED <<setup, user, g, strayed, unseen>>

\* Its timer of 100 ms.
WinKeyUp ==
  /\ io.wins > 0
  /\ io' = [SendKey(io, "Super_L", "Unidentified", FALSE) EXCEPT !.wins = @ - 1]
  /\ KeepTrack
  /\ UNCHANGED <<setup, user, g, strayed, unseen>>

\* (A mutant: Alt is not released.)
SendCtrlAltDelKeepsAlt ==
  LET r1 == SendKey(SendKey(io, "Control_L", "ControlLeft", TRUE), "Alt_L", "AltLeft", TRUE)
  IN  /\ setup.keys # {}
      /\ io' = SendKey(Press(r1, "Delete", "Delete"), "Control_L", "ControlLeft", FALSE)
      /\ KeepTrack
      /\ UNCHANGED <<setup, user, g, strayed, unseen>>

\* sendCtrlAltDel presses three keys and releases them in the other order.
SendCtrlAltDel ==
  LET r1 == SendKey(SendKey(io, "Control_L", "ControlLeft", TRUE), "Alt_L", "AltLeft", TRUE)
      r2 == SendKey(Press(r1, "Delete", "Delete"), "Alt_L", "AltLeft", FALSE)
  IN  /\ setup.keys # {}
      /\ io' = SendKey(r2, "Control_L", "ControlLeft", FALSE)
      /\ KeepTrack
      /\ UNCHANGED <<setup, user, g, strayed, unseen>>

\* setVncViewOnly and the setter of rfb.viewOnly, which lets the keyboard go
\* after view-only is on.
SetViewOnly(on) ==
  /\ io' = IF on THEN AllKeysUp([io EXCEPT !.viewOnly = TRUE]) ELSE [io EXCEPT !.viewOnly = FALSE]
  /\ left' = IF on THEN io'.down ELSE left \cap io'.down
  /\ strayed' = (strayed /\ ~on)
  /\ UNCHANGED <<setup, user, g, unseen>>

-----------------------------------------------------------------------------
(* The mouse's events. *)

\* clientToElement keeps a position within the canvas.
Clamp(pos) == IF pos = 0 THEN 1 ELSE pos
Seen == io.capture \/ user.at # 0

\* While the pointer is captured, an element without a listener for it lies
\* above the canvas.
MouseDown(b) ==
  /\ b \in setup.buttons \ user.buttons
  /\ user' = [user EXCEPT !.buttons = @ \cup {b}]
  /\ IF user.at # 0 /\ ~io.capture
     THEN /\ io' = [HandleMouseButton(io, user.at, user'.buttons) EXCEPT !.capture = TRUE]
          /\ unseen' = FALSE
     ELSE UNCHANGED <<io, unseen>>
  /\ UNCHANGED <<setup, g, left, strayed>>

\* The release of any button ends the capture.
MouseUp(b) ==
  /\ b \in user.buttons
  /\ user' = [user EXCEPT !.buttons = @ \ {b}]
  /\ IF Seen
     THEN /\ io' = [HandleMouseButton(io, Clamp(user.at), user'.buttons) EXCEPT !.capture = FALSE]
          /\ unseen' = FALSE
     ELSE /\ unseen' = (unseen \/ b \in io.mask)
          /\ UNCHANGED io
  /\ UNCHANGED <<setup, g, left, strayed>>

MouseMove(pos) ==
  /\ setup.buttons # {} /\ pos # user.at
  /\ user' = [user EXCEPT !.at = pos]
  /\ io' = IF io.capture \/ pos # 0 THEN HandleMouseMove(io, Clamp(pos)) ELSE io
  /\ UNCHANGED <<setup, g, left, strayed, unseen>>

\* A wheel event does not reach the canvas while the pointer is captured.
Wheel(delta) ==
  /\ setup.buttons # {} /\ user.at # 0 /\ ~io.capture /\ ~io.viewOnly
  /\ io' = HandleWheel(io, user.at, user.buttons, delta)
  /\ unseen' = (unseen /\ io'.wheel = io.wheel + delta)
  /\ UNCHANGED <<setup, user, g, left, strayed>>

HandleDelayedMouseMove ==
  /\ io.timer
  /\ io' = [SendMouse([io EXCEPT !.timer = FALSE], io.pos, io.mask) EXCEPT !.cooling = TRUE]
  /\ UNCHANGED <<setup, user, g, left, strayed, unseen>>

CoolDown ==
  /\ io.cooling /\ ~io.timer
  /\ io' = [io EXCEPT !.cooling = FALSE]
  /\ UNCHANGED <<setup, user, g, left, strayed, unseen>>

-----------------------------------------------------------------------------
(* The touch events. *)

Scrolls == {"none", "wheelUp", "wheelDown"}

TouchStart(id) ==
  /\ id \in setup.fingers \ user.fingers /\ \A k \in 1 .. id - 1 : k \in user.fingers
  /\ user' = [user EXCEPT !.fingers = @ \cup {id}]
  /\ g' = StartTouch(g, id)
  /\ UNCHANGED <<setup, io, left, strayed, unseen>>

\* A move of an ignored finger does nothing.
TouchMove(id, far, apart, pos, scroll) ==
  /\ id \in user.fingers /\ \E t \in Tracked(g) : t.id = id
  /\ g' = MoveTouch(g, id, far, apart)
  /\ io' = IF ~HasDetectedGesture(g') THEN io
           ELSE GestureMove(IF HasDetectedGesture(g) THEN io
                            ELSE GestureStart(io, KindOf(g'), pos), KindOf(g'), pos, scroll)
  /\ KeepTrack
  /\ UNCHANGED <<setup, user, strayed, unseen>>

\* A gesture that waited for releases starts and ends with the last of them.
TouchEnd(id, pos) ==
  LET t == ReleaseTouch(g, id)
      r == IF t.waiting /\ HasDetectedGesture(t) THEN GestureStart(io, KindOf(t), pos) ELSE io
  IN  /\ id \in user.fingers
      /\ user' = [user EXCEPT !.fingers = @ \ {id}]
      /\ IF id \in g.ignored THEN g' = EndIgnored(g, id) /\ UNCHANGED io
         ELSE IF t.waiting /\ ~HasDetectedGesture(t) /\ t.state # {} THEN g' = t /\ UNCHANGED io
         ELSE /\ g' = EndTouch(t, id)
              /\ io' = IF HasDetectedGesture(t) THEN GestureEnd(r, KindOf(t), pos) ELSE io
      /\ UNCHANGED <<setup, left, strayed, unseen>>

\* A second of the first finger; the handler throws when a gesture is known.
LongpressTimeout(pos) ==
  /\ g.longpress /\ g.age = 2
  /\ IF HasDetectedGesture(g) \/ g.tracked = <<>>
     THEN g' = [g EXCEPT !.longpress = FALSE] /\ UNCHANGED io
     ELSE /\ g' = [g EXCEPT !.longpress = FALSE, !.state = {"longpress"}]
          /\ io' = GestureStart(io, "longpress", pos)
  /\ UNCHANGED <<setup, user, left, strayed, unseen>>

\* 50 ms after the first far move of one of two fingers: the distances tell.
\* It throws without a finger, and does not clear _twoTouchTimeoutId.
TwoTouchTimeout(kind, pos, scroll) ==
  /\ g.twoTouch
  /\ IF g.tracked = <<>> THEN g' = [g EXCEPT !.twoTouch = FALSE] /\ UNCHANGED io
     ELSE /\ g' = [g EXCEPT !.twoTouch = FALSE, !.state = {kind}]
          /\ io' = GestureMove(GestureStart(io, kind, pos), kind, pos, scroll)
  /\ KeepTrack
  /\ UNCHANGED <<setup, user, strayed, unseen>>

\* Time passes since the first touch, and since the first release.
TouchAges ==
  /\ g.tracked # <<>> /\ g.age < 2
  /\ g' = [g EXCEPT !.age = @ + 1]
  /\ UNCHANGED <<setup, user, io, left, strayed, unseen>>

ReleaseAges ==
  /\ g.waiting /\ ~g.late
  /\ g' = [g EXCEPT !.late = TRUE]
  /\ UNCHANGED <<setup, user, io, left, strayed, unseen>>

-----------------------------------------------------------------------------
Init ==
  /\ setup \in Setups
  /\ user = [held |-> {}, silent |-> {}, focus |-> "canvas", local |-> "off", buttons |-> {},
             at |-> 0, fingers |-> {}]
  /\ io = [viewOnly |-> setup.viewOnly, list |-> [c \in Codes |-> Up], armed |-> FALSE,
           known |-> "null", wins |-> 0, mask |-> {}, pos |-> 0, timer |-> FALSE,
           cooling |-> FALSE, wheel |-> 0, capture |-> FALSE, down |-> {}, caps |-> "off",
           reports |-> IF setup.leds THEN <<"off">> ELSE <<>>, buttons |-> {}, at |-> 0,
           muted |-> FALSE]
  /\ g = NoTouch
  /\ left = {} /\ strayed = FALSE /\ unseen = FALSE

Keyboard ==
  \/ \E c \in setup.keys : PressKey(c) \/ ReleaseKey(c)
  \/ AltGrTimeout \/ Blur \/ \E f \in {"canvas", "page"} : Focus(f)
  \/ LockElsewhere \/ HandleLedEvent
  \/ SendWindowsKey \/ WinKeyUp \/ SendCtrlAltDel

Mouse ==
  \/ \E b \in setup.buttons : MouseDown(b) \/ MouseUp(b)
  \/ \E pos \in setup.positions : MouseMove(pos)
  \/ \E delta \in {-1, 1} : Wheel(delta)
  \/ HandleDelayedMouseMove \/ CoolDown

Touch ==
  \/ \E id \in setup.fingers : TouchStart(id)
  \/ \E id \in setup.fingers, far, apart \in BOOLEAN, pos \in setup.positions, scroll \in Scrolls :
       TouchMove(id, far, apart, pos, scroll)
  \/ \E id \in setup.fingers, pos \in setup.positions : TouchEnd(id, pos)
  \/ \E pos \in setup.positions : LongpressTimeout(pos)
  \/ \E kind \in {"twodrag", "pinch"}, pos \in setup.positions, scroll \in Scrolls :
       TwoTouchTimeout(kind, pos, scroll)
  \/ TouchAges \/ ReleaseAges

Next == Keyboard \/ Mouse \/ Touch \/ \E on \in BOOLEAN : SetViewOnly(on)

Spec == Init /\ [][Next]_vars

\* Timers of the browser run.
FairSpec == Spec /\ WF_vars(AltGrTimeout) /\ WF_vars(WinKeyUp) /\ WF_vars(HandleDelayedMouseMove)

-----------------------------------------------------------------------------
(* What is checked. *)

\* The types of the variables.
TypeOK ==
  /\ setup \in Setups
  /\ user \in UserRecords
  /\ io \in InputRecords
  /\ g \in GestureRecords
  /\ left \subseteq Keysyms \cup Codes \cup {"AltLeft"}
  /\ strayed \in BOOLEAN /\ unseen \in BOOLEAN

\* Every key the kiosk holds down is in _keyDownList or waits for the timer of
\* the Windows key, so something will release it - but for the keys that were
\* down when view-only was switched on (keyboard.js, rfb.js sendKey).
KeysHaveHolder ==
  io.down \subseteq {KeyId(io.list[c], c) : c \in {k \in Codes : io.list[k] # Up}}
                    \cup (IF io.wins > 0 THEN {"Super_L"} ELSE {}) \cup left

\* When the user holds no key, none is in _keyDownList, whatever the system
\* left unreported - but for keys let go of while the page had the focus
\* (keyboard.js: AltGr, Shift, Meta, CapsLock and the Japanese keys).
NoKeyForgotten ==
  user.held = {} /\ ~strayed => ~io.armed /\ \A c \in Codes : io.list[c] = Up

\* CapsLock of the kiosk changes only to what the user's is (rfb.js
\* _handleKeyEvent, "to bring it into sync") - but for a pinch, which leaves
\* the lock's argument out and so toggles it whatever the user's is.
LockFollows ==
  [][io'.caps # io.caps /\ "CapsLock" \notin setup.keys =>
       io'.caps = user'.local \/ g'.state = {"pinch"}]_vars

\* The kiosk holds no button that the user does not hold, or that no drag or
\* long press of a finger on the screen stands for (rfb.js, gesturehandler.js,
\* events.js) - but for messages dropped in view-only mode and releases that
\* no listener saw.  Who uses mouse and screen at once mixes their buttons.
ButtonsAreHeld ==
  io.buttons # {} /\ ~io.muted /\ ~unseen =>
    IF setup.fingers = {} THEN io.buttons \subseteq user.buttons
    ELSE setup.buttons = {} =>
           g.state \in {{"drag"}, {"longpress"}} /\ Active(g) \cap user.fingers # {}

\* With no timer pending the kiosk's pointer is where the mouse is, if no
\* finger moves it too (rfb.js _handleMouseMove and its timer).
PointerArrives ==
  setup.fingers = {} /\ user.at # 0 /\ ~io.timer /\ ~io.muted => io.at = user.at

\* With no finger on the screen the GestureHandler is as new and none of its
\* timers runs on, and a timer that ends finds a finger and no other gesture,
\* so that it never throws (gesturehandler.js _touchEnd, _longpressTimeout,
\* _twoTouchTimeout).
TouchStartsAfresh ==
  /\ user.fingers = {} => [g EXCEPT !.twoTouchId = FALSE] = NoTouch
  /\ g.longpress \/ g.twoTouch => g.tracked # <<>>
  /\ g.longpress => ~HasDetectedGesture(g)

Untouched == user.held = {} /\ user.buttons = {} /\ user.fingers = {}
Released == io.down \subseteq left /\ (io.buttons = {} \/ io.muted \/ unseen)

\* When the user lets go of everything, so does the kiosk in the end
\* (the timers of keyboard.js, rfb.js and vnc-interop.js).
LetsGo == Untouched ~> (Released \/ strayed \/ ~Untouched)
=============================================================================
