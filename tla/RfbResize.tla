------------------------------ MODULE RfbResize ------------------------------
(***************************************************************************)
(* How the kiosk's screen follows the size of the operator's window, while *)
(* a session lasts (rfb.js): the client asks the server for the size of    *)
(* the page's screen element, one request at a time and one in 100 ms, and *)
(* compares again when it is granted.                                      *)
(*                                                                         *)
(* An element has two sizes.  Its box is measured in units of which a      *)
(* pixel has several (page zoom, display scaling and percentages make      *)
(* fractions of a pixel); clientWidth and clientHeight are whole pixels,   *)
(* rounded down or up as the place of the element has it.                  *)
(*                                                                         *)
(* RfbStream has these messages byte by byte; here each is handled whole.  *)
(***************************************************************************)
EXTENDS Naturals, Sequences

CONSTANTS
  Unit,    \* units in a pixel
  Windows, \* what the element may measure: its box in units, its size in pixels
  Sizes,   \* sizes the kiosk's screen begins with or is given by others
  MaxWire  \* bound on the announcements on their way

Pairs  == Nat \X Nat
Hidden == <<0, 0>>

ASSUME RfbResizeAssumption ==
  /\ Unit \in Nat \ {0}
  /\ Sizes \subseteq Pairs
  /\ MaxWire \in Nat
  /\ \A w \in Windows :
       /\ w \in [box : Pairs \ {Hidden}, client : Pairs]
       /\ \A i \in {1, 2} : w.client[i] \in {w.box[i] \div Unit, (w.box[i] + Unit - 1) \div Unit}

Answers  == {"granted", "refused"}
Messages == [kind : Answers \cup {"extended", "plain"}, size : Pairs]

VARIABLES
  window,   \* what the screen element measures
  viewOnly, \* set by the page at any time
  rfb,      \* the client
  wire      \* sizes on their way from the server, oldest first

vars == <<window, viewOnly, rfb, wire>>

(***************************************************************************)
(* fb is the size of the kiosk's screen as the client knows it, "expected" *)
(* the client size it has taken note of, "seen" the box the ResizeObserver *)
(* reported last, "asked" the request that is with the server.             *)
(* lost: history, the screen need not have the window's size, because the  *)
(* server refused it, has set another, or a change of the window was not   *)
(* looked for.                                                             *)
(***************************************************************************)
Clients ==
  [fb : Pairs, expected : {Hidden} \cup {w.client : w \in Windows},
   seen : {Hidden} \cup {w.box : w \in Windows}, frame : BOOLEAN, supported : BOOLEAN,
   pending : BOOLEAN, lately : BOOLEAN, timer : BOOLEAN, asked : {<<>>} \cup Pairs,
   lost : BOOLEAN]

TypeOK ==
  /\ window \in Windows
  /\ viewOnly \in BOOLEAN
  /\ rfb \in Clients
  /\ wire \in Seq(Messages) /\ Len(wire) <= MaxWire + 1

\* The page shows the element, hidden until then, when the session begins.
Init ==
  /\ window \in Windows
  /\ viewOnly \in BOOLEAN
  /\ \E size \in Sizes :
       rfb = [fb |-> size, expected |-> Hidden, seen |-> Hidden, frame |-> FALSE,
              supported |-> FALSE, pending |-> FALSE, lately |-> FALSE, timer |-> FALSE,
              asked |-> <<>>, lost |-> FALSE]
  /\ wire = <<>>

-----------------------------------------------------------------------------
\* (A mutant: the bounding rectangle instead.)
ClientSizeOfBox(w) == w.box

\* clientWidth and clientHeight.
ClientSize(w) == w.client

\* Math.floor of the bounding rectangle: the size a request asks for.
Fit(w) == <<w.box[1] \div Unit, w.box[2] \div Unit>>

\* The bounding rectangle is compared with the size of the screen unrounded.
Exactly(w, size) == w.box[1] = size[1] * Unit /\ w.box[2] = size[2] * Unit

\* The screen has another size than w would have it, and nothing is under way
\* that will compare them again.
Overlooked(z, w) == Fit(w) # z.fb /\ ~z.pending /\ ~z.timer

\* A request is sent.
Ask(z) == [z EXCEPT !.pending = TRUE, !.lately = TRUE, !.asked = Fit(window), !.lost = FALSE]

\* (A mutant: it is sent whether it changes anything or not.)
RequestAnyway(z) ==
  IF viewOnly THEN [z EXCEPT !.lost = @ \/ Overlooked(z, window)]
  ELSE IF ~z.supported \/ z.pending THEN z
  ELSE IF z.lately THEN [z EXCEPT !.timer = TRUE]
  ELSE Ask(z)

\* _requestRemoteResize.  A timer takes the place of the one before; one that
\* is still to fire when a request is sent by other means is only forgotten.
Request(z) ==
  IF viewOnly THEN [z EXCEPT !.lost = @ \/ Overlooked(z, window)]
  ELSE IF ~z.supported \/ z.pending THEN z
  ELSE IF z.lately THEN [z EXCEPT !.timer = TRUE]
  ELSE IF Exactly(window, z.fb) THEN z
  ELSE Ask(z)

\* _saveExpectedClientSize
Expect(z) == [z EXCEPT !.expected = ClientSize(window)]

\* _handleResize.  The animation frame of the change before, or a size from
\* the server, may have taken note of the client size; and two boxes may
\* have the same.
WindowResized(z) ==
  LET noted == [z EXCEPT !.seen = window.box]
  IN IF ClientSize(window) = z.expected
     THEN [noted EXCEPT !.lost = @ \/ Overlooked(z, window)]
     ELSE Request([noted EXCEPT !.frame = TRUE])

\* (A mutant: any new size is taken for the answer to the request.)
SizeSetAnswers(z, size) ==
  [Expect(z) EXCEPT !.fb = size, !.lost = @ \/ size # z.fb, !.pending = FALSE]

\* _resize, by the server or by another client.
SizeSet(z, size) == [Expect(z) EXCEPT !.fb = size, !.lost = @ \/ size # z.fb]

\* (A mutant: nothing is asked for at the start of the session.)
SupportedSilently(z) == [z EXCEPT !.supported = TRUE]

\* The first ExtendedDesktopSize says that the server can be asked.
Supported(z) == IF z.supported THEN z ELSE Request([z EXCEPT !.supported = TRUE])

\* A request that is refused, and one that is granted: the window may have
\* another size by now.
SizeRefused(z) == Supported([z EXCEPT !.pending = FALSE, !.lost = TRUE])

Granted(z, size) ==
  Supported([Expect(z) EXCEPT !.fb = size, !.pending = FALSE, !.lost = FALSE])

\* (A mutant: a change made while the request was pending is not looked for.)
SizeGrantedAsIs(z, size) == Granted(z, size)

SizeGranted(z, size) == Request(Granted(z, size))

-----------------------------------------------------------------------------
\* The element gets another size.  The observer does not report one that is
\* gone by the time the page is drawn.
ResizeWindow(w) ==
  /\ w # window
  /\ window' = w
  /\ rfb' = [rfb EXCEPT !.lost = @ \/ (w.box = rfb.seen /\ Overlooked(rfb, w))]
  /\ UNCHANGED <<viewOnly, wire>>

SwitchViewOnly == viewOnly' = ~viewOnly /\ UNCHANGED <<window, rfb, wire>>

\* Steps of the client alone.
Step(guard, next) == guard /\ rfb' = next /\ UNCHANGED <<window, viewOnly, wire>>

\* A frame that is drawn runs the callbacks asked for before, then reports sizes.
AnimationFrame == Step(rfb.frame, [Expect(rfb) EXCEPT !.frame = FALSE])

ObserveResize == Step(~rfb.frame /\ rfb.seen # window.box, WindowResized(rfb))

\* 100 ms after a request; the timer may be early by the clock it compares.
CoolDown == Step(rfb.lately, [rfb EXCEPT !.lately = FALSE])

RetryResize == Step(rfb.timer, Request([rfb EXCEPT !.timer = FALSE]))

-----------------------------------------------------------------------------
Message(kind, size) == [kind |-> kind, size |-> size]

\* The kiosk's screen gets another size by itself or by another client.
Announce(kind, size) ==
  /\ Len(wire) < MaxWire
  /\ wire' = Append(wire, Message(kind, size))
  /\ UNCHANGED <<window, viewOnly, rfb>>

Announcing == \E kind \in {"extended", "plain"}, size \in Sizes : Announce(kind, size)

\* The server's answer; one that grants a request gives the size asked for.
Answer ==
  /\ rfb.asked # <<>>
  /\ \E answer \in Answers : wire' = Append(wire, Message(answer, rfb.asked))
  /\ rfb' = [rfb EXCEPT !.asked = <<>>]
  /\ UNCHANGED <<window, viewOnly>>

\* DesktopSize and ExtendedDesktopSize.
Handle ==
  /\ wire # <<>>
  /\ wire' = Tail(wire)
  /\ LET m == Head(wire)
     IN rfb' = CASE m.kind = "granted"  -> SizeGranted(rfb, m.size)
                 [] m.kind = "refused"  -> SizeRefused(rfb)
                 [] m.kind = "extended" -> Supported(SizeSet(rfb, m.size))
                 [] m.kind = "plain"    -> SizeSet(rfb, m.size)
  /\ UNCHANGED <<window, viewOnly>>

Next ==
  \/ \E w \in Windows : ResizeWindow(w)
  \/ SwitchViewOnly
  \/ AnimationFrame \/ ObserveResize \/ CoolDown \/ RetryResize
  \/ Announcing \/ Answer \/ Handle

\* Frames are drawn, timers fire, and the server answers what it is asked.
Spec ==
  /\ Init /\ [][Next]_vars
  /\ WF_vars(AnimationFrame) /\ WF_vars(ObserveResize)
  /\ WF_vars(CoolDown) /\ WF_vars(RetryResize)
  /\ WF_vars(Answer) /\ WF_vars(Handle)

-----------------------------------------------------------------------------
AnswersUnderWay == {k \in 1..Len(wire) : wire[k].kind \in Answers}

(***************************************************************************)
(* "Rate limit to one pending resize at a time" (rfb.js:803): the client   *)
(* takes a request for pending exactly while one request, or the answer to *)
(* one, is under way, whatever other sizes come in between.                *)
(***************************************************************************)
OneRequest ==
  /\ rfb.pending <=> rfb.asked # <<>> \/ AnswersUnderWay # {}
  /\ \A j, k \in AnswersUnderWay : j = k
  /\ rfb.asked # <<>> => AnswersUnderWay = {}

(***************************************************************************)
(* While the screen has another size than the window would have it,        *)
(* something is under way that will compare them again (rfb.js:728-832,    *)
(* 2963-2975), unless the size is lost.                                    *)
(***************************************************************************)
ChangeIsNoticed ==
  rfb.supported /\ ~rfb.lost /\ Fit(window) # rfb.fb =>
    rfb.pending \/ rfb.timer \/ rfb.seen # window.box

(***************************************************************************)
(* Once the window stays as it is, the screen gets its size, down to a     *)
(* pixel, again and again, except in view-only, with a server that has no  *)
(* such extension, and when the size is lost.                              *)
(***************************************************************************)
WindowStays == <>[][FALSE]_window

WindowIsFollowed ==
  WindowStays => []<>(viewOnly \/ ~rfb.supported \/ rfb.lost \/ Fit(window) = rfb.fb)

(***************************************************************************)
(* Once the window stays at a whole number of pixels and nobody else sets  *)
(* a size, the client stops asking.                                        *)
(***************************************************************************)
OthersStop == <>[][~Announcing]_vars

AskingEnds ==
  WindowStays /\ OthersStop => <>[](Exactly(window, Fit(window)) => ~rfb.pending)
=============================================================================
