-------------------------- MODULE RfbResizeProofs ---------------------------
(***************************************************************************)
(* Proofs about RfbResize, for every number of units in a pixel, every set *)
(* of windows and of sizes, and every number of announcements on the way.  *)
(***************************************************************************)
EXTENDS RfbResize, SequenceTheorems, TLAPS

-----------------------------------------------------------------------------
(* Sizes. *)

LEMMA WholePixels ==
  ASSUME NEW a \in Nat, NEW u \in Nat \ {0}
  PROVE  (a * u) \div u = a
<1>1. PICK q \in Int : q = (a * u) \div u
  OBVIOUS
<1>. QED  OBVIOUS

LEMMA FitIsPair ==
  ASSUME NEW w \in Windows
  PROVE  Fit(w) \in Pairs
BY RfbResizeAssumption DEF Fit, Pairs

\* A window of exactly the size of the screen fits it.
LEMMA ExactFits ==
  ASSUME NEW w \in Windows, NEW size \in Pairs, Exactly(w, size)
  PROVE  Fit(w) = size
<1>1. PICK a \in Nat, b \in Nat : size = <<a, b>>
  BY DEF Pairs
<1>2. Unit \in Nat \ {0}
  BY RfbResizeAssumption
<1>3. w.box[1] = a * Unit /\ w.box[2] = b * Unit
  BY <1>1 DEF Exactly
<1>4. (a * Unit) \div Unit = a /\ (b * Unit) \div Unit = b
  BY <1>2, WholePixels
<1>. QED  BY <1>1, <1>3, <1>4 DEF Fit

LEMMA PairsAreSizes ==
  ASSUME NEW p \in Pairs
  PROVE  p # <<>>
BY DEF Pairs

-----------------------------------------------------------------------------
(* The client. *)

\* The client knows that the sizes differ and will compare them.
Looks(z) == z.supported /\ ~z.lost /\ Fit(window) # z.fb => z.pending \/ z.timer

\* A request may have been sent from z to y.
Asks(z, y) ==
  \/ y.pending = z.pending /\ y.asked = z.asked
  \/ ~z.pending /\ y.pending /\ y.asked \in Pairs

LEMMA RequestFacts ==
  ASSUME NEW z \in Clients, window \in Windows, viewOnly \in BOOLEAN
  PROVE  /\ Request(z) \in Clients /\ Asks(z, Request(z)) /\ Looks(Request(z))
         /\ Request(z).supported = z.supported /\ Request(z).seen = z.seen
<1>1. Fit(window) \in Pairs
  BY FitIsPair
<1>2. Exactly(window, z.fb) => Fit(window) = z.fb
  BY ExactFits DEF Clients
<1>3. CASE viewOnly
  BY <1>3 DEF Request, Clients, Asks, Looks, Overlooked
<1>4. CASE ~viewOnly /\ (~z.supported \/ z.pending)
  BY <1>4 DEF Request, Clients, Asks, Looks
<1>5. CASE ~viewOnly /\ z.supported /\ ~z.pending /\ z.lately
  BY <1>5 DEF Request, Clients, Asks, Looks
<1>6. CASE ~viewOnly /\ z.supported /\ ~z.pending /\ ~z.lately
  <2>1. CASE Exactly(window, z.fb)
    BY <1>2, <1>6, <2>1 DEF Request, Clients, Asks, Looks
  <2>2. CASE ~Exactly(window, z.fb)
    BY <1>1, <1>6, <2>2 DEF Request, Ask, Clients, Asks, Looks
  <2>. QED  BY <2>1, <2>2
<1>. QED  BY <1>3, <1>4, <1>5, <1>6

LEMMA SupportedFacts ==
  ASSUME NEW z \in Clients, window \in Windows, viewOnly \in BOOLEAN
  PROVE  /\ Supported(z) \in Clients /\ Asks(z, Supported(z))
         /\ Looks(Supported(z)) \/ (z.supported /\ Supported(z) = z)
<1>1. CASE z.supported
  BY <1>1 DEF Supported, Asks
<1>2. CASE ~z.supported
  <2>1. PICK y : y = [z EXCEPT !.supported = TRUE]
    OBVIOUS
  <2>2. y \in Clients /\ y.pending = z.pending /\ y.asked = z.asked
    BY <2>1 DEF Clients
  <2>3. Supported(z) = Request(y)
    BY <1>2, <2>1 DEF Supported
  <2>4. Request(y) \in Clients /\ Asks(y, Request(y)) /\ Looks(Request(y))
    BY <2>2, RequestFacts
  <2>. QED  BY <2>2, <2>3, <2>4 DEF Asks
<1>. QED  BY <1>1, <1>2

LEMMA ExpectFacts ==
  ASSUME NEW z \in Clients, window \in Windows
  PROVE  /\ Expect(z) \in Clients
         /\ \A field \in DOMAIN z \ {"expected"} : Expect(z)[field] = z[field]
BY DEF Expect, ClientSize, Clients

-----------------------------------------------------------------------------
(* The messages on the wire. *)

AnswersIn(q) == {k \in 1..Len(q) : q[k].kind \in Answers}

\* At most one answer, none while a request is unanswered, and the wire is
\* longer than the announcements make it only by the answer.
Wired(z, q) ==
  /\ z.pending <=> z.asked # <<>> \/ AnswersIn(q) # {}
  /\ \A j, k \in AnswersIn(q) : j = k
  /\ z.asked # <<>> => AnswersIn(q) = {}
  /\ Len(q) <= MaxWire + 1
  /\ Len(q) > MaxWire => AnswersIn(q) # {}

Inv == TypeOK /\ Wired(rfb, wire) /\ ChangeIsNoticed

\* A step of the client that may send a request.
LEMMA WireKept ==
  ASSUME NEW y \in Clients, NEW z \in Clients, NEW q \in Seq(Messages), Wired(z, q), Asks(z, y)
  PROVE  Wired(y, q)
BY PairsAreSizes DEF Wired, Asks, Clients

\* No announcement is an answer.
LEMMA WireLonger ==
  ASSUME NEW z \in Clients, NEW q \in Seq(Messages), NEW m \in Messages,
         Wired(z, q), m.kind \notin Answers, Len(q) < MaxWire
  PROVE  Wired(z, Append(q, m))
<1>1. MaxWire \in Nat
  BY RfbResizeAssumption
<1>2. PICK s : s = Append(q, m)
  OBVIOUS
<1>3. /\ Len(s) = Len(q) + 1 /\ Len(q) \in Nat /\ s[Len(q) + 1] = m
      /\ \A k \in 1..Len(q) : s[k] = q[k]
  BY <1>2
<1>4. AnswersIn(s) = AnswersIn(q)
  BY <1>3 DEF AnswersIn
<1>. QED  BY <1>1, <1>2, <1>3, <1>4 DEF Wired

LEMMA WireAnswered ==
  ASSUME NEW y \in Clients, NEW z \in Clients, NEW q \in Seq(Messages), NEW m \in Messages,
         Wired(z, q), m.kind \in Answers, z.asked # <<>>,
         y.asked = <<>>, y.pending = z.pending
  PROVE  Wired(y, Append(q, m))
<1>1. MaxWire \in Nat
  BY RfbResizeAssumption
<1>2. PICK s : s = Append(q, m)
  OBVIOUS
<1>3. /\ Len(s) = Len(q) + 1 /\ Len(q) \in Nat /\ s[Len(q) + 1] = m
      /\ \A k \in 1..Len(q) : s[k] = q[k]
  BY <1>2
<1>4. AnswersIn(q) = {}
  BY DEF Wired
<1>5. AnswersIn(s) = {Len(q) + 1}
  BY <1>3, <1>4 DEF AnswersIn
<1>. QED  BY <1>1, <1>2, <1>3, <1>4, <1>5 DEF Wired

\* The oldest message is read, and y is what the client is before it compares
\* the sizes.
LEMMA WireRead ==
  ASSUME NEW y \in Clients, NEW z \in Clients, NEW q \in Seq(Messages), q # <<>>,
         Wired(z, q), y.asked = z.asked,
         y.pending <=> z.pending /\ q[1].kind \notin Answers
  PROVE  Wired(y, Tail(q))
<1>1. MaxWire \in Nat
  BY RfbResizeAssumption
<1>2. PICK s : s = Tail(q)
  OBVIOUS
<1>3. /\ Len(q) \in Nat /\ Len(q) > 0 /\ Len(s) = Len(q) - 1
      /\ \A k \in 1..Len(s) : s[k] = q[k + 1]
  BY <1>2, HeadTailProperties
<1>4. \A k \in 1..Len(s) : k \in AnswersIn(s) <=> k + 1 \in AnswersIn(q)
  BY <1>3 DEF AnswersIn
<1>5. \A j, k \in AnswersIn(s) : j = k
  <2>1. ASSUME NEW j \in AnswersIn(s), NEW k \in AnswersIn(s)
        PROVE  j = k
    <3>1. j \in 1..Len(s) /\ k \in 1..Len(s)
      BY DEF AnswersIn
    <3>2. j + 1 = k + 1
      BY <1>4, <3>1 DEF Wired
    <3>. QED  BY <3>1, <3>2
  <2>. QED  BY <2>1
<1>6. Len(s) <= MaxWire
  BY <1>1, <1>3 DEF Wired
<1>7. CASE 1 \in AnswersIn(q)
  <2>1. AnswersIn(s) = {}
    <3>1. ASSUME NEW k \in AnswersIn(s)
          PROVE  FALSE
      <4>1. k \in 1..Len(s)
        BY DEF AnswersIn
      <4>2. k + 1 = 1
        BY <1>4, <1>7, <4>1 DEF Wired
      <4>. QED  BY <4>1, <4>2
    <3>. QED  BY <3>1
  <2>2. q[1].kind \in Answers /\ z.asked = <<>>
    BY <1>7 DEF AnswersIn, Wired
  <2>. QED  BY <1>1, <1>2, <1>3, <1>6, <2>1, <2>2 DEF Wired
<1>8. CASE 1 \notin AnswersIn(q)
  <2>1. q[1].kind \notin Answers
    BY <1>3, <1>8 DEF AnswersIn
  <2>2. AnswersIn(s) = {} <=> AnswersIn(q) = {}
    <3>1. ASSUME NEW k \in AnswersIn(q)
          PROVE  AnswersIn(s) # {}
      <4>1. k \in 1..Len(q) /\ k # 1
        BY <1>8 DEF AnswersIn
      <4>2. k - 1 \in 1..Len(s) /\ (k - 1) + 1 = k
        BY <1>3, <4>1
      <4>3. k - 1 \in AnswersIn(s)
        BY <1>4, <4>2
      <4>. QED  BY <4>3
    <3>2. ASSUME NEW k \in AnswersIn(s)
          PROVE  AnswersIn(q) # {}
      <4>1. k \in 1..Len(s)
        BY DEF AnswersIn
      <4>. QED  BY <1>4, <4>1
    <3>. QED  BY <3>1, <3>2
  <2>3. y.pending <=> z.pending
    BY <2>1
  <2>. QED  BY <1>1, <1>2, <1>3, <1>5, <1>6, <2>2, <2>3 DEF Wired
<1>. QED  BY <1>7, <1>8

-----------------------------------------------------------------------------
(* The steps. *)

LEMMA InvStarts == Init => Inv
<1> SUFFICES ASSUME Init PROVE Inv
  OBVIOUS
<1>1. wire = <<>> /\ MaxWire \in Nat /\ Sizes \subseteq Pairs
  BY RfbResizeAssumption DEF Init
<1>2. PICK size \in Sizes :
        rfb = [fb |-> size, expected |-> Hidden, seen |-> Hidden, frame |-> FALSE,
               supported |-> FALSE, pending |-> FALSE, lately |-> FALSE, timer |-> FALSE,
               asked |-> <<>>, lost |-> FALSE]
  BY DEF Init
<1>3. TypeOK
  BY <1>1, <1>2 DEF Init, TypeOK, Clients
<1>4. Wired(rfb, wire)
  BY <1>1, <1>2 DEF Wired, AnswersIn
<1>5. ChangeIsNoticed
  BY <1>2 DEF ChangeIsNoticed
<1>. QED  BY <1>3, <1>4, <1>5 DEF Inv

\* A change of the element is reported, or something will compare the sizes.
Notices(z) ==
  z.supported /\ ~z.lost /\ Fit(window) # z.fb => z.pending \/ z.timer \/ z.seen # window.box

LEMMA InvMeans ==
  ASSUME Inv
  PROVE  /\ window \in Windows /\ viewOnly \in BOOLEAN /\ rfb \in Clients
         /\ wire \in Seq(Messages) /\ Wired(rfb, wire) /\ Notices(rfb)
BY DEF Inv, TypeOK, ChangeIsNoticed, Notices

\* What is left to show of a step that keeps the window.
LEMMA InvShown ==
  ASSUME window' = window, window \in Windows, viewOnly' \in BOOLEAN, rfb' \in Clients,
         wire' \in Seq(Messages), Wired(rfb', wire'), Notices(rfb')
  PROVE  Inv'
<1>1. Len(wire') <= MaxWire + 1
  BY DEF Wired
<1>2. ChangeIsNoticed'
  BY DEF ChangeIsNoticed, Notices, Fit
<1>3. Wired(rfb, wire)'
  BY DEF Wired, AnswersIn
<1>4. TypeOK'
  BY <1>1 DEF TypeOK
<1>. QED  BY <1>2, <1>3, <1>4 DEF Inv

LEMMA WindowStep ==
  ASSUME Inv, NEW w \in Windows, ResizeWindow(w)
  PROVE  Inv'
<1>1. /\ window' = w /\ viewOnly' = viewOnly /\ wire' = wire
      /\ rfb' = [rfb EXCEPT !.lost = @ \/ (w.box = rfb.seen /\ Overlooked(rfb, w))]
  BY DEF ResizeWindow
<1>2. rfb \in Clients /\ viewOnly \in BOOLEAN /\ wire \in Seq(Messages) /\ Wired(rfb, wire)
  BY InvMeans
<1>3. rfb' \in Clients
  BY <1>1, <1>2 DEF Clients
<1>4. /\ rfb'.fb = rfb.fb /\ rfb'.pending = rfb.pending /\ rfb'.timer = rfb.timer
      /\ rfb'.seen = rfb.seen /\ rfb'.asked = rfb.asked
  BY <1>1, <1>2 DEF Clients
<1>5. w.box = rfb.seen /\ Overlooked(rfb, w) => rfb'.lost
  BY <1>1, <1>2 DEF Clients
<1>6. ChangeIsNoticed'
  BY <1>1, <1>4, <1>5 DEF ChangeIsNoticed, Overlooked, Fit
<1>7. Wired(rfb', wire')
  BY <1>1, <1>2, <1>3, <1>4, WireKept DEF Asks
<1>8. Wired(rfb, wire)' /\ Len(wire') <= MaxWire + 1
  BY <1>7 DEF Wired, AnswersIn
<1>9. TypeOK'
  BY <1>1, <1>2, <1>3, <1>8 DEF TypeOK
<1>. QED  BY <1>6, <1>8, <1>9 DEF Inv

LEMMA ClientStep ==
  ASSUME Inv, AnimationFrame \/ ObserveResize \/ CoolDown \/ RetryResize
  PROVE  Inv'
<1>1. /\ window \in Windows /\ viewOnly \in BOOLEAN /\ rfb \in Clients
      /\ wire \in Seq(Messages) /\ Wired(rfb, wire) /\ Notices(rfb)
  BY InvMeans
<1>2. window' = window /\ viewOnly' = viewOnly /\ wire' = wire
  BY DEF AnimationFrame, ObserveResize, CoolDown, RetryResize, Step
<1>3. rfb' \in Clients /\ Asks(rfb, rfb') /\ Notices(rfb')
  <2>1. CASE AnimationFrame
    <3>1. rfb' = [rfb EXCEPT !.expected = window.client, !.frame = FALSE]
      BY <1>1, <2>1 DEF AnimationFrame, Step, Expect, ClientSize, Clients
    <3>. QED  BY <1>1, <3>1 DEF Clients, Asks, Notices
  <2>2. CASE ObserveResize
    <3>1. rfb' = WindowResized(rfb)
      BY <2>2 DEF ObserveResize, Step
    <3>2. PICK y : y = [rfb EXCEPT !.seen = window.box]
      OBVIOUS
    <3>3. CASE ClientSize(window) = rfb.expected
      <4>1. rfb' = [y EXCEPT !.lost = @ \/ Overlooked(rfb, window)]
        BY <3>1, <3>2, <3>3 DEF WindowResized
      <4>. QED  BY <1>1, <3>2, <4>1 DEF Clients, Asks, Notices, Overlooked
    <3>4. CASE ClientSize(window) # rfb.expected
      <4>1. PICK x : x = [y EXCEPT !.frame = TRUE]
        OBVIOUS
      <4>2. rfb' = Request(x)
        BY <3>1, <3>2, <3>4, <4>1 DEF WindowResized
      <4>3. x \in Clients /\ x.pending = rfb.pending /\ x.asked = rfb.asked
        BY <1>1, <3>2, <4>1 DEF Clients
      <4>4. Request(x) \in Clients /\ Asks(x, Request(x)) /\ Looks(Request(x))
        BY <1>1, <4>3, RequestFacts
      <4>. QED  BY <4>2, <4>3, <4>4 DEF Asks, Looks, Notices
    <3>. QED  BY <3>3, <3>4
  <2>3. CASE CoolDown
    <3>1. rfb' = [rfb EXCEPT !.lately = FALSE]
      BY <2>3 DEF CoolDown, Step
    <3>. QED  BY <1>1, <3>1 DEF Clients, Asks, Notices
  <2>4. CASE RetryResize
    <3>1. PICK x : x = [rfb EXCEPT !.timer = FALSE]
      OBVIOUS
    <3>2. rfb' = Request(x)
      BY <2>4, <3>1 DEF RetryResize, Step
    <3>3. x \in Clients /\ x.pending = rfb.pending /\ x.asked = rfb.asked
      BY <1>1, <3>1 DEF Clients
    <3>4. Request(x) \in Clients /\ Asks(x, Request(x)) /\ Looks(Request(x))
      BY <1>1, <3>3, RequestFacts
    <3>. QED  BY <3>2, <3>3, <3>4 DEF Asks, Looks, Notices
  <2>. QED  BY <2>1, <2>2, <2>3, <2>4
<1>4. Wired(rfb', wire')
  BY <1>1, <1>2, <1>3, WireKept
<1>. QED  BY <1>1, <1>2, <1>3, <1>4, InvShown

LEMMA AnnounceStep ==
  ASSUME Inv, NEW kind \in {"extended", "plain"}, NEW size \in Sizes, Announce(kind, size)
  PROVE  Inv'
<1>1. /\ window \in Windows /\ viewOnly \in BOOLEAN /\ rfb \in Clients
      /\ wire \in Seq(Messages) /\ Wired(rfb, wire) /\ Notices(rfb)
  BY InvMeans
<1>2. PICK m : m = Message(kind, size)
  OBVIOUS
<1>3. m \in Messages /\ m.kind \notin Answers
  BY <1>2, RfbResizeAssumption DEF Message, Messages, Answers
<1>4. /\ Len(wire) < MaxWire /\ wire' = Append(wire, m)
      /\ window' = window /\ viewOnly' = viewOnly /\ rfb' = rfb
  BY <1>2 DEF Announce
<1>5. wire' \in Seq(Messages) /\ Wired(rfb', wire')
  BY <1>1, <1>3, <1>4, WireLonger
<1>. QED  BY <1>1, <1>4, <1>5, InvShown

LEMMA AnswerStep ==
  ASSUME Inv, Answer
  PROVE  Inv'
<1>1. /\ window \in Windows /\ viewOnly \in BOOLEAN /\ rfb \in Clients
      /\ wire \in Seq(Messages) /\ Wired(rfb, wire) /\ Notices(rfb)
  BY InvMeans
<1>2. PICK answer \in Answers : wire' = Append(wire, Message(answer, rfb.asked))
  BY DEF Answer
<1>3. PICK m : m = Message(answer, rfb.asked)
  OBVIOUS
<1>4. /\ rfb.asked # <<>> /\ rfb' = [rfb EXCEPT !.asked = <<>>]
      /\ window' = window /\ viewOnly' = viewOnly
  BY DEF Answer
<1>5. m \in Messages /\ m.kind \in Answers
  BY <1>1, <1>3, <1>4 DEF Message, Messages, Clients
<1>6. /\ rfb' \in Clients /\ rfb'.asked = <<>> /\ rfb'.pending = rfb.pending
      /\ Notices(rfb')
  BY <1>1, <1>4 DEF Clients, Notices
<1>7. wire' = Append(wire, m)
  BY <1>2, <1>3
<1>8. wire' \in Seq(Messages)
  BY <1>1, <1>5, <1>7
<1>9. Wired(rfb', wire')
  BY <1>1, <1>4, <1>5, <1>6, <1>7, WireAnswered
<1>. QED  BY <1>1, <1>4, <1>6, <1>8, <1>9, InvShown

\* y is what a message makes of the client before it compares the sizes.
LEMMA HandleStep ==
  ASSUME Inv, Handle
  PROVE  Inv'
<1>1. /\ window \in Windows /\ viewOnly \in BOOLEAN /\ rfb \in Clients
      /\ wire \in Seq(Messages) /\ Wired(rfb, wire) /\ Notices(rfb)
  BY InvMeans
<1>2. PICK m : m = Head(wire)
  OBVIOUS
<1>3. /\ wire # <<>> /\ wire' = Tail(wire) /\ window' = window /\ viewOnly' = viewOnly
  BY DEF Handle
<1>4. m \in Messages /\ m = wire[1] /\ wire' \in Seq(Messages)
  BY <1>1, <1>2, <1>3, HeadTailProperties, ElementOfSeq
<1>5. PICK e : e = Expect(rfb)
  OBVIOUS
<1>6. /\ e \in Clients /\ e.pending = rfb.pending /\ e.asked = rfb.asked /\ e.timer = rfb.timer
      /\ e.fb = rfb.fb /\ e.lost = rfb.lost /\ e.seen = rfb.seen /\ e.supported = rfb.supported
  BY <1>1, <1>5 DEF Expect, ClientSize, Clients
<1>7. ASSUME NEW y \in Clients, Asks(y, rfb'), rfb' \in Clients, Notices(rfb'),
             y.asked = rfb.asked,
             y.pending <=> rfb.pending /\ m.kind \notin Answers
      PROVE  Inv'
  <2>1. Wired(y, wire')
    BY <1>1, <1>3, <1>4, <1>7, WireRead
  <2>2. Wired(rfb', wire')
    BY <1>4, <1>7, <2>1, WireKept
  <2>. QED  BY <1>1, <1>3, <1>4, <1>7, <2>2, InvShown
<1>8. CASE m.kind = "granted"
  <2>1. PICK y : y = [e EXCEPT !.fb = m.size, !.pending = FALSE, !.lost = FALSE]
    OBVIOUS
  <2>2. y \in Clients /\ y.asked = rfb.asked /\ ~y.pending
    BY <1>4, <1>6, <2>1 DEF Clients, Messages
  <2>3. PICK x : x = Supported(y)
    OBVIOUS
  <2>4. x \in Clients /\ Asks(y, x)
    BY <1>1, <2>2, <2>3, SupportedFacts
  <2>5. rfb' = Request(x)
    BY <1>2, <1>5, <1>8, <2>1, <2>3 DEF Handle, SizeGranted, Granted
  <2>6. rfb' \in Clients /\ Asks(x, rfb') /\ Looks(rfb')
    BY <1>1, <2>4, <2>5, RequestFacts
  <2>7. Asks(y, rfb') /\ Notices(rfb')
    BY <2>4, <2>6 DEF Asks, Looks, Notices
  <2>8. m.kind \in Answers
    BY <1>8 DEF Answers
  <2>. QED  BY <1>7, <2>2, <2>6, <2>7, <2>8
<1>9. CASE m.kind = "refused"
  <2>1. PICK y : y = [rfb EXCEPT !.pending = FALSE, !.lost = TRUE]
    OBVIOUS
  <2>2. y \in Clients /\ y.asked = rfb.asked /\ ~y.pending /\ y.lost
    BY <1>1, <2>1 DEF Clients
  <2>3. rfb' = Supported(y)
    BY <1>2, <1>9, <2>1 DEF Handle, SizeRefused
  <2>4. rfb' \in Clients /\ Asks(y, rfb') /\ (Looks(rfb') \/ rfb' = y)
    BY <1>1, <2>2, <2>3, SupportedFacts
  <2>5. Notices(rfb')
    BY <2>2, <2>4 DEF Looks, Notices
  <2>6. m.kind \in Answers
    BY <1>9 DEF Answers
  <2>. QED  BY <1>7, <2>2, <2>4, <2>5, <2>6
<1>10. CASE m.kind \in {"extended", "plain"}
  <2>1. PICK y : y = SizeSet(rfb, m.size)
    OBVIOUS
  <2>2. y = [e EXCEPT !.fb = m.size, !.lost = @ \/ m.size # rfb.fb]
    BY <1>5, <2>1 DEF SizeSet
  <2>3. y \in Clients /\ y.asked = rfb.asked /\ y.pending = rfb.pending
    BY <1>4, <1>6, <2>2 DEF Clients, Messages
  <2>4. Notices(y)
    BY <1>1, <1>6, <2>2 DEF Clients, Notices
  <2>5. m.kind \notin Answers
    BY <1>10 DEF Answers
  <2>6. CASE m.kind = "extended"
    <3>1. rfb' = Supported(y)
      BY <1>2, <2>1, <2>6 DEF Handle
    <3>2. rfb' \in Clients /\ Asks(y, rfb') /\ (Looks(rfb') \/ rfb' = y)
      BY <1>1, <2>3, <3>1, SupportedFacts
    <3>3. Notices(rfb')
      BY <2>4, <3>2 DEF Looks, Notices
    <3>. QED  BY <1>7, <2>3, <2>5, <3>2, <3>3
  <2>7. CASE m.kind = "plain"
    <3>1. rfb' = y
      BY <1>2, <2>1, <2>7 DEF Handle
    <3>2. Asks(y, rfb')
      BY <3>1 DEF Asks
    <3>. QED  BY <1>7, <2>3, <2>4, <2>5, <3>1, <3>2
  <2>. QED  BY <1>10, <2>6, <2>7
<1>11. m.kind \in Answers \cup {"extended", "plain"}
  BY <1>4 DEF Messages
<1>. QED  BY <1>8, <1>9, <1>10, <1>11 DEF Answers

LEMMA InvKept ==
  ASSUME Inv, [Next]_vars
  PROVE  Inv'
<1>1. /\ window \in Windows /\ viewOnly \in BOOLEAN /\ rfb \in Clients
      /\ wire \in Seq(Messages) /\ Wired(rfb, wire) /\ Notices(rfb)
  BY InvMeans
<1>2. CASE UNCHANGED vars
  BY <1>1, <1>2, InvShown DEF vars
<1>3. CASE \E w \in Windows : ResizeWindow(w)
  BY <1>3, WindowStep
<1>4. CASE SwitchViewOnly
  <2>1. viewOnly' \in BOOLEAN /\ UNCHANGED <<window, rfb, wire>>
    BY <1>4 DEF SwitchViewOnly
  <2>. QED  BY <1>1, <2>1, InvShown
<1>5. CASE AnimationFrame \/ ObserveResize \/ CoolDown \/ RetryResize
  BY <1>5, ClientStep
<1>6. CASE Announcing
  BY <1>6, AnnounceStep DEF Announcing
<1>7. CASE Answer
  BY <1>7, AnswerStep
<1>8. CASE Handle
  BY <1>8, HandleStep
<1>. QED  BY <1>2, <1>3, <1>4, <1>5, <1>6, <1>7, <1>8 DEF Next

LEMMA InvHolds == Spec => []Inv
BY InvStarts, InvKept, PTL DEF Spec

-----------------------------------------------------------------------------
(***************************************************************************)
(* The client's record and the wire are what the handlers take them for;   *)
(* with the announcements, no more than one answer is on its way.          *)
(***************************************************************************)
THEOREM ResizeTypes == Spec => []TypeOK
<1>1. Inv => TypeOK
  BY DEF Inv
<1>. QED  BY <1>1, InvHolds, PTL

(***************************************************************************)
(* The rate limit holds (rfb.js:803-806, 2935-2937): the client takes a    *)
(* request for pending exactly while one, or its answer, is under way.     *)
(***************************************************************************)
THEOREM OneRequestPending == Spec => []OneRequest
<1>1. Inv => OneRequest
  <2>1. AnswersUnderWay = AnswersIn(wire)
    BY DEF AnswersUnderWay, AnswersIn
  <2>. QED  BY <2>1 DEF Inv, Wired, OneRequest
<1>. QED  BY <1>1, InvHolds, PTL

(***************************************************************************)
(* No change of the window is forgotten (rfb.js:728-832, 2963-2975) but    *)
(* for those the history lost names.                                       *)
(***************************************************************************)
THEOREM ChangesAreNoticed == Spec => []ChangeIsNoticed
<1>1. Inv => ChangeIsNoticed
  BY DEF Inv
<1>. QED  BY <1>1, InvHolds, PTL
=============================================================================
