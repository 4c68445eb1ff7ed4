------------------------- MODULE RemoteInputProofs -------------------------
(***************************************************************************)
(* Proofs about RemoteInput: keys, locks, buttons, pointer and touches of  *)
(* a remote control session, for every set of computers and number of      *)
(* touches.  The GestureHandler comes first: what its timers and its lists *)
(* of fingers are worth.                                                   *)
(***************************************************************************)
EXTENDS RemoteInput, SequenceTheorems, TLAPS

-----------------------------------------------------------------------------
(* Sequences of tracked fingers. *)

Finger == [id : Fingers, active : BOOLEAN, far : BOOLEAN]

ActiveIn(q) == {q[i].id : i \in {j \in 1 .. Len(q) : q[j].active}}

LEMMA ActiveIsActiveIn ==
  ASSUME NEW t
  PROVE  Active(t) = ActiveIn(t.tracked)
BY DEF Active, ActiveIn, Tracked

LEMMA ActiveFingers ==
  ASSUME NEW q \in Seq(Finger)
  PROVE  ActiveIn(q) \subseteq Fingers
<1>1. ASSUME NEW i \in 1 .. Len(q)
      PROVE  q[i].id \in Fingers
  <2>1. q[i] \in Finger
    BY ElementOfSeq
  <2>. QED  BY <2>1 DEF Finger
<1>. QED  BY <1>1 DEF ActiveIn

LEMMA FingerSequences ==
  ASSUME NEW q \in Seq(Finger), NEW r \in [1 .. Len(q) -> Finger]
  PROVE  r \in Seq(Finger) /\ Len(r) = Len(q)
<1>1. Len(q) \in Nat
  BY LenProperties
<1>2. r \in Seq(Finger)
  BY <1>1, SeqDef
<1>3. Len(r) \in Nat /\ DOMAIN r = 1 .. Len(r) /\ DOMAIN r = 1 .. Len(q)
  BY <1>2, LenProperties
<1>. QED  BY <1>1, <1>2, <1>3

\* A finger is added.
LEMMA FingerAdded ==
  ASSUME NEW q \in Seq(Finger), NEW id \in Fingers
  PROVE  LET r == Append(q, [id |-> id, active |-> TRUE, far |-> FALSE])
         IN  r \in Seq(Finger) /\ Len(r) = Len(q) + 1 /\ ActiveIn(r) = ActiveIn(q) \cup {id}
<1>. DEFINE u == [id |-> id, active |-> TRUE, far |-> FALSE]
            r == Append(q, u)
<1>1. u \in Finger /\ u.id = id /\ u.active
  BY DEF Finger
<1>2. u = [id |-> id, active |-> TRUE, far |-> FALSE]
  OBVIOUS
<1>. HIDE DEF u
<1>3. /\ r \in Seq(Finger) /\ Len(r) = Len(q) + 1 /\ Len(q) \in Nat
      /\ \A i \in 1 .. Len(q) : r[i] = q[i]
      /\ r[Len(q) + 1] = u
  BY <1>1, AppendProperties
<1>. HIDE DEF r
<1>4. ActiveIn(r) = ActiveIn(q) \cup {id}
  BY <1>1, <1>3 DEF ActiveIn
<1>. QED  BY <1>2, <1>3, <1>4 DEF r

\* The finger of an event moves, or is let go of.
LEMMA FingerMoved ==
  ASSUME NEW q \in Seq(Finger), NEW id \in Fingers, NEW far \in BOOLEAN
  PROVE  LET r == [i \in 1 .. Len(q) |->
                     IF q[i].id = id THEN [q[i] EXCEPT !.far = far] ELSE q[i]]
         IN  r \in Seq(Finger) /\ Len(r) = Len(q) /\ ActiveIn(r) = ActiveIn(q)
<1>. DEFINE e(i) == IF q[i].id = id THEN [q[i] EXCEPT !.far = far] ELSE q[i]
            r == [i \in 1 .. Len(q) |-> e(i)]
<1>1. ASSUME NEW i \in 1 .. Len(q)
      PROVE  e(i) \in Finger /\ e(i).id = q[i].id /\ e(i).active = q[i].active
  <2>1. q[i] \in Finger
    BY ElementOfSeq
  <2>. QED  BY <2>1 DEF Finger
<1>. HIDE DEF e
<1>2. r \in [1 .. Len(q) -> Finger]
  BY <1>1
<1>3. r \in Seq(Finger) /\ Len(r) = Len(q)
  BY <1>2, FingerSequences
<1>4. ActiveIn(r) = ActiveIn(q)
  BY <1>1, <1>3 DEF ActiveIn
<1>. QED  BY <1>3, <1>4 DEF e

LEMMA FingerReleased ==
  ASSUME NEW q \in Seq(Finger), NEW id \in Fingers
  PROVE  LET r == [i \in 1 .. Len(q) |->
                     IF q[i].id = id THEN [q[i] EXCEPT !.active = FALSE] ELSE q[i]]
         IN  r \in Seq(Finger) /\ Len(r) = Len(q) /\ ActiveIn(r) = ActiveIn(q) \ {id}
<1>. DEFINE e(i) == IF q[i].id = id THEN [q[i] EXCEPT !.active = FALSE] ELSE q[i]
            r == [i \in 1 .. Len(q) |-> e(i)]
<1>1. ASSUME NEW i \in 1 .. Len(q)
      PROVE  /\ e(i) \in Finger /\ e(i).id = q[i].id
             /\ e(i).active <=> q[i].active /\ q[i].id # id
  <2>1. q[i] \in Finger
    BY ElementOfSeq
  <2>. QED  BY <2>1 DEF Finger
<1>. HIDE DEF e
<1>2. r \in [1 .. Len(q) -> Finger]
  BY <1>1
<1>3. r \in Seq(Finger) /\ Len(r) = Len(q)
  BY <1>2, FingerSequences
<1>4. ActiveIn(r) = ActiveIn(q) \ {id}
  BY <1>1, <1>3 DEF ActiveIn
<1>. QED  BY <1>3, <1>4 DEF e

-----------------------------------------------------------------------------
(***************************************************************************)
(* The inductive invariant of the GestureHandler and the fingers f on the  *)
(* screen.                                                                 *)
(***************************************************************************)
Singles == {{k} : k \in Kinds}
Holding == {"drag", "longpress"}

\* Every finger is tracked or ignored, and a handler that tracks still has one.
Touching(t, f) ==
  /\ Active(t) \cap t.ignored = {} /\ f = Active(t) \cup t.ignored
  /\ t.tracked # <<>> => Active(t) # {}

\* Between two gestures all is as new, but that a finger may remain.
Idle(t) ==
  /\ t.late => t.waiting
  /\ t.tracked = <<>> =>
       /\ t.age = 0 /\ t.state = IF t.ignored = {} THEN Kinds ELSE {}
       /\ t.ignored = {} => ~t.waiting

\* A timer runs for the touches it was started for, and no gesture is known.
Timers(t) ==
  /\ t.longpress => Len(t.tracked) = 1 /\ ~t.waiting
  /\ t.twoTouch => t.twoTouchId /\ Len(t.tracked) > 1
  /\ t.longpress \/ t.twoTouch => ~HasDetectedGesture(t)

\* What several fingers, and the first release, have ruled out.
Possible(t) ==
  /\ \/ t.state \in {{"twodrag"}, {"pinch"}}
     \/ "twodrag" \in t.state <=> "pinch" \in t.state
  /\ Len(t.tracked) > 1 => t.state \cap ({"onetap"} \cup Holding) = {}
  /\ Len(t.tracked) > 2 => "twotap" \notin t.state
  /\ t.waiting /\ t.tracked # <<>> => t.state \in {{}} \cup (Singles \ {{k} : k \in Holding})

GestureInv(t, f) ==
  t \in GestureRecords /\ Touching(t, f) /\ Idle(t) /\ Timers(t) /\ Possible(t)

\* A gesture is known by its state and by the fingers on the screen.
LEMMA DetectedFacts ==
  ASSUME NEW t
  PROVE  /\ HasDetectedGesture(t) =>
              /\ KindOf(t) \in Kinds /\ t.state = {KindOf(t)}
              /\ KindOf(t) \in Taps => Active(t) = {}
         /\ t.state = {} \/ t.state = Kinds => ~HasDetectedGesture(t)
         /\ t.state \in Singles /\ (t.state \in {{k} : k \in Taps} => Active(t) = {}) =>
              HasDetectedGesture(t)
<1>1. ASSUME NEW k \in Kinds, t.state = {k}
      PROVE  KindOf(t) = k
  <2>1. KindOf(t) \in Kinds /\ t.state = {KindOf(t)}
    BY <1>1 DEF KindOf
  <2>. QED  BY <1>1, <2>1
<1>2. HasDetectedGesture(t) => /\ KindOf(t) \in Kinds /\ t.state = {KindOf(t)}
                               /\ KindOf(t) \in Taps => Active(t) = {}
  BY <1>1 DEF HasDetectedGesture
<1>3. t.state = {} \/ t.state = Kinds => ~HasDetectedGesture(t)
  <2>1. Kinds # {} /\ \A k \in Kinds : Kinds # {k}
    <3>1. "drag" \in Kinds /\ "pinch" \in Kinds /\ "drag" # "pinch"
      BY DEF Kinds
    <3>. QED  BY <3>1
  <2>. QED  BY <2>1 DEF HasDetectedGesture
<1>4. t.state \in Singles /\ (t.state \in {{k} : k \in Taps} => Active(t) = {}) =>
        HasDetectedGesture(t)
  BY DEF HasDetectedGesture, Singles
<1>. QED  BY <1>2, <1>3, <1>4

LEMMA SameDetection ==
  ASSUME NEW s, NEW t, s.state = t.state, Active(s) = Active(t)
  PROVE  HasDetectedGesture(s) <=> HasDetectedGesture(t)
BY DEF HasDetectedGesture

\* With a finger on the screen only a single drag, press or pinch is known.
LEMMA DetectedWhileActive ==
  ASSUME NEW t, HasDetectedGesture(t), Active(t) # {}
  PROVE  t.state \in {{"drag"}, {"longpress"}, {"twodrag"}, {"pinch"}}
<1>1. KindOf(t) \in Kinds /\ t.state = {KindOf(t)} /\ KindOf(t) \notin Taps
  BY DetectedFacts
<1>. QED  BY <1>1 DEF Kinds, Taps

-----------------------------------------------------------------------------
(* The handlers keep it. *)

\* A finger touches the screen.
LEMMA StartTouchInv ==
  ASSUME NEW t, NEW f, GestureInv(t, f), NEW id \in Fingers \ f
  PROVE  GestureInv(StartTouch(t, id), f \cup {id})
<1>. DEFINE n == Len(t.tracked) + 1
            ignore == [t EXCEPT !.ignored = @ \cup {id}]
            track == [t EXCEPT !.tracked = Append(@, [id |-> id, active |-> TRUE, far |-> FALSE])]
            s == StartTouch(t, id)
            q == Append(t.tracked, [id |-> id, active |-> TRUE, far |-> FALSE])
<1>1. /\ t \in GestureRecords /\ t.tracked \in Seq(Finger) /\ Len(t.tracked) \in Nat
      /\ t.tracked = <<>> <=> Len(t.tracked) = 0
      /\ id \notin Active(t) /\ id \notin t.ignored
  BY EmptySeq, LenProperties DEF GestureInv, GestureRecords, Touching, Finger
<1>2. CASE HasDetectedGesture(t) \/ t.state = {}
  <2>1. s = ignore
    BY <1>2 DEF StartTouch
  <2>2. /\ s \in GestureRecords /\ s.ignored = t.ignored \cup {id} /\ s.tracked = t.tracked
        /\ s.state = t.state /\ s.waiting = t.waiting /\ s.late = t.late /\ s.age = t.age
        /\ s.longpress = t.longpress /\ s.twoTouch = t.twoTouch /\ s.twoTouchId = t.twoTouchId
    BY <1>1, <2>1 DEF GestureRecords
  <2>. HIDE DEF s
  <2>3. Active(s) = Active(t) /\ (HasDetectedGesture(s) <=> HasDetectedGesture(t))
    BY <2>2, ActiveIsActiveIn, SameDetection
  <2>4. Touching(s, f \cup {id})
    BY <1>1, <2>2, <2>3 DEF GestureInv, Touching
  <2>5. t.tracked = <<>> => t.state = {}
    BY <1>2, DetectedFacts DEF GestureInv, Idle
  <2>6. Idle(s)
    BY <2>2, <2>5 DEF GestureInv, Idle
  <2>7. Timers(s) /\ Possible(s)
    BY <2>2, <2>3 DEF GestureInv, Timers, Possible
  <2>. QED  BY <2>2, <2>4, <2>6, <2>7 DEF GestureInv, s
<1>3. CASE ~HasDetectedGesture(t) /\ t.state # {} /\ (t.waiting \/ (n > 1 /\ t.age > 0))
  <2>1. s = [ignore EXCEPT !.state = {}]
    BY <1>3 DEF StartTouch
  <2>2. /\ s \in GestureRecords /\ s.ignored = t.ignored \cup {id} /\ s.tracked = t.tracked
        /\ s.state = {} /\ s.waiting = t.waiting /\ s.late = t.late /\ s.age = t.age
        /\ s.longpress = t.longpress /\ s.twoTouch = t.twoTouch /\ s.twoTouchId = t.twoTouchId
    <3>1. /\ ignore \in GestureRecords /\ ignore.ignored = t.ignored \cup {id}
          /\ ignore.tracked = t.tracked /\ ignore.waiting = t.waiting
          /\ ignore.late = t.late /\ ignore.age = t.age /\ ignore.longpress = t.longpress
          /\ ignore.twoTouch = t.twoTouch /\ ignore.twoTouchId = t.twoTouchId
      BY <1>1 DEF GestureRecords
    <3>. HIDE DEF ignore, s
    <3>. QED  BY <2>1, <3>1 DEF GestureRecords
  <2>. HIDE DEF s
  <2>3. Active(s) = Active(t) /\ ~HasDetectedGesture(s)
    BY <2>2, ActiveIsActiveIn, DetectedFacts
  <2>4. Touching(s, f \cup {id})
    BY <1>1, <2>2, <2>3 DEF GestureInv, Touching
  <2>5. Idle(s) /\ Timers(s) /\ Possible(s)
    BY <2>2, <2>3 DEF GestureInv, Idle, Timers, Possible
  <2>. QED  BY <2>2, <2>4, <2>5 DEF GestureInv, s
<1>4. CASE ~HasDetectedGesture(t) /\ t.state # {} /\ ~(t.waiting \/ (n > 1 /\ t.age > 0))
  <2>1. q \in Seq(Finger) /\ Len(q) = n /\ ActiveIn(q) = ActiveIn(t.tracked) \cup {id}
    BY <1>1, FingerAdded
  <2>. HIDE DEF q
  <2>2. /\ track \in GestureRecords /\ track.ignored = t.ignored /\ track.tracked = q
        /\ track.state = t.state /\ track.waiting = t.waiting /\ track.late = t.late
        /\ track.age = t.age /\ track.longpress = t.longpress /\ track.twoTouch = t.twoTouch
        /\ track.twoTouchId = t.twoTouchId
    BY <1>1, <2>1 DEF GestureRecords, Finger, q
  <2>3. s = CASE n = 1 -> [track EXCEPT !.longpress = TRUE, !.age = 0]
              [] n = 2 -> [track EXCEPT !.state = @ \ {"onetap", "drag", "longpress"},
                                        !.longpress = FALSE]
              [] n = 3 -> [track EXCEPT !.state = @ \ {"twotap", "twodrag", "pinch"}]
              [] OTHER -> [track EXCEPT !.state = {}]
    BY <1>4 DEF StartTouch
  <2>. HIDE DEF track
  <2>4. /\ s \in GestureRecords /\ s.ignored = t.ignored /\ s.tracked = q
        /\ s.waiting = t.waiting /\ s.late = t.late /\ s.twoTouch = t.twoTouch
        /\ s.twoTouchId = t.twoTouchId
        /\ s.state = (IF n = 1 THEN t.state
                      ELSE IF n = 2 THEN t.state \ {"onetap", "drag", "longpress"}
                      ELSE IF n = 3 THEN t.state \ {"twotap", "twodrag", "pinch"} ELSE {})
        /\ s.longpress <=> n = 1 \/ (n # 2 /\ t.longpress)
    <3>. HIDE DEF s, n
    <3>1. CASE n = 1
      <4>1. s = [track EXCEPT !.longpress = TRUE, !.age = 0]
        BY <2>3, <3>1
      <4>2. s \in GestureRecords
        <5>. DEFINE x == [track EXCEPT !.longpress = TRUE]
        <5>1. x \in GestureRecords
          BY <2>2 DEF GestureRecords
        <5>2. s = [x EXCEPT !.age = 0]
          BY <4>1
        <5>. HIDE DEF x
        <5>. QED  BY <5>1, <5>2 DEF GestureRecords
      <4>3. /\ s.longpress /\ s.state = track.state
            /\ s.ignored = track.ignored /\ s.tracked = track.tracked
            /\ s.waiting = track.waiting /\ s.late = track.late /\ s.twoTouch = track.twoTouch
            /\ s.twoTouchId = track.twoTouchId
        BY <2>2, <4>1 DEF GestureRecords
      <4>. QED  BY <2>2, <3>1, <4>2, <4>3
    <3>2. CASE n = 2
      <4>1. s = [track EXCEPT !.state = @ \ {"onetap", "drag", "longpress"}, !.longpress = FALSE]
        BY <2>3, <3>2
      <4>2. s \in GestureRecords
        BY <2>2, <4>1 DEF GestureRecords
      <4>3. /\ ~s.longpress /\ s.state = track.state \ {"onetap", "drag", "longpress"}
            /\ s.ignored = track.ignored /\ s.tracked = track.tracked
            /\ s.waiting = track.waiting /\ s.late = track.late /\ s.twoTouch = track.twoTouch
            /\ s.twoTouchId = track.twoTouchId
        BY <2>2, <4>1 DEF GestureRecords
      <4>. QED  BY <2>2, <3>2, <4>2, <4>3
    <3>3. CASE n = 3
      <4>1. s = [track EXCEPT !.state = @ \ {"twotap", "twodrag", "pinch"}]
        BY <2>3, <3>3
      <4>. QED  BY <2>2, <3>3, <4>1 DEF GestureRecords
    <3>4. CASE n # 1 /\ n # 2 /\ n # 3
      <4>1. s = [track EXCEPT !.state = {}]
        BY <2>3, <3>4
      <4>. QED  BY <2>2, <3>4, <4>1 DEF GestureRecords
    <3>. QED  BY <3>1, <3>2, <3>3, <3>4
  <2>. HIDE DEF s
  <2>5. Active(s) = Active(t) \cup {id} /\ s.tracked # <<>> /\ Len(s.tracked) = n
    BY <1>1, <2>1, <2>4, ActiveIsActiveIn, EmptySeq
  <2>6. Touching(s, f \cup {id})
    BY <1>1, <2>4, <2>5 DEF GestureInv, Touching
  <2>7. Idle(s)
    BY <2>4, <2>5 DEF GestureInv, Idle
  <2>8. t.state \notin {{"twodrag"}, {"pinch"}, {"drag"}, {"longpress"}}
    <3>1. t.state \in {{"twodrag"}, {"pinch"}, {"drag"}, {"longpress"}} =>
            t.state \in Singles /\ t.state \notin {{k} : k \in Taps}
      BY DEF Singles, Kinds, Taps
    <3>. QED  BY <1>4, <3>1, DetectedFacts
  <2>9. Possible(s)
    <3>1. "twodrag" \in t.state <=> "pinch" \in t.state
      BY <2>8 DEF GestureInv, Possible
    <3>2. ~s.waiting
      BY <1>4, <2>4
    <3>3. "twodrag" \in s.state <=> "pinch" \in s.state
      BY <2>4, <3>1
    <3>4. n > 1 => s.state \cap ({"onetap"} \cup Holding) = {}
      BY <1>1, <2>4 DEF GestureInv, Possible, Holding
    <3>5. n > 2 => "twotap" \notin s.state
      BY <1>1, <2>4
    <3>. QED  BY <2>5, <3>2, <3>3, <3>4, <3>5 DEF Possible
  <2>10. n = 1 => s.state = Kinds /\ ~t.twoTouch
    BY <1>1, <1>4, <2>4 DEF GestureInv, Idle, Timers
  <2>11. s.longpress \/ s.twoTouch => ~HasDetectedGesture(s)
    <3>1. CASE n = 1
      BY <2>10, <3>1, DetectedFacts
    <3>3. "twodrag" \in t.state <=> "pinch" \in t.state
      BY <2>8 DEF GestureInv, Possible
    <3>2. CASE n > 1 /\ HasDetectedGesture(s)
      <4>1. s.state \in {{"drag"}, {"longpress"}, {"twodrag"}, {"pinch"}}
        BY <2>5, <3>2, DetectedWhileActive
      <4>2. "drag" \notin s.state /\ "longpress" \notin s.state
        BY <2>5, <2>9, <3>2 DEF Possible, Holding
      <4>3. s.state \in {{"twodrag"}, {"pinch"}} => t.state \in {{"twodrag"}, {"pinch"}}
        BY <2>4, <3>2, <3>3
      <4>. QED  BY <2>8, <4>1, <4>2, <4>3
    <3>. QED  BY <1>1, <3>1, <3>2
  <2>12. s.longpress => Len(s.tracked) = 1 /\ ~s.waiting
    <3>1. t.longpress => n = 2
      <4>1. t.longpress => Len(t.tracked) = 1
        BY DEF GestureInv, Timers
      <4>2. Len(t.tracked) = 1 => n = 2
        OBVIOUS
      <4>. HIDE DEF n
      <4>. QED  BY <4>1, <4>2
    <3>2. s.longpress => n = 1
      BY <2>4, <3>1
    <3>. QED  BY <1>4, <2>4, <2>5, <3>2
  <2>13. s.twoTouch => s.twoTouchId /\ Len(s.tracked) > 1
    BY <1>1, <2>4, <2>5 DEF GestureInv, Timers
  <2>14. Timers(s)
    BY <2>11, <2>12, <2>13 DEF Timers
  <2>. QED  BY <2>4, <2>6, <2>7, <2>9, <2>14 DEF GestureInv, s
<1>. QED  BY <1>2, <1>3, <1>4

\* What a handler leaves of a record when it narrows the gestures down.
Narrows(t, s) ==
  /\ s \in GestureRecords
  /\ s.ignored = t.ignored /\ s.waiting = t.waiting /\ s.late = t.late /\ s.age = t.age
  /\ Active(s) = Active(t) /\ Len(s.tracked) = Len(t.tracked)
  /\ s.tracked = <<>> <=> t.tracked = <<>>

LEMMA NarrowsTouching ==
  ASSUME NEW t, NEW s, NEW f, GestureInv(t, f), Narrows(t, s), t.tracked # <<>>
  PROVE  s \in GestureRecords /\ Touching(s, f) /\ Idle(s)
BY DEF GestureInv, Narrows, Touching, Idle

LEMMA NarrowsTwice ==
  ASSUME NEW r, NEW s, NEW t, Narrows(r, s), Narrows(s, t)
  PROVE  Narrows(r, t)
BY DEF Narrows

\* Both of two fingers' gestures are left, or none.
Undecided(t) ==
  /\ t.state \subseteq {"twodrag", "pinch"}
  /\ "twodrag" \in t.state <=> "pinch" \in t.state

LEMMA NotYetDetected ==
  ASSUME NEW t, t.state \notin {{"drag"}, {"longpress"}, {"twodrag"}, {"pinch"}}, Active(t) # {}
  PROVE  ~HasDetectedGesture(t)
BY DetectedWhileActive

LEMMA DetectedStates ==
  ASSUME NEW t, ~HasDetectedGesture(t)
  PROVE  t.state \notin {{"drag"}, {"longpress"}, {"twodrag"}, {"pinch"}}
<1>1. t.state \in {{"drag"}, {"longpress"}, {"twodrag"}, {"pinch"}} =>
        t.state \in Singles /\ t.state \notin {{k} : k \in Taps}
  BY DEF Singles, Kinds, Taps
<1>. QED  BY <1>1, DetectedFacts

\* One of two fingers moves far.
LEMMA DecideFacts ==
  ASSUME NEW t \in GestureRecords, Undecided(t), Active(t) # {}, ~t.longpress,
         Len(t.tracked) = 2, t.waiting => t.state = {},
         t.twoTouch => t.twoTouchId,
         NEW id, NEW apart \in BOOLEAN
  PROVE  LET s == DecideTwoTouch(t, id, apart)
         IN  Narrows(t, s) /\ Timers(s) /\ Possible(s)
<1>. DEFINE s == DecideTwoTouch(t, id, apart)
            k == IF apart THEN "twodrag" ELSE "pinch"
<1>1. CASE \E u \in Tracked(t) : u.id # id /\ u.far
  <2>1. s = StopTwoTouch([t EXCEPT !.state = @ \ {k}])
    BY <1>1 DEF DecideTwoTouch
  <2>2. /\ s \in GestureRecords /\ s.ignored = t.ignored /\ s.tracked = t.tracked
        /\ s.state = t.state \ {k} /\ s.waiting = t.waiting /\ s.late = t.late /\ s.age = t.age
        /\ s.longpress = t.longpress /\ ~s.twoTouch
    <3>. DEFINE x == [t EXCEPT !.state = @ \ {k}]
    <3>1. /\ x \in GestureRecords /\ x.ignored = t.ignored /\ x.tracked = t.tracked
          /\ x.state = t.state \ {k} /\ x.waiting = t.waiting /\ x.late = t.late
          /\ x.age = t.age /\ x.longpress = t.longpress
      BY DEF GestureRecords
    <3>2. s = [x EXCEPT !.twoTouch = FALSE, !.twoTouchId = FALSE]
      BY <2>1 DEF StopTwoTouch
    <3>. HIDE DEF x, s
    <3>. QED  BY <3>1, <3>2 DEF GestureRecords
  <2>. HIDE DEF s
  <2>3. Narrows(t, s)
    BY <2>2, ActiveIsActiveIn DEF Narrows
  <2>4. Possible(s)
    <3>1. s.state \in {{}, {"twodrag"}, {"pinch"}}
      BY <2>2 DEF Undecided
    <3>. QED  BY <2>2, <3>1 DEF Possible, Holding, Singles, Kinds
  <2>. QED  BY <2>2, <2>3, <2>4 DEF Timers, s
<1>2. ASSUME NEW x \in GestureRecords, x.ignored = t.ignored, x.tracked = t.tracked,
             x.state = t.state, x.waiting = t.waiting, x.late = t.late, x.age = t.age,
             ~x.longpress, x.twoTouch => x.twoTouchId
      PROVE  Narrows(t, x) /\ Timers(x) /\ Possible(x)
  <2>1. Narrows(t, x) /\ Active(x) # {}
    BY <1>2, ActiveIsActiveIn DEF Narrows
  <2>2. x.state \notin {{"drag"}, {"longpress"}, {"twodrag"}, {"pinch"}}
    BY <1>2 DEF Undecided
  <2>3. ~HasDetectedGesture(x)
    BY <2>1, <2>2, NotYetDetected
  <2>4. Possible(x)
    BY <1>2 DEF Undecided, Possible, Holding
  <2>5. Len(x.tracked) > 1
    <3>1. x.tracked = t.tracked /\ Len(t.tracked) = 2
      BY <1>2
    <3>2. Len(x.tracked) = 2
      BY <3>1, Zenon
    <3>. QED  BY <3>2
  <2>6. Timers(x)
    BY <1>2, <2>3, <2>5 DEF Timers
  <2>. QED  BY <2>1, <2>4, <2>6
<1>3. CASE ~(\E u \in Tracked(t) : u.id # id /\ u.far) /\ t.twoTouchId
  <2>1. s = t
    BY <1>3 DEF DecideTwoTouch
  <2>. QED  BY <1>2, <2>1
<1>4. CASE ~(\E u \in Tracked(t) : u.id # id /\ u.far) /\ ~t.twoTouchId
  <2>1. s = [t EXCEPT !.twoTouch = TRUE, !.twoTouchId = TRUE]
    BY <1>4 DEF DecideTwoTouch
  <2>2. /\ s \in GestureRecords /\ s.ignored = t.ignored /\ s.tracked = t.tracked
        /\ s.state = t.state /\ s.waiting = t.waiting /\ s.late = t.late /\ s.age = t.age
        /\ ~s.longpress /\ s.twoTouchId
    BY <2>1 DEF GestureRecords
  <2>. HIDE DEF s
  <2>. QED  BY <1>2, <2>2 DEF s
<1>. QED  BY <1>1, <1>3, <1>4

LEMMA MoveTouchInv ==
  ASSUME NEW t, NEW f, GestureInv(t, f), t.tracked # <<>>,
         NEW id \in Fingers, NEW far \in BOOLEAN, NEW apart \in BOOLEAN
  PROVE  LET s == MoveTouch(t, id, far, apart)
         IN  /\ GestureInv(s, f) /\ s.tracked # <<>>
             /\ HasDetectedGesture(t) => s.state = t.state
<1>. DEFINE n == Len(t.tracked)
            q == [i \in 1 .. n |-> IF t.tracked[i].id = id THEN [t.tracked[i] EXCEPT !.far = far]
                                   ELSE t.tracked[i]]
            moved == [t EXCEPT !.tracked = q]
            gone == Taps \cup {"longpress"} \cup (IF n = 1 THEN {} ELSE {"drag"})
                         \cup (IF n = 2 THEN {} ELSE {"twodrag", "pinch"})
            narrowed == [moved EXCEPT !.state = @ \ gone, !.longpress = FALSE]
            s == MoveTouch(t, id, far, apart)
<1>1. /\ t \in GestureRecords /\ t.tracked \in Seq(Finger) /\ n \in Nat /\ n > 0
      /\ Active(t) # {} /\ t.state \subseteq Kinds
  BY EmptySeq, LenProperties DEF GestureInv, GestureRecords, Touching, Finger
<1>2. q \in Seq(Finger) /\ Len(q) = n /\ ActiveIn(q) = ActiveIn(t.tracked)
  BY <1>1, FingerMoved
<1>3. s = IF HasDetectedGesture(t) \/ ~far THEN moved
          ELSE IF n = 2 THEN DecideTwoTouch(narrowed, id, apart) ELSE narrowed
  BY DEF MoveTouch
<1>. HIDE DEF q
<1>4. /\ moved \in GestureRecords /\ moved.ignored = t.ignored /\ moved.tracked = q
      /\ moved.state = t.state /\ moved.waiting = t.waiting /\ moved.late = t.late
      /\ moved.age = t.age /\ moved.longpress = t.longpress /\ moved.twoTouch = t.twoTouch
      /\ moved.twoTouchId = t.twoTouchId
  BY <1>1, <1>2 DEF GestureRecords, Finger
<1>. HIDE DEF moved
<1>5. Narrows(t, moved) /\ (HasDetectedGesture(moved) <=> HasDetectedGesture(t))
  <2>1. Active(moved) = Active(t)
    BY <1>2, <1>4, ActiveIsActiveIn
  <2>. QED  BY <1>1, <1>2, <1>4, <2>1, SameDetection, EmptySeq DEF Narrows
<1>6. CASE HasDetectedGesture(t) \/ ~far
  <2>1. s = moved
    BY <1>3, <1>6
  <2>. HIDE DEF s, n
  <2>2. Timers(moved) /\ Possible(moved)
    BY <1>4, <1>5 DEF GestureInv, Narrows, Timers, Possible
  <2>3. GestureInv(moved, f) /\ moved.tracked # <<>>
    BY <1>5, <2>2, NarrowsTouching DEF GestureInv, Narrows
  <2>. QED  BY <1>4, <2>1, <2>3 DEF s
<1>7. CASE ~HasDetectedGesture(t) /\ far
  <2>1. /\ narrowed \in GestureRecords /\ narrowed.ignored = t.ignored /\ narrowed.tracked = q
        /\ narrowed.state = t.state \ gone /\ narrowed.waiting = t.waiting
        /\ narrowed.late = t.late /\ narrowed.age = t.age /\ ~narrowed.longpress
        /\ narrowed.twoTouch = t.twoTouch /\ narrowed.twoTouchId = t.twoTouchId
    <3>. DEFINE x == [moved EXCEPT !.state = @ \ gone]
    <3>. HIDE DEF gone
    <3>1. /\ x \in GestureRecords /\ x.ignored = t.ignored /\ x.tracked = q
          /\ x.state = t.state \ gone /\ x.waiting = t.waiting
          /\ x.late = t.late /\ x.age = t.age
          /\ x.twoTouch = t.twoTouch /\ x.twoTouchId = t.twoTouchId
      BY <1>4 DEF GestureRecords
    <3>2. narrowed = [x EXCEPT !.longpress = FALSE]
      OBVIOUS
    <3>. HIDE DEF x, narrowed
    <3>. QED  BY <3>1, <3>2 DEF GestureRecords
  <2>2. s = IF n = 2 THEN DecideTwoTouch(narrowed, id, apart) ELSE narrowed
    BY <1>3, <1>7
  <2>. HIDE DEF narrowed, s
  <2>3. Narrows(t, narrowed)
    <3>1. Active(narrowed) = Active(t)
      BY <1>2, <2>1, ActiveIsActiveIn
    <3>. QED  BY <1>1, <1>2, <2>1, <3>1, EmptySeq DEF Narrows
  <2>4. t.state \notin {{"drag"}, {"longpress"}, {"twodrag"}, {"pinch"}}
    BY <1>7, DetectedStates
  <2>5. "twodrag" \in t.state <=> "pinch" \in t.state
    BY <2>4 DEF GestureInv, Possible
  <2>6. n > 1 => t.state \cap ({"onetap"} \cup Holding) = {}
    BY DEF GestureInv, Possible
  <2>7. CASE n = 2
    <3>1. narrowed.state \subseteq {"twodrag", "pinch"}
      BY <1>1, <2>1, <2>7 DEF Kinds, Taps
    <3>2. Undecided(narrowed)
      BY <2>1, <2>5, <2>7, <3>1 DEF Undecided, Taps
    <3>3. t.waiting => narrowed.state = {}
      <4>1. ASSUME t.waiting, NEW k \in Kinds, t.state = {k} PROVE k \in Taps
        BY <2>4, <4>1 DEF Kinds, Taps
      <4>2. t.waiting => t.state = {} \/ \E k \in Kinds : t.state = {k}
        BY DEF GestureInv, Possible, Singles
      <4>. QED  BY <2>1, <4>1, <4>2
    <3>4. t.twoTouch => t.twoTouchId
      BY DEF GestureInv, Timers
    <3>5. /\ Active(narrowed) # {} /\ Len(narrowed.tracked) = 2
          /\ narrowed.waiting => narrowed.state = {}
          /\ narrowed.twoTouch => narrowed.twoTouchId
      BY <1>1, <2>1, <2>3, <2>7, <3>3, <3>4 DEF Narrows
    <3>6. Narrows(narrowed, s) /\ Timers(s) /\ Possible(s)
      BY <2>1, <2>2, <2>7, <3>2, <3>5, DecideFacts
    <3>7. Narrows(t, s)
      BY <2>3, <3>6, NarrowsTwice
    <3>8. GestureInv(s, f) /\ s.tracked # <<>>
      BY <3>6, <3>7, NarrowsTouching DEF GestureInv, Narrows
    <3>. QED  BY <1>7, <3>8 DEF s
  <2>8. CASE n # 2
    <3>1. s = narrowed
      BY <2>2, <2>8
    <3>2. narrowed.state \in {{}, {"drag"}} /\ (n > 1 => narrowed.state = {})
      BY <1>1, <2>1, <2>6, <2>8 DEF Kinds, Taps, Holding
    <3>3. narrowed.waiting => narrowed.state = {}
      <4>1. t.waiting => "drag" \notin t.state
        BY <2>4 DEF GestureInv, Possible, Singles
      <4>. QED  BY <2>1, <3>2, <4>1
    <3>4. Possible(narrowed)
      BY <2>3, <3>2, <3>3 DEF Possible, Narrows
    <3>5. Timers(narrowed)
      <4>1. narrowed.twoTouch => narrowed.twoTouchId /\ n > 1
        BY <2>1 DEF GestureInv, Timers
      <4>2. narrowed.state = {} => ~HasDetectedGesture(narrowed)
        BY DetectedFacts
      <4>. QED  BY <2>1, <2>3, <3>2, <4>1, <4>2 DEF Timers, Narrows
    <3>6. GestureInv(narrowed, f) /\ narrowed.tracked # <<>>
      BY <2>3, <3>4, <3>5, NarrowsTouching DEF GestureInv, Narrows
    <3>. QED  BY <1>7, <3>1, <3>6 DEF s
  <2>. QED  BY <2>7, <2>8
<1>. QED  BY <1>6, <1>7

(***************************************************************************)
(* A finger is let go of, up to the question whether that was a gesture:   *)
(* no timer runs any more, and while others are waited for at most one     *)
(* gesture is left.                                                        *)
(***************************************************************************)
Released1(t, s, id) ==
  /\ s \in GestureRecords /\ s.ignored = t.ignored /\ s.age = t.age
  /\ ~s.longpress /\ ~s.twoTouch
  /\ s.late \/ t.waiting => s.waiting
  /\ s.state \subseteq t.state
  /\ Len(s.tracked) = Len(t.tracked) /\ s.tracked # <<>>
  /\ Active(s) = IF s.waiting THEN Active(t) \ {id} ELSE Active(t)
  /\ s.waiting => s.state \in {{}} \cup (Singles \ {{k} : k \in Holding})
  /\ ~s.waiting => HasDetectedGesture(s) /\ HasDetectedGesture(t)
  /\ s.state \in {{"drag"}, {"longpress"}} \/ t.state \in {{"drag"}, {"longpress"}} =>
       s.state = t.state

\* The tail of it, for a handler that waits.
LEMMA WaitingReleased ==
  ASSUME NEW t \in GestureRecords, t.tracked # <<>>, NEW id \in Fingers, t.waiting,
         t.state \in {{}} \cup (Singles \ {{k} : k \in Holding}),
         ~t.longpress, ~t.twoTouch
  PROVE  LET s == [t EXCEPT !.state = IF t.late \/ t.age = 2 THEN {} ELSE @,
                            !.tracked = [i \in 1 .. Len(t.tracked) |->
                               IF t.tracked[i].id = id THEN [t.tracked[i] EXCEPT !.active = FALSE]
                               ELSE t.tracked[i]]]
         IN  Released1(t, s, id)
<1>. DEFINE q == [i \in 1 .. Len(t.tracked) |->
                    IF t.tracked[i].id = id THEN [t.tracked[i] EXCEPT !.active = FALSE]
                    ELSE t.tracked[i]]
            x == [t EXCEPT !.state = IF t.late \/ t.age = 2 THEN {} ELSE @]
            s == [x EXCEPT !.tracked = q]
<1>1. t.tracked \in Seq(Finger) /\ Len(t.tracked) \in Nat /\ Len(t.tracked) > 0
  BY EmptySeq, LenProperties DEF GestureRecords, Finger
<1>2. q \in Seq(Finger) /\ Len(q) = Len(t.tracked) /\ ActiveIn(q) = ActiveIn(t.tracked) \ {id}
  BY <1>1, FingerReleased
<1>. HIDE DEF q
<1>3. /\ x \in GestureRecords /\ x.ignored = t.ignored /\ x.age = t.age
      /\ ~x.longpress /\ ~x.twoTouch /\ x.waiting
      /\ x.state \in {t.state, {}}
  BY DEF GestureRecords
<1>. HIDE DEF x
<1>4. /\ s \in GestureRecords /\ s.ignored = t.ignored /\ s.age = t.age
      /\ ~s.longpress /\ ~s.twoTouch /\ s.waiting
      /\ s.state \in {t.state, {}} /\ s.tracked = q
  BY <1>2, <1>3 DEF GestureRecords, Finger
<1>5. s = [t EXCEPT !.state = IF t.late \/ t.age = 2 THEN {} ELSE @, !.tracked = q]
  BY DEF x
<1>. HIDE DEF s
<1>6. Active(s) = Active(t) \ {id}
  BY <1>2, <1>4, ActiveIsActiveIn
<1>7. Len(s.tracked) = Len(t.tracked) /\ s.tracked # <<>>
  BY <1>1, <1>2, <1>4, EmptySeq
<1>8. s.state \notin {{"drag"}, {"longpress"}} /\ t.state \notin {{"drag"}, {"longpress"}}
  BY <1>4 DEF Holding, Singles
<1>9. Released1(t, s, id)
  BY <1>4, <1>6, <1>7, <1>8 DEF Released1
<1>. QED  BY <1>5, <1>9 DEF q

LEMMA ReleaseTouchFacts ==
  ASSUME NEW t, NEW f, GestureInv(t, f), NEW id \in Fingers, t.tracked # <<>>
  PROVE  Released1(t, ReleaseTouch(t, id), id)
<1>. DEFINE n == Len(t.tracked)
            t1 == IF ~HasDetectedGesture(t) /\ t.twoTouchId
                  THEN [StopTwoTouch(t) EXCEPT !.state = {}] ELSE t
            gone == {"drag", "twodrag", "pinch", "longpress"}
                    \cup (IF t.waiting THEN {}
                          ELSE IF n = 1 THEN {"twotap", "threetap"}
                          ELSE IF n = 2 THEN {"onetap", "threetap"} ELSE {})
            t2 == IF HasDetectedGesture(t1) THEN t1
                  ELSE [t1 EXCEPT !.state = @ \ gone, !.longpress = FALSE, !.waiting = TRUE,
                                  !.late = t.waiting /\ @]
            s == ReleaseTouch(t, id)
            tail(r) == [r EXCEPT !.state = IF r.late \/ r.age = 2 THEN {} ELSE @,
                            !.tracked = [i \in 1 .. Len(r.tracked) |->
                               IF r.tracked[i].id = id THEN [r.tracked[i] EXCEPT !.active = FALSE]
                               ELSE r.tracked[i]]]
<1>1. /\ t \in GestureRecords /\ t.state \subseteq Kinds /\ Active(t) # {}
      /\ n \in Nat /\ n > 0
  BY EmptySeq, LenProperties DEF GestureInv, GestureRecords, Touching
<1>2. s = IF ~t2.waiting THEN t2
          ELSE [t2 EXCEPT !.state = IF t2.late \/ t2.age = 2 THEN {} ELSE @,
                      !.tracked = [i \in 1 .. n |->
                         IF t2.tracked[i].id = id THEN [t2.tracked[i] EXCEPT !.active = FALSE]
                         ELSE t2.tracked[i]]]
  BY DEF ReleaseTouch
<1>3. t2.tracked = t.tracked => s = IF ~t2.waiting THEN t2 ELSE tail(t2)
  <2>. HIDE DEF t2, s
  <2>. QED  BY <1>2
<1>4. CASE HasDetectedGesture(t)
  <2>1. t2 = t
    BY <1>4
  <2>. HIDE DEF t2, s, n
  <2>2. ~t.longpress /\ ~t.twoTouch
    BY <1>4 DEF GestureInv, Timers
  <2>3. CASE ~t.waiting
    <3>1. s = t
      BY <1>3, <2>1, <2>3
    <3>2. ~t.late
      BY <2>3 DEF GestureInv, Idle
    <3>. QED  BY <1>1, <1>4, <2>2, <2>3, <3>1, <3>2 DEF Released1, s
  <2>4. CASE t.waiting
    <3>1. s = tail(t)
      BY <1>3, <2>1, <2>4
    <3>2. t.state \in {{}} \cup (Singles \ {{k} : k \in Holding})
      BY <2>4 DEF GestureInv, Possible
    <3>3. Released1(t, tail(t), id)
      BY <1>1, <2>2, <2>4, <3>2, WaitingReleased
    <3>. HIDE DEF tail
    <3>. QED  BY <3>1, <3>3 DEF s
  <2>. QED  BY <2>3, <2>4
<1>5. CASE ~HasDetectedGesture(t)
  <2>1. /\ t1 \in GestureRecords /\ t1.ignored = t.ignored /\ t1.tracked = t.tracked
        /\ t1.age = t.age /\ ~t1.twoTouch /\ t1.state \in {t.state, {}}
    <3>1. CASE t.twoTouchId
      <4>. DEFINE x == StopTwoTouch(t)
      <4>1. /\ x \in GestureRecords /\ x.ignored = t.ignored /\ x.tracked = t.tracked
            /\ x.age = t.age /\ ~x.twoTouch
        BY <1>1 DEF StopTwoTouch, GestureRecords
      <4>2. t1 = [x EXCEPT !.state = {}]
        BY <1>5, <3>1
      <4>. HIDE DEF x, t1
      <4>. QED  BY <4>1, <4>2 DEF GestureRecords
    <3>2. CASE ~t.twoTouchId
      <4>1. t1 = t /\ ~t.twoTouch
        BY <3>2 DEF GestureInv, Timers
      <4>. QED  BY <1>1, <4>1
    <3>. QED  BY <3>1, <3>2
  <2>2. ~HasDetectedGesture(t1)
    <3>1. t1.state = {} => ~HasDetectedGesture(t1)
      BY DetectedFacts
    <3>2. t1.state # {} => t1 = t
      OBVIOUS
    <3>. QED  BY <1>5, <3>1, <3>2
  <2>. DEFINE x == [t1 EXCEPT !.state = @ \ gone]
              y == [x EXCEPT !.longpress = FALSE]
              z == [y EXCEPT !.waiting = TRUE]
  <2>3. t2 = [z EXCEPT !.late = t.waiting /\ @]
    BY <2>2
  <2>. HIDE DEF t1, gone
  <2>4. /\ x \in GestureRecords /\ x.ignored = t.ignored /\ x.tracked = t.tracked
        /\ x.age = t.age /\ ~x.twoTouch /\ x.state = t1.state \ gone
    BY <2>1 DEF GestureRecords
  <2>. HIDE DEF x
  <2>5. /\ y \in GestureRecords /\ y.ignored = t.ignored /\ y.tracked = t.tracked
        /\ y.age = t.age /\ ~y.twoTouch /\ y.state = t1.state \ gone /\ ~y.longpress
    BY <2>4 DEF GestureRecords
  <2>. HIDE DEF y
  <2>6. /\ z \in GestureRecords /\ z.ignored = t.ignored /\ z.tracked = t.tracked
        /\ z.age = t.age /\ ~z.twoTouch /\ z.state = t1.state \ gone /\ ~z.longpress
        /\ z.waiting
    BY <2>5 DEF GestureRecords
  <2>. HIDE DEF z
  <2>7. /\ t2 \in GestureRecords /\ t2.ignored = t.ignored /\ t2.tracked = t.tracked
        /\ t2.age = t.age /\ ~t2.twoTouch /\ t2.state = t1.state \ gone /\ ~t2.longpress
        /\ t2.waiting
    <3>. HIDE DEF t2
    <3>. QED  BY <1>1, <2>3, <2>6 DEF GestureRecords
  <2>. HIDE DEF t2, s
  <2>8. t.state \notin {{"drag"}, {"longpress"}, {"twodrag"}, {"pinch"}}
    BY <1>5, DetectedStates
  <2>9. t2.state \in {{}, {"onetap"}, {"twotap"}, {"threetap"}}
    <3>1. t1.state \subseteq Kinds /\ t1.state \subseteq t.state
      BY <1>1, <2>1
    <3>2. CASE t.waiting
      <4>1. t.state = {} \/ \E k \in Taps : t.state = {k}
        BY <2>8, <3>2 DEF GestureInv, Possible, Singles, Kinds, Taps
      <4>. QED  BY <2>1, <2>7, <4>1 DEF Taps
    <3>3. CASE ~t.waiting /\ n = 1
      BY <2>7, <3>1, <3>3 DEF gone, Kinds
    <3>4. CASE ~t.waiting /\ n = 2
      BY <2>7, <3>1, <3>4 DEF gone, Kinds
    <3>5. CASE ~t.waiting /\ n # 1 /\ n # 2
      <4>1. "onetap" \notin t.state /\ "twotap" \notin t.state
        <5>1. (n > 1 => "onetap" \notin t.state) /\ (n > 2 => "twotap" \notin t.state)
          BY DEF GestureInv, Possible
        <5>. HIDE DEF n
        <5>. QED  BY <1>1, <3>5, <5>1
      <4>. QED  BY <2>7, <3>1, <4>1 DEF gone, Kinds
    <3>. QED  BY <3>2, <3>3, <3>4, <3>5
  <2>10. t2.state \in {{}} \cup (Singles \ {{k} : k \in Holding})
    BY <2>9 DEF Singles, Holding, Kinds
  <2>11. Released1(t2, tail(t2), id) /\ s = tail(t2)
    BY <1>3, <2>7, <2>10, WaitingReleased
  <2>. HIDE DEF tail
  <2>12. s.waiting
    BY <2>7, <2>11 DEF Released1
  <2>13. Active(t2) = Active(t) /\ Len(t2.tracked) = Len(t.tracked)
    BY <2>7, ActiveIsActiveIn
  <2>14. s.state \notin {{"drag"}, {"longpress"}}
    BY <2>11, <2>12 DEF Released1, Holding
  <2>15. s.state \subseteq t.state
    BY <2>1, <2>7, <2>11 DEF Released1
  <2>16. Released1(t, s, id)
    BY <2>7, <2>8, <2>11, <2>12, <2>13, <2>14, <2>15 DEF Released1
  <2>. QED  BY <2>16 DEF s
<1>. QED  BY <1>4, <1>5

\* It was one finger of several that are waited for.
LEMMA WaitsForOthers ==
  ASSUME NEW t, NEW f, GestureInv(t, f), NEW id \in Fingers, id \in f, id \notin t.ignored,
         t.tracked # <<>>, NEW s, Released1(t, s, id), s.waiting,
         ~HasDetectedGesture(s), s.state # {}
  PROVE  GestureInv(s, f \ {id})
<1>1. /\ s \in GestureRecords /\ s.ignored = t.ignored /\ Active(s) = Active(t) \ {id}
      /\ s.tracked # <<>> /\ ~s.longpress /\ ~s.twoTouch /\ s.state \subseteq t.state
      /\ Len(s.tracked) = Len(t.tracked)
  BY DEF Released1
<1>2. PICK k \in Kinds : s.state = {k} /\ k \notin Holding
  BY DEF Released1, Singles
<1>3. Active(s) # {}
  <2>1. s.state \in Singles
    BY <1>2 DEF Singles
  <2>. QED  BY <2>1, DetectedFacts
<1>4. Touching(s, f \ {id})
  BY <1>1, <1>3 DEF GestureInv, Touching
<1>5. Idle(s) /\ Timers(s)
  BY <1>1 DEF Idle, Timers
<1>6. Possible(s)
  <2>1. Len(s.tracked) > 1 => s.state \cap ({"onetap"} \cup Holding) = {}
    BY <1>1 DEF GestureInv, Possible
  <2>2. Len(s.tracked) > 2 => "twotap" \notin s.state
    BY <1>1 DEF GestureInv, Possible
  <2>3. s.state \in {{"twodrag"}, {"pinch"}} \/ ("twodrag" \in s.state <=> "pinch" \in s.state)
    BY <1>2
  <2>4. s.state \in {{}} \cup (Singles \ {{h} : h \in Holding})
    BY DEF Released1
  <2>. QED  BY <2>1, <2>2, <2>3, <2>4 DEF Possible
<1>. QED  BY <1>1, <1>4, <1>5, <1>6 DEF GestureInv

\* The touches are over.
LEMMA EndTouchInv ==
  ASSUME NEW t, NEW f, GestureInv(t, f), NEW id \in Fingers, id \in f, id \notin t.ignored,
         t.tracked # <<>>, NEW s, Released1(t, s, id)
  PROVE  GestureInv(EndTouch(s, id), f \ {id})
<1>. DEFINE rest == (s.ignored \cup Active(s)) \ {id}
            e == EndTouch(s, id)
<1>1. /\ s \in GestureRecords /\ s.ignored = t.ignored
      /\ Active(s) \ {id} = Active(t) \ {id}
      /\ ~s.longpress /\ ~s.twoTouch
  BY DEF Released1
<1>2. rest = f \ {id} /\ rest \subseteq Fingers
  <2>1. Active(t) \subseteq Fingers
    <3>1. t.tracked \in Seq(Finger)
      BY DEF GestureInv, GestureRecords, Finger
    <3>. QED  BY <3>1, ActiveFingers, ActiveIsActiveIn
  <2>2. s.ignored \subseteq Fingers
    BY <1>1 DEF GestureRecords
  <2>. QED  BY <1>1, <2>1, <2>2 DEF GestureInv, Touching
<1>3. e = [s EXCEPT !.tracked = <<>>, !.ignored = rest, !.age = 0,
                    !.state = IF rest = {} THEN Kinds ELSE {},
                    !.waiting = @ /\ rest # {}, !.late = @ /\ rest # {}]
  BY DEF EndTouch
<1>. HIDE DEF rest, e
<1>4. /\ e \in GestureRecords /\ e.tracked = <<>> /\ e.ignored = rest /\ e.age = 0
      /\ e.state = (IF rest = {} THEN Kinds ELSE {})
      /\ e.waiting <=> s.waiting /\ rest # {}
      /\ e.late <=> s.late /\ rest # {}
      /\ ~e.longpress /\ ~e.twoTouch
  <2>. DEFINE a == [s EXCEPT !.tracked = <<>>]
              b == [a EXCEPT !.ignored = rest]
              c == [b EXCEPT !.age = 0]
              d == [c EXCEPT !.state = IF rest = {} THEN Kinds ELSE {}]
              h == [d EXCEPT !.waiting = @ /\ rest # {}]
  <2>1. e = [h EXCEPT !.late = @ /\ rest # {}]
    BY <1>3
  <2>2. /\ a \in GestureRecords /\ a.tracked = <<>> /\ ~a.longpress /\ ~a.twoTouch
        /\ a.waiting = s.waiting /\ a.late = s.late
    BY <1>1, EmptySeq DEF GestureRecords
  <2>. HIDE DEF a
  <2>3. /\ b \in GestureRecords /\ b.tracked = <<>> /\ ~b.longpress /\ ~b.twoTouch
        /\ b.waiting = s.waiting /\ b.late = s.late /\ b.ignored = rest
    BY <1>2, <2>2 DEF GestureRecords
  <2>. HIDE DEF b
  <2>4. /\ c \in GestureRecords /\ c.tracked = <<>> /\ ~c.longpress /\ ~c.twoTouch
        /\ c.waiting = s.waiting /\ c.late = s.late /\ c.ignored = rest /\ c.age = 0
    BY <2>3 DEF GestureRecords
  <2>. HIDE DEF c
  <2>5. /\ d \in GestureRecords /\ d.tracked = <<>> /\ ~d.longpress /\ ~d.twoTouch
        /\ d.waiting = s.waiting /\ d.late = s.late /\ d.ignored = rest /\ d.age = 0
        /\ d.state = (IF rest = {} THEN Kinds ELSE {})
    BY <2>4 DEF GestureRecords
  <2>. HIDE DEF d
  <2>6. /\ h \in GestureRecords /\ h.tracked = <<>> /\ ~h.longpress /\ ~h.twoTouch
        /\ h.waiting <=> s.waiting /\ rest # {}
        /\ h.late = s.late /\ h.ignored = rest /\ h.age = 0
        /\ h.state = (IF rest = {} THEN Kinds ELSE {})
    BY <2>5 DEF GestureRecords
  <2>. HIDE DEF h
  <2>. QED  BY <2>1, <2>6 DEF GestureRecords
<1>5. Active(e) = {}
  <2>1. Len(e.tracked) = 0
    BY <1>4
  <2>. QED  BY <2>1, ActiveIsActiveIn DEF ActiveIn
<1>6. Touching(e, f \ {id})
  BY <1>2, <1>4, <1>5 DEF Touching
<1>7. Idle(e) /\ Timers(e)
  BY <1>4 DEF Idle, Timers, Released1
<1>8. Possible(e)
  <2>1. "twodrag" \in Kinds /\ "pinch" \in Kinds /\ Len(e.tracked) = 0
    BY <1>4 DEF Kinds
  <2>. QED  BY <1>4, <2>1 DEF Possible
<1>9. GestureInv(e, f \ {id})
  BY <1>4, <1>6, <1>7, <1>8 DEF GestureInv
<1>. QED  BY <1>9 DEF e

\* A finger that was ignored is let go of.
LEMMA EndIgnoredInv ==
  ASSUME NEW t, NEW f, GestureInv(t, f), NEW id \in Fingers, id \in t.ignored
  PROVE  LET s == EndIgnored(t, id)
         IN  GestureInv(s, f \ {id}) /\ (t.tracked # <<>> => s.state = t.state /\ s.tracked # <<>>)
<1>. DEFINE s == EndIgnored(t, id)
<1>1. t \in GestureRecords /\ id \notin Active(t)
  BY DEF GestureInv, Touching
<1>2. CASE t.ignored = {id} /\ t.tracked = <<>>
  <2>1. s = [t EXCEPT !.ignored = {}, !.state = Kinds, !.waiting = FALSE, !.late = FALSE]
    BY <1>2 DEF EndIgnored
  <2>. HIDE DEF s
  <2>2. /\ s \in GestureRecords /\ s.ignored = {} /\ s.state = Kinds /\ ~s.waiting /\ ~s.late
        /\ s.tracked = t.tracked /\ s.age = t.age /\ s.longpress = t.longpress
        /\ s.twoTouch = t.twoTouch
    <3>. DEFINE a == [t EXCEPT !.ignored = {}]
                b == [a EXCEPT !.state = Kinds]
                c == [b EXCEPT !.waiting = FALSE]
    <3>1. s = [c EXCEPT !.late = FALSE]
      BY <2>1
    <3>2. /\ a \in GestureRecords /\ a.ignored = {} /\ a.tracked = t.tracked /\ a.age = t.age
          /\ a.longpress = t.longpress /\ a.twoTouch = t.twoTouch
      BY <1>1 DEF GestureRecords
    <3>. HIDE DEF a
    <3>3. /\ b \in GestureRecords /\ b.ignored = {} /\ b.tracked = t.tracked /\ b.age = t.age
          /\ b.longpress = t.longpress /\ b.twoTouch = t.twoTouch /\ b.state = Kinds
      BY <3>2 DEF GestureRecords
    <3>. HIDE DEF b
    <3>4. /\ c \in GestureRecords /\ c.ignored = {} /\ c.tracked = t.tracked /\ c.age = t.age
          /\ c.longpress = t.longpress /\ c.twoTouch = t.twoTouch /\ c.state = Kinds
          /\ ~c.waiting
      BY <3>3 DEF GestureRecords
    <3>. HIDE DEF c
    <3>. QED  BY <3>1, <3>4 DEF GestureRecords
  <2>3. Len(s.tracked) = 0 /\ Active(s) = {} /\ Active(t) = {}
    <3>1. Len(s.tracked) = 0 /\ Len(t.tracked) = 0
      BY <1>2, <2>2
    <3>. QED  BY <3>1, ActiveIsActiveIn DEF ActiveIn
  <2>4. Touching(s, f \ {id})
    BY <1>2, <2>2, <2>3 DEF GestureInv, Touching
  <2>5. ~t.longpress /\ ~t.twoTouch
    <3>1. Len(t.tracked) = 0
      BY <1>2
    <3>. QED  BY <3>1 DEF GestureInv, Timers
  <2>6. Idle(s) /\ Timers(s)
    BY <1>2, <2>2, <2>5 DEF GestureInv, Idle, Timers
  <2>7. Possible(s)
    <3>1. "twodrag" \in Kinds /\ "pinch" \in Kinds
      BY DEF Kinds
    <3>. QED  BY <2>2, <2>3, <3>1 DEF Possible
  <2>. QED  BY <1>2, <2>2, <2>4, <2>6, <2>7 DEF GestureInv, s
<1>3. CASE ~(t.ignored = {id} /\ t.tracked = <<>>)
  <2>1. s = [t EXCEPT !.ignored = @ \ {id}]
    BY <1>3 DEF EndIgnored
  <2>2. /\ s \in GestureRecords /\ s.ignored = t.ignored \ {id} /\ s.state = t.state
        /\ s.waiting = t.waiting /\ s.late = t.late
        /\ s.tracked = t.tracked /\ s.age = t.age /\ s.longpress = t.longpress
        /\ s.twoTouch = t.twoTouch /\ s.twoTouchId = t.twoTouchId
    BY <1>1, <2>1 DEF GestureRecords
  <2>. HIDE DEF s
  <2>3. Active(s) = Active(t) /\ (HasDetectedGesture(s) <=> HasDetectedGesture(t))
    BY <2>2, ActiveIsActiveIn, SameDetection
  <2>4. Touching(s, f \ {id})
    BY <1>1, <2>2, <2>3 DEF GestureInv, Touching
  <2>5. t.tracked = <<>> => t.ignored # {} /\ s.ignored # {}
    BY <1>3, <2>2
  <2>6. Idle(s)
    BY <2>2, <2>5 DEF GestureInv, Idle
  <2>7. Timers(s) /\ Possible(s)
    BY <2>2, <2>3 DEF GestureInv, Timers, Possible
  <2>. QED  BY <2>2, <2>4, <2>6, <2>7 DEF GestureInv, s
<1>. QED  BY <1>2, <1>3


\* The long press is known.
LEMMA LongpressInv ==
  ASSUME NEW t, NEW f, GestureInv(t, f), t.longpress
  PROVE  /\ ~HasDetectedGesture(t) /\ t.tracked # <<>>
         /\ GestureInv([t EXCEPT !.longpress = FALSE, !.state = {"longpress"}], f)
<1>. DEFINE a == [t EXCEPT !.longpress = FALSE]
            s == [a EXCEPT !.state = {"longpress"}]
<1>1. t \in GestureRecords /\ ~t.waiting /\ ~HasDetectedGesture(t)
  BY DEF GestureInv, Timers
<1>2. Len(t.tracked) = 1
  BY DEF GestureInv, Timers
<1>3. t.tracked # <<>>
  <2>. DEFINE n == Len(t.tracked)
  <2>1. t.tracked = <<>> => n = 0
    OBVIOUS
  <2>. HIDE DEF n
  <2>2. n # 0
    BY <1>2 DEF n
  <2>. QED  BY <2>1, <2>2
<1>4. ~t.twoTouch
  <2>. DEFINE n == Len(t.tracked)
  <2>1. (t.twoTouch => n > 1) /\ n = 1
    BY <1>2 DEF GestureInv, Timers
  <2>. HIDE DEF n
  <2>. QED  BY <2>1
<1>5. /\ a \in GestureRecords /\ a.ignored = t.ignored /\ a.tracked = t.tracked
      /\ a.waiting = t.waiting /\ a.late = t.late /\ a.age = t.age /\ ~a.longpress
      /\ a.twoTouch = t.twoTouch
  BY <1>1 DEF GestureRecords
<1>. HIDE DEF a
<1>6. "longpress" \in Kinds
  BY DEF Kinds
<1>7. /\ s \in GestureRecords /\ s.ignored = t.ignored /\ s.tracked = t.tracked
      /\ s.waiting = t.waiting /\ s.late = t.late /\ s.age = t.age /\ ~s.longpress
      /\ s.twoTouch = t.twoTouch /\ s.state = {"longpress"}
  BY <1>5, <1>6 DEF GestureRecords
<1>8. s = [t EXCEPT !.longpress = FALSE, !.state = {"longpress"}]
  BY DEF a
<1>. HIDE DEF s
<1>9. Active(s) = Active(t)
  BY <1>7, ActiveIsActiveIn
<1>10. Touching(s, f)
  BY <1>7, <1>9 DEF GestureInv, Touching
<1>11. Idle(s) /\ Timers(s)
  BY <1>3, <1>4, <1>7 DEF GestureInv, Idle, Timers
<1>12. Possible(s)
  <2>1. ~(Len(s.tracked) > 1) /\ ~(Len(s.tracked) > 2)
    <3>1. s.tracked = t.tracked
      BY <1>7
    <3>2. Len(s.tracked) = 1
      BY <1>2, <3>1, Zenon
    <3>. QED  BY <3>2
  <2>. QED  BY <1>1, <1>7, <2>1 DEF Possible
<1>13. GestureInv(s, f)
  BY <1>7, <1>10, <1>11, <1>12 DEF GestureInv
<1>. QED  BY <1>1, <1>3, <1>8, <1>13

\* The gesture of two fingers is known.
LEMMA TwoTouchInv ==
  ASSUME NEW t, NEW f, GestureInv(t, f), t.twoTouch, NEW kind \in {"twodrag", "pinch"}
  PROVE  /\ ~HasDetectedGesture(t) /\ t.tracked # <<>>
         /\ GestureInv([t EXCEPT !.twoTouch = FALSE, !.state = {kind}], f)
<1>. DEFINE a == [t EXCEPT !.twoTouch = FALSE]
            s == [a EXCEPT !.state = {kind}]
<1>1. t \in GestureRecords /\ ~HasDetectedGesture(t)
  BY DEF GestureInv, Timers
<1>2. Len(t.tracked) > 1
  BY DEF GestureInv, Timers
<1>3. t.tracked # <<>>
  <2>. DEFINE n == Len(t.tracked)
  <2>1. t.tracked = <<>> => n = 0
    OBVIOUS
  <2>. HIDE DEF n
  <2>2. n # 0
    BY <1>2 DEF n
  <2>. QED  BY <2>1, <2>2
<1>4. ~t.longpress
  <2>. DEFINE n == Len(t.tracked)
  <2>1. t.longpress => n = 1
    BY DEF GestureInv, Timers
  <2>2. n > 1
    BY <1>2
  <2>. HIDE DEF n
  <2>. QED  BY <2>1, <2>2
<1>5. /\ a \in GestureRecords /\ a.ignored = t.ignored /\ a.tracked = t.tracked
      /\ a.waiting = t.waiting /\ a.late = t.late /\ a.age = t.age /\ ~a.twoTouch
      /\ a.longpress = t.longpress
  BY <1>1 DEF GestureRecords
<1>. HIDE DEF a
<1>6. kind \in Kinds /\ kind \notin {"onetap", "twotap"} \cup Holding
  BY DEF Kinds, Holding
<1>7. /\ s \in GestureRecords /\ s.ignored = t.ignored /\ s.tracked = t.tracked
      /\ s.waiting = t.waiting /\ s.late = t.late /\ s.age = t.age /\ ~s.twoTouch
      /\ s.longpress = t.longpress /\ s.state = {kind}
  BY <1>5, <1>6 DEF GestureRecords
<1>8. s = [t EXCEPT !.twoTouch = FALSE, !.state = {kind}]
  BY DEF a
<1>. HIDE DEF s
<1>9. Active(s) = Active(t)
  BY <1>7, ActiveIsActiveIn
<1>10. Touching(s, f)
  BY <1>7, <1>9 DEF GestureInv, Touching
<1>11. Idle(s) /\ Timers(s)
  BY <1>3, <1>4, <1>7 DEF GestureInv, Idle, Timers
<1>12. Possible(s)
  <2>1. s.state \in {{"twodrag"}, {"pinch"}} /\ s.state \cap ({"onetap"} \cup Holding) = {}
    BY <1>6, <1>7
  <2>2. s.state \in {{}} \cup (Singles \ {{k} : k \in Holding}) /\ "twotap" \notin s.state
    BY <1>6, <1>7 DEF Singles
  <2>. QED  BY <2>1, <2>2 DEF Possible
<1>13. GestureInv(s, f)
  BY <1>7, <1>10, <1>11, <1>12 DEF GestureInv
<1>. QED  BY <1>1, <1>3, <1>8, <1>13

\* Time passes.
LEMMA AgesInv ==
  ASSUME NEW t, NEW f, GestureInv(t, f)
  PROVE  /\ t.tracked # <<>> /\ t.age < 2 => GestureInv([t EXCEPT !.age = @ + 1], f)
         /\ t.waiting => GestureInv([t EXCEPT !.late = TRUE], f)
<1>1. t \in GestureRecords
  BY DEF GestureInv
<1>2. ASSUME NEW s \in GestureRecords, s.ignored = t.ignored, s.tracked = t.tracked,
             s.state = t.state, s.waiting = t.waiting, s.longpress = t.longpress,
             s.twoTouch = t.twoTouch, s.twoTouchId = t.twoTouchId, Idle(s)
      PROVE  GestureInv(s, f)
  <2>1. Active(s) = Active(t) /\ (HasDetectedGesture(s) <=> HasDetectedGesture(t))
    BY <1>2, ActiveIsActiveIn, SameDetection
  <2>2. Touching(s, f)
    BY <1>2, <2>1 DEF GestureInv, Touching
  <2>3. Timers(s) /\ Possible(s)
    BY <1>2, <2>1 DEF GestureInv, Timers, Possible
  <2>. QED  BY <1>2, <2>2, <2>3 DEF GestureInv
<1>3. ASSUME t.tracked # <<>>, t.age < 2
      PROVE  GestureInv([t EXCEPT !.age = @ + 1], f)
  <2>. DEFINE s == [t EXCEPT !.age = @ + 1]
  <2>0. t.age + 1 \in 0 .. 2
    BY <1>1, <1>3 DEF GestureRecords
  <2>1. /\ s \in GestureRecords /\ s.ignored = t.ignored /\ s.tracked = t.tracked
        /\ s.state = t.state /\ s.waiting = t.waiting /\ s.longpress = t.longpress
        /\ s.twoTouch = t.twoTouch /\ s.twoTouchId = t.twoTouchId /\ s.late = t.late
    BY <1>1, <2>0 DEF GestureRecords
  <2>. HIDE DEF s
  <2>2. Idle(s)
    BY <1>3, <2>1 DEF GestureInv, Idle
  <2>3. GestureInv(s, f)
    BY <1>2, <2>1, <2>2
  <2>. QED  BY <2>3 DEF s
<1>4. ASSUME t.waiting
      PROVE  GestureInv([t EXCEPT !.late = TRUE], f)
  <2>. DEFINE s == [t EXCEPT !.late = TRUE]
  <2>1. /\ s \in GestureRecords /\ s.ignored = t.ignored /\ s.tracked = t.tracked
        /\ s.state = t.state /\ s.waiting = t.waiting /\ s.longpress = t.longpress
        /\ s.twoTouch = t.twoTouch /\ s.twoTouchId = t.twoTouchId /\ s.age = t.age
    BY <1>1 DEF GestureRecords
  <2>. HIDE DEF s
  <2>2. Idle(s)
    BY <1>4, <2>1 DEF GestureInv, Idle
  <2>3. GestureInv(s, f)
    BY <1>2, <2>1, <2>2
  <2>. QED  BY <2>3 DEF s
<1>. QED  BY <1>3, <1>4


-----------------------------------------------------------------------------
(* The actions keep it. *)

\* What the user does, and on which computer.
LEMMA UserTypes ==
  ASSUME setup \in Setups, user \in UserRecords, [Next]_vars
  PROVE  setup' \in Setups /\ setup' = setup /\ user' \in UserRecords
<1>1. setup \in SetupRecords
  BY SetupsAssumption
<1>2. ASSUME NEW held \in SUBSET (PhysicalKeys \cup {"AltGrControl"}),
             NEW silent \in SUBSET PhysicalKeys, NEW local \in {"on", "off"}
      PROVE  [user EXCEPT !.local = local, !.held = held, !.silent = silent] \in UserRecords
  BY DEF UserRecords
<1>3. ASSUME NEW held \in SUBSET (PhysicalKeys \cup {"AltGrControl"}),
             NEW silent \in SUBSET PhysicalKeys
      PROVE  [user EXCEPT !.held = held, !.silent = silent] \in UserRecords
  BY DEF UserRecords
<1>4. setup.keys \subseteq PhysicalKeys
  BY <1>1 DEF SetupRecords
<1>5. ASSUME NEW c \in setup.keys, PressKey(c)
      PROVE  setup' = setup /\ user' \in UserRecords
  <2>. DEFINE again == c \in user.held
              fake == Windows /\ c = "AltRight" /\ "ControlLeft" \notin user.held
              mute == (Mac /\ c # "MetaLeft" /\ "MetaLeft" \in user.held)
                        \/ (Windows /\ c = "Lang")
              toggles == Mac /\ c = "CapsLock"
              local == IF c # "CapsLock" \/ again THEN user.local
                       ELSE IF user.local = "on" THEN "off" ELSE "on"
              held == IF toggles THEN user.held
                      ELSE user.held \cup {c} \cup (IF fake THEN {"AltGrControl"} ELSE {})
              silent == IF mute /\ ~toggles THEN user.silent \cup {c} ELSE user.silent \ {c}
  <2>1. setup' = setup /\ user' = [user EXCEPT !.local = local, !.held = held, !.silent = silent]
    BY <1>5 DEF PressKey
  <2>2. held \in SUBSET (PhysicalKeys \cup {"AltGrControl"})
    BY <1>4 DEF UserRecords
  <2>3. silent \in SUBSET PhysicalKeys
    BY <1>4 DEF UserRecords
  <2>4. local \in {"on", "off"}
    BY DEF UserRecords
  <2>. HIDE DEF held, silent, local
  <2>. QED  BY <1>2, <2>1, <2>2, <2>3, <2>4
<1>6. ASSUME NEW c \in setup.keys, ReleaseKey(c)
      PROVE  setup' = setup /\ user' \in UserRecords
  <2>. DEFINE fake == c = "AltRight" /\ "AltGrControl" \in user.held
              held == user.held \ ({c} \cup (IF fake THEN {"AltGrControl"} ELSE {}))
              silent == user.silent \ {c}
  <2>1. setup' = setup /\ user' = [user EXCEPT !.held = held, !.silent = silent]
    BY <1>6 DEF ReleaseKey
  <2>2. held \in SUBSET (PhysicalKeys \cup {"AltGrControl"}) /\ silent \in SUBSET PhysicalKeys
    BY DEF UserRecords
  <2>. HIDE DEF held, silent
  <2>. QED  BY <1>3, <2>1, <2>2
<1>7. ASSUME Keyboard PROVE setup' = setup /\ user' \in UserRecords
  <2>1. ASSUME Blur \/ (\E f \in {"canvas", "page"} : Focus(f)) \/ LockElsewhere
        PROVE  setup' = setup /\ user' \in UserRecords
    BY <2>1 DEF Blur, Focus, LockElsewhere, UserRecords
  <2>2. ASSUME AltGrTimeout \/ HandleLedEvent \/ SendWindowsKey \/ WinKeyUp \/ SendCtrlAltDel
        PROVE  setup' = setup /\ user' \in UserRecords
    BY <2>2 DEF AltGrTimeout, HandleLedEvent, SendWindowsKey, WinKeyUp, SendCtrlAltDel
  <2>. QED  BY <1>5, <1>6, <1>7, <2>1, <2>2 DEF Keyboard
<1>8. ASSUME Mouse PROVE setup' = setup /\ user' \in UserRecords
  <2>1. ASSUME NEW b \in setup.buttons, MouseDown(b) \/ MouseUp(b)
        PROVE  setup' = setup /\ user' \in UserRecords
    <3>1. b \in {"left", "middle", "right"}
      BY <1>1 DEF SetupRecords
    <3>2. \/ user' = [user EXCEPT !.buttons = @ \cup {b}]
          \/ user' = [user EXCEPT !.buttons = @ \ {b}]
      BY <2>1 DEF MouseDown, MouseUp
    <3>3. user' \in UserRecords
      BY <3>1, <3>2 DEF UserRecords
    <3>. QED  BY <2>1, <3>3 DEF MouseDown, MouseUp
  <2>2. ASSUME NEW pos \in setup.positions, MouseMove(pos)
        PROVE  setup' = setup /\ user' \in UserRecords
    <3>1. pos \in 0 .. 2
      BY <1>1 DEF SetupRecords
    <3>2. user' = [user EXCEPT !.at = pos] /\ setup' = setup
      BY <2>2 DEF MouseMove
    <3>. QED  BY <3>1, <3>2 DEF UserRecords
  <2>3. ASSUME (\E delta \in {-1, 1} : Wheel(delta)) \/ HandleDelayedMouseMove \/ CoolDown
        PROVE  setup' = setup /\ user' \in UserRecords
    BY <2>3 DEF Wheel, HandleDelayedMouseMove, CoolDown
  <2>. QED  BY <1>8, <2>1, <2>2, <2>3 DEF Mouse
<1>9. ASSUME Touch PROVE setup' = setup /\ user' \in UserRecords
  <2>1. ASSUME NEW id \in setup.fingers, TouchStart(id) \/ \E pos : TouchEnd(id, pos)
        PROVE  setup' = setup /\ user' \in UserRecords
    <3>1. id \in Fingers
      BY <1>1 DEF SetupRecords
    <3>2. setup' = setup /\ (\/ user' = [user EXCEPT !.fingers = @ \cup {id}]
                             \/ user' = [user EXCEPT !.fingers = @ \ {id}])
      BY <2>1 DEF TouchStart, TouchEnd
    <3>. QED  BY <3>1, <3>2 DEF UserRecords
  <2>2. ASSUME \/ \E id, far, apart, pos, scroll : TouchMove(id, far, apart, pos, scroll)
               \/ \E pos : LongpressTimeout(pos)
               \/ \E kind, pos, scroll : TwoTouchTimeout(kind, pos, scroll)
               \/ TouchAges \/ ReleaseAges
        PROVE  setup' = setup /\ user' \in UserRecords
    BY <2>2 DEF TouchMove, LongpressTimeout, TwoTouchTimeout, TouchAges, ReleaseAges
  <2>. QED  BY <1>9, <2>1, <2>2 DEF Touch
<1>10. ASSUME NEW on \in BOOLEAN, SetViewOnly(on) PROVE setup' = setup /\ user' \in UserRecords
  BY <1>10 DEF SetViewOnly
<1>11. ASSUME UNCHANGED vars PROVE setup' = setup /\ user' \in UserRecords
  BY <1>11 DEF vars
<1>. QED  BY <1>7, <1>8, <1>9, <1>10, <1>11 DEF Next


\* Only the touch events are about fingers.
LEMMA OthersLeaveTouches ==
  ASSUME user \in UserRecords,
         Keyboard \/ Mouse \/ (\E on \in BOOLEAN : SetViewOnly(on)) \/ UNCHANGED vars
  PROVE  g' = g /\ user'.fingers = user.fingers
<1>1. ASSUME NEW c, PressKey(c) \/ ReleaseKey(c)
      PROVE  g' = g /\ user'.fingers = user.fingers
  <2>1. g' = g
    BY <1>1 DEF PressKey, ReleaseKey
  <2>2. ASSUME NEW a, NEW b, NEW d,
               \/ user' = [user EXCEPT !.local = a, !.held = b, !.silent = d]
               \/ user' = [user EXCEPT !.held = b, !.silent = d]
        PROVE  user'.fingers = user.fingers
    BY <2>2 DEF UserRecords
  <2>3. \E a, b, d : user' = [user EXCEPT !.local = a, !.held = b, !.silent = d]
                     \/ user' = [user EXCEPT !.held = b, !.silent = d]
    <3>1. CASE PressKey(c)
      BY <3>1, Zenon DEF PressKey
    <3>2. CASE ReleaseKey(c)
      BY <3>2, Zenon DEF ReleaseKey
    <3>. QED  BY <1>1, <3>1, <3>2
  <2>. QED  BY <2>1, <2>2, <2>3
<1>2. ASSUME Blur \/ (\E f \in {"canvas", "page"} : Focus(f)) \/ LockElsewhere
      PROVE  g' = g /\ user'.fingers = user.fingers
  BY <1>2 DEF Blur, Focus, LockElsewhere, UserRecords
<1>3. ASSUME AltGrTimeout \/ HandleLedEvent \/ SendWindowsKey \/ WinKeyUp \/ SendCtrlAltDel
      PROVE  g' = g /\ user'.fingers = user.fingers
  BY <1>3 DEF AltGrTimeout, HandleLedEvent, SendWindowsKey, WinKeyUp, SendCtrlAltDel
<1>4. ASSUME Mouse PROVE g' = g /\ user'.fingers = user.fingers
  <2>1. ASSUME NEW b, MouseDown(b) \/ MouseUp(b)
        PROVE  g' = g /\ user'.fingers = user.fingers
    <3>1. /\ g' = g
          /\ \/ user' = [user EXCEPT !.buttons = @ \cup {b}]
             \/ user' = [user EXCEPT !.buttons = @ \ {b}]
      BY <2>1 DEF MouseDown, MouseUp
    <3>. QED  BY <3>1 DEF UserRecords
  <2>2. ASSUME NEW pos, MouseMove(pos)
        PROVE  g' = g /\ user'.fingers = user.fingers
    BY <2>2 DEF MouseMove, UserRecords
  <2>3. ASSUME (\E delta \in {-1, 1} : Wheel(delta)) \/ HandleDelayedMouseMove \/ CoolDown
        PROVE  g' = g /\ user'.fingers = user.fingers
    BY <2>3 DEF Wheel, HandleDelayedMouseMove, CoolDown
  <2>. QED  BY <1>4, <2>1, <2>2, <2>3 DEF Mouse
<1>5. ASSUME (\E on \in BOOLEAN : SetViewOnly(on)) \/ UNCHANGED vars
      PROVE  g' = g /\ user'.fingers = user.fingers
  BY <1>5 DEF SetViewOnly, vars
<1>. QED  BY <1>1, <1>2, <1>3, <1>4, <1>5 DEF Keyboard

\* The fingers on the screen.
LEMMA FingersKept ==
  ASSUME user \in UserRecords, NEW b, \/ user' = user /\ b = user.fingers
                                      \/ user' = [user EXCEPT !.fingers = b]
  PROVE  user'.fingers = b
BY DEF UserRecords

TouchInv == setup \in Setups /\ user \in UserRecords /\ GestureInv(g, user.fingers)

\* Who tracks a finger tracks one.
LEMMA TracksSome ==
  ASSUME NEW t, t.tracked \in Seq(Finger), NEW id, \E u \in Tracked(t) : u.id = id
  PROVE  t.tracked # <<>>
<1>1. Len(t.tracked) \in Nat
  BY LenProperties
<1>. QED  BY <1>1 DEF Tracked

\* What each touch event makes of the handler.
LEMMA TouchKeepsInv ==
  ASSUME TouchInv, Touch
  PROVE  GestureInv(g', user'.fingers)
<1>1. setup \in SetupRecords /\ setup.fingers \subseteq Fingers
  BY SetupsAssumption DEF TouchInv, SetupRecords
<1>2. /\ user \in UserRecords /\ user.fingers \subseteq Fingers /\ GestureInv(g, user.fingers)
      /\ g \in GestureRecords /\ g.tracked \in Seq(Finger)
  BY DEF TouchInv, UserRecords, GestureInv, GestureRecords, Finger
<1>3. ASSUME NEW id \in setup.fingers, TouchStart(id)
      PROVE  GestureInv(g', user'.fingers)
  <2>1. user'.fingers = user.fingers \cup {id}
    BY <1>2, <1>3, FingersKept DEF TouchStart
  <2>2. id \in Fingers \ user.fingers /\ g' = StartTouch(g, id)
    BY <1>1, <1>3 DEF TouchStart
  <2>. QED  BY <1>2, <2>1, <2>2, StartTouchInv
<1>4. ASSUME NEW id \in setup.fingers, NEW far \in BOOLEAN, NEW apart \in BOOLEAN,
             NEW pos, NEW scroll, TouchMove(id, far, apart, pos, scroll)
      PROVE  GestureInv(g', user'.fingers)
  <2>1. user'.fingers = user.fingers /\ g' = MoveTouch(g, id, far, apart)
    BY <1>4 DEF TouchMove
  <2>2. g.tracked # <<>> /\ id \in Fingers
    BY <1>1, <1>2, <1>4, TracksSome DEF TouchMove
  <2>. QED  BY <1>2, <2>1, <2>2, MoveTouchInv
<1>5. ASSUME NEW id \in setup.fingers, NEW pos, TouchEnd(id, pos)
      PROVE  GestureInv(g', user'.fingers)
  <2>. DEFINE t == ReleaseTouch(g, id)
  <2>1. user'.fingers = user.fingers \ {id}
    BY <1>2, <1>5, FingersKept DEF TouchEnd
  <2>2. id \in Fingers /\ id \in user.fingers
    BY <1>1, <1>5 DEF TouchEnd
  <2>3. CASE id \in g.ignored
    <3>1. g' = EndIgnored(g, id)
      BY <1>5, <2>3 DEF TouchEnd
    <3>. QED  BY <1>2, <2>1, <2>2, <2>3, <3>1, EndIgnoredInv
  <2>4. CASE id \notin g.ignored
    <3>1. g.tracked # <<>>
      <4>1. id \in Active(g)
        BY <1>2, <2>2, <2>4 DEF GestureInv, Touching
      <4>2. PICK u \in Tracked(g) : u.id = id
        BY <4>1 DEF Active
      <4>. QED  BY <1>2, <4>2, TracksSome
    <3>2. Released1(g, t, id)
      BY <1>2, <2>2, <3>1, ReleaseTouchFacts
    <3>3. CASE t.waiting /\ ~HasDetectedGesture(t) /\ t.state # {}
      <4>1. g' = t
        BY <1>5, <2>4, <3>3 DEF TouchEnd
      <4>. HIDE DEF t
      <4>2. GestureInv(t, user.fingers \ {id})
        BY <1>2, <2>2, <2>4, <3>1, <3>2, <3>3, WaitsForOthers
      <4>. QED  BY <2>1, <4>1, <4>2
    <3>4. CASE ~(t.waiting /\ ~HasDetectedGesture(t) /\ t.state # {})
      <4>1. g' = EndTouch(t, id)
        BY <1>5, <2>4, <3>4 DEF TouchEnd
      <4>. HIDE DEF t
      <4>. QED  BY <1>2, <2>1, <2>2, <2>4, <3>1, <3>2, <4>1, EndTouchInv
    <3>. QED  BY <3>3, <3>4
  <2>. QED  BY <2>3, <2>4
<1>6. ASSUME NEW pos, LongpressTimeout(pos)
      PROVE  GestureInv(g', user'.fingers)
  <2>1. ~HasDetectedGesture(g) /\ g.tracked # <<>>
    BY <1>2, <1>6, LongpressInv DEF LongpressTimeout
  <2>2. g' = [g EXCEPT !.longpress = FALSE, !.state = {"longpress"}] /\ user' = user
    BY <1>6, <2>1 DEF LongpressTimeout
  <2>. QED  BY <1>2, <1>6, <2>2, LongpressInv DEF LongpressTimeout
<1>7. ASSUME NEW kind \in {"twodrag", "pinch"}, NEW pos, NEW scroll,
             TwoTouchTimeout(kind, pos, scroll)
      PROVE  GestureInv(g', user'.fingers)
  <2>1. g.twoTouch /\ g.tracked # <<>>
    BY <1>2, <1>7, TwoTouchInv DEF TwoTouchTimeout
  <2>2. g' = [g EXCEPT !.twoTouch = FALSE, !.state = {kind}] /\ user' = user
    BY <1>7, <2>1 DEF TwoTouchTimeout
  <2>. QED  BY <1>2, <2>1, <2>2, TwoTouchInv
<1>8. ASSUME TouchAges \/ ReleaseAges
      PROVE  GestureInv(g', user'.fingers)
  BY <1>2, <1>8, AgesInv DEF TouchAges, ReleaseAges
<1>. QED  BY <1>3, <1>4, <1>5, <1>6, <1>7, <1>8 DEF Touch

LEMMA TouchInvHolds == Spec => []TouchInv
<1>1. Init => TouchInv
  <2>. SUFFICES ASSUME Init PROVE TouchInv
    OBVIOUS
  <2>1. setup \in Setups /\ user \in UserRecords /\ user.fingers = {}
    BY DEF Init, UserRecords
  <2>2. g = NoTouch
    BY DEF Init
  <2>3. NoTouch \in GestureRecords
    <3>1. <<>> \in Seq(Finger)
      BY EmptySeq
    <3>. QED  BY <3>1 DEF NoTouch, GestureRecords, Finger
  <2>4. /\ g.state = Kinds /\ g.tracked = <<>> /\ g.ignored = {} /\ ~g.waiting /\ ~g.late
        /\ g.age = 0 /\ ~g.longpress /\ ~g.twoTouch
    BY <2>2 DEF NoTouch
  <2>5. Active(g) = {} /\ ~(Len(g.tracked) > 1) /\ ~(Len(g.tracked) > 2)
    <3>1. Len(g.tracked) = 0
      BY <2>4
    <3>2. ActiveIn(g.tracked) = {}
      BY <3>1 DEF ActiveIn
    <3>. QED  BY <3>1, <3>2, ActiveIsActiveIn
  <2>6. Touching(g, user.fingers) /\ Idle(g) /\ Timers(g)
    BY <2>1, <2>4, <2>5 DEF Touching, Idle, Timers
  <2>7. Possible(g)
    BY <2>4, <2>5 DEF Possible, Kinds
  <2>. QED  BY <2>1, <2>2, <2>3, <2>6, <2>7 DEF TouchInv, GestureInv
<1>2. TouchInv /\ [Next]_vars => TouchInv'
  <2>. SUFFICES ASSUME TouchInv, [Next]_vars PROVE TouchInv'
    OBVIOUS
  <2>1. setup' \in Setups /\ user' \in UserRecords
    BY UserTypes DEF TouchInv
  <2>2. GestureInv(g', user'.fingers)
    <3>1. CASE Touch
      BY <3>1, TouchKeepsInv
    <3>2. CASE ~Touch
      <4>1. g' = g /\ user'.fingers = user.fingers
        BY <3>2, OthersLeaveTouches DEF Next, TouchInv
      <4>. QED  BY <4>1 DEF TouchInv
    <3>. QED  BY <3>1, <3>2
  <2>3. GestureInv(g, user.fingers)' = GestureInv(g', user'.fingers)
    BY DEF GestureInv, Touching, Idle, Timers, Possible, HasDetectedGesture, Active, Tracked
  <2>. QED  BY <2>1, <2>2, <2>3 DEF TouchInv
<1>. QED  BY <1>1, <1>2, PTL DEF Spec

(***************************************************************************)
(* No timer of the gestures runs on when the touches are over, or meets a  *)
(* gesture that is known, and the next touch finds the handler as new      *)
(* (gesturehandler.js _touchEnd).                                          *)
(***************************************************************************)
THEOREM TouchesStartAfresh == Spec => []TouchStartsAfresh
<1>1. TouchInv => TouchStartsAfresh
  <2>. SUFFICES ASSUME TouchInv PROVE TouchStartsAfresh
    OBVIOUS
  <2>1. GestureInv(g, user.fingers) /\ g \in GestureRecords
    BY DEF TouchInv, GestureInv
  <2>2. g.longpress => g.tracked # <<>> /\ ~HasDetectedGesture(g)
    BY <2>1, LongpressInv
  <2>3. g.twoTouch => g.tracked # <<>>
    BY <2>1, TwoTouchInv
  <2>4. ASSUME user.fingers = {} PROVE [g EXCEPT !.twoTouchId = FALSE] = NoTouch
    <3>. DEFINE s == [g EXCEPT !.twoTouchId = FALSE]
    <3>1. g.ignored = {} /\ g.tracked = <<>>
      BY <2>1, <2>4 DEF GestureInv, Touching
    <3>2. /\ g.state = Kinds /\ ~g.waiting /\ ~g.late /\ g.age = 0
      BY <2>1, <3>1 DEF GestureInv, Idle
    <3>3. ~g.longpress /\ ~g.twoTouch
      BY <2>2, <2>3, <3>1
    <3>4. /\ s \in GestureRecords /\ s.state = g.state /\ s.tracked = g.tracked
          /\ s.ignored = g.ignored /\ s.waiting = g.waiting /\ s.late = g.late
          /\ s.age = g.age /\ s.longpress = g.longpress /\ s.twoTouch = g.twoTouch
          /\ ~s.twoTouchId
      BY <2>1 DEF GestureRecords
    <3>. HIDE DEF s
    <3>5. s = [state |-> s.state, tracked |-> s.tracked, ignored |-> s.ignored,
               waiting |-> s.waiting, late |-> s.late, age |-> s.age,
               longpress |-> s.longpress, twoTouch |-> s.twoTouch, twoTouchId |-> s.twoTouchId]
      BY <3>4 DEF GestureRecords
    <3>6. /\ s.waiting = FALSE /\ s.late = FALSE /\ s.longpress = FALSE /\ s.twoTouch = FALSE
          /\ s.twoTouchId = FALSE
      BY <3>2, <3>3, <3>4 DEF GestureRecords
    <3>7. s = NoTouch
      BY <3>1, <3>2, <3>4, <3>5, <3>6, Zenon DEF NoTouch
    <3>. QED  BY <3>7 DEF s
  <2>. QED  BY <2>2, <2>3, <2>4 DEF TouchStartsAfresh
<1>. QED  BY <1>1, TouchInvHolds, PTL

-----------------------------------------------------------------------------
(***************************************************************************)
(* The keyboard's handlers and the pointer's leave each other's part of    *)
(* the RFB object alone.                                                   *)
(***************************************************************************)
SamePointer(r, s) ==
  /\ s.mask = r.mask /\ s.pos = r.pos /\ s.timer = r.timer /\ s.cooling = r.cooling
  /\ s.wheel = r.wheel /\ s.capture = r.capture
  /\ s.buttons = r.buttons /\ s.at = r.at /\ s.muted = r.muted

SameKeys(r, s) ==
  /\ s.viewOnly = r.viewOnly /\ s.list = r.list /\ s.armed = r.armed
  /\ s.known = r.known /\ s.wins = r.wins
  /\ s.down = r.down /\ s.caps = r.caps /\ s.reports = r.reports

\* What a keyboard handler leaves besides: no handler sends view-only or the
\* timers of the Windows key.
KeyStep(r, s) ==
  s \in InputRecords /\ SamePointer(r, s) /\ s.viewOnly = r.viewOnly /\ s.wins = r.wins

SentCodes == Codes \cup {"AltLeft", "Delete"}

-----------------------------------------------------------------------------
(* Keys. *)

\* What a key is known by.
LEMMA KeyIds ==
  ASSUME NEW keysym \in Keysyms, NEW code \in SentCodes
  PROVE  KeyId(keysym, code) \in Keysyms \cup Codes \cup {"AltLeft"}
BY DEF KeyId, SentCodes, Codes, Keysyms

\* What RFB.sendKey does to the kiosk, for a key pressed and one released.
LEMMA KeyPressed ==
  ASSUME NEW r \in InputRecords, NEW keysym \in Keysyms, NEW code \in SentCodes
  PROVE  LET s == SendKey(r, keysym, code, TRUE)
         IN  /\ KeyStep(r, s) /\ s.list = r.list /\ s.armed = r.armed /\ s.known = r.known
             /\ s.down = IF r.viewOnly \/ KeyId(keysym, code) = "NoSymbol" THEN r.down
                         ELSE r.down \cup {KeyId(keysym, code)}
             /\ keysym # "Caps_Lock" \/ r.viewOnly => s.caps = r.caps /\ s.reports = r.reports
             /\ s.caps \in {r.caps, Toggled(r)}
<1>1. KeyId(keysym, code) \in Keysyms \cup Codes \cup {"AltLeft"}
  BY KeyIds
<1>2. Toggled(r) \in {"on", "off"}
  BY DEF Toggled
<1>3. Append(r.reports, Toggled(r)) \in Seq({"on", "off"})
  BY <1>2 DEF InputRecords
<1>4. CASE r.viewOnly \/ KeyId(keysym, code) = "NoSymbol"
  BY <1>4 DEF SendKey, KeyStep, SamePointer
<1>5. CASE ~(r.viewOnly \/ KeyId(keysym, code) = "NoSymbol") /\ keysym # "Caps_Lock"
  BY <1>1, <1>5 DEF SendKey, KeyStep, SamePointer, InputRecords
<1>6. CASE ~(r.viewOnly \/ KeyId(keysym, code) = "NoSymbol") /\ keysym = "Caps_Lock"
  BY ZenonT(40), <1>1, <1>2, <1>3, <1>6 DEF SendKey, KeyStep, SamePointer, InputRecords
<1>. QED  BY <1>4, <1>5, <1>6

LEMMA KeyReleased ==
  ASSUME NEW r \in InputRecords, NEW keysym \in Keysyms, NEW code \in SentCodes
  PROVE  LET s == SendKey(r, keysym, code, FALSE)
         IN  /\ KeyStep(r, s) /\ s.list = r.list /\ s.armed = r.armed /\ s.known = r.known
             /\ s.down = IF r.viewOnly \/ KeyId(keysym, code) = "NoSymbol" THEN r.down
                         ELSE r.down \ {KeyId(keysym, code)}
             /\ s.caps = r.caps /\ s.reports = r.reports
<1>1. KeyId(keysym, code) \in Keysyms \cup Codes \cup {"AltLeft"}
  BY KeyIds
<1>2. CASE r.viewOnly \/ KeyId(keysym, code) = "NoSymbol"
  BY <1>2 DEF SendKey, KeyStep, SamePointer
<1>3. CASE ~(r.viewOnly \/ KeyId(keysym, code) = "NoSymbol")
  BY <1>1, <1>3 DEF SendKey, KeyStep, SamePointer, InputRecords
<1>. QED  BY <1>2, <1>3

(***************************************************************************)
(* On a computer without a CapsLock key: what the client knows of the      *)
(* kiosk's lock is so, and at most one report is on its way and true.      *)
(***************************************************************************)
CapsKnown(r) ==
  /\ \A c \in Codes : r.list[c] # "Caps_Lock"
  /\ r.known # "null" => r.reports = <<>> /\ r.known = r.caps
  /\ r.reports # <<>> => r.reports = <<r.caps>>

Locks == {"on", "off", "null", "undefined"}

Follows(r, s, lock) ==
  CapsKnown(r) => CapsKnown(s) /\ (s.caps = r.caps \/ s.caps = lock \/ lock = "undefined")

LEMMA FollowsTwice ==
  ASSUME NEW r, NEW s, NEW t, NEW lock, Follows(r, s, lock), Follows(s, t, lock)
  PROVE  Follows(r, t, lock)
BY DEF Follows

LEMMA KeyStepTwice ==
  ASSUME NEW r, NEW s, NEW t, KeyStep(r, s), KeyStep(s, t)
  PROVE  KeyStep(r, t)
BY DEF KeyStep, SamePointer

\* Pressing a key and releasing it again, on behalf of nobody.
LEMMA PressFacts ==
  ASSUME NEW r \in InputRecords, NEW keysym \in Keysyms, NEW code \in SentCodes
  PROVE  LET s == Press(r, keysym, code)
         IN  /\ KeyStep(r, s) /\ s.list = r.list /\ s.armed = r.armed /\ s.known = r.known
             /\ s.down \subseteq r.down /\ (r.viewOnly => s.down = r.down)
             /\ s.caps \in {r.caps, Toggled(r)}
             /\ r.reports = <<>> => s.reports = <<>> \/ s.reports = <<s.caps>>
             /\ keysym # "Caps_Lock" => s.caps = r.caps /\ s.reports = r.reports
<1>. DEFINE a == SendKey(r, keysym, code, TRUE)
            b == SendKey(a, keysym, code, FALSE)
<1>1. /\ KeyStep(r, a) /\ a.list = r.list /\ a.armed = r.armed /\ a.known = r.known
      /\ a.down = IF r.viewOnly \/ KeyId(keysym, code) = "NoSymbol" THEN r.down
                  ELSE r.down \cup {KeyId(keysym, code)}
      /\ a.caps \in {r.caps, Toggled(r)}
      /\ keysym # "Caps_Lock" => a.caps = r.caps /\ a.reports = r.reports
  BY KeyPressed
<1>2. ASSUME r.reports = <<>>
      PROVE  a.reports = <<>> \/ a.reports = <<a.caps>>
  <2>1. Append(r.reports, Toggled(r)) = <<Toggled(r)>>
    BY <1>2
  <2>. QED  BY <1>2, <2>1 DEF SendKey, InputRecords
<1>. HIDE DEF a
<1>3. /\ KeyStep(a, b) /\ b.list = a.list /\ b.armed = a.armed /\ b.known = a.known
      /\ b.down = IF a.viewOnly \/ KeyId(keysym, code) = "NoSymbol" THEN a.down
                  ELSE a.down \ {KeyId(keysym, code)}
      /\ b.caps = a.caps /\ b.reports = a.reports
  <2>1. a \in InputRecords
    BY <1>1 DEF KeyStep
  <2>. QED  BY <2>1, KeyReleased
<1>. HIDE DEF b
<1>4. a.viewOnly = r.viewOnly
  BY <1>1 DEF KeyStep
<1>5. KeyStep(r, b)
  BY <1>1, <1>3, KeyStepTwice
<1>6. b.down \subseteq r.down /\ (r.viewOnly => b.down = r.down)
  BY <1>1, <1>3, <1>4
<1>7. r.reports = <<>> => b.reports = <<>> \/ b.reports = <<b.caps>>
  BY <1>2, <1>3
<1>8. b = Press(r, keysym, code)
  BY DEF Press, a, b
<1>. QED  BY <1>1, <1>3, <1>5, <1>6, <1>7, <1>8

\* The lock of the kiosk is fixed, and no other key is touched.
FixLock(r) == [Press(r, "Caps_Lock", "CapsLock") EXCEPT !.known = "null"]

LEMMA FixLockFacts ==
  ASSUME NEW r \in InputRecords, NEW lock \in Locks, r.known # "null", r.known # lock
  PROVE  LET s == FixLock(r)
         IN  /\ KeyStep(r, s) /\ s.list = r.list /\ s.armed = r.armed
             /\ s.down \subseteq r.down /\ (r.viewOnly => s.down = r.down)
             /\ lock # "null" => Follows(r, s, lock)
<1>. DEFINE a == Press(r, "Caps_Lock", "CapsLock")
            s == [a EXCEPT !.known = "null"]
<1>1. "Caps_Lock" \in Keysyms /\ "CapsLock" \in SentCodes
  BY DEF Keysyms, SentCodes, Codes, PhysicalKeys
<1>2. /\ KeyStep(r, a) /\ a.list = r.list /\ a.armed = r.armed /\ a.known = r.known
      /\ a.down \subseteq r.down /\ (r.viewOnly => a.down = r.down)
      /\ a.caps \in {r.caps, Toggled(r)}
      /\ r.reports = <<>> => a.reports = <<>> \/ a.reports = <<a.caps>>
  BY <1>1, PressFacts
<1>. HIDE DEF a
<1>3. /\ KeyStep(a, s) /\ s.list = a.list /\ s.armed = a.armed /\ s.down = a.down
      /\ s.known = "null" /\ s.caps = a.caps /\ s.reports = a.reports
  BY <1>2 DEF KeyStep, SamePointer, InputRecords
<1>. HIDE DEF s
<1>4. KeyStep(r, s)
  BY <1>2, <1>3, KeyStepTwice
<1>5. ASSUME lock # "null", CapsKnown(r)
      PROVE  CapsKnown(s) /\ (s.caps = r.caps \/ s.caps = lock \/ lock = "undefined")
  <2>1. /\ r.reports = <<>> /\ r.known = r.caps /\ r.caps \in {"on", "off"}
        /\ \A c \in Codes : r.list[c] # "Caps_Lock"
    BY <1>5 DEF CapsKnown, InputRecords
  <2>2. s.reports # <<>> => s.reports = <<s.caps>>
    BY <1>2, <1>3, <2>1
  <2>3. CapsKnown(s)
    BY <1>2, <1>3, <2>1, <2>2 DEF CapsKnown
  <2>4. Toggled(r) = lock \/ lock = "undefined"
    BY <1>5, <2>1 DEF Toggled, Locks
  <2>. QED  BY <1>2, <1>3, <2>3, <2>4
<1>6. lock # "null" => Follows(r, s, lock)
  BY <1>5 DEF Follows
<1>7. s = FixLock(r)
  BY DEF FixLock, s, a
<1>. QED  BY <1>2, <1>3, <1>4, <1>6, <1>7

\* RFB._handleKeyEvent, for a key pressed and one released.
LEMMA EventPressed ==
  ASSUME NEW r \in InputRecords, NEW keysym \in Keysyms, NEW code \in SentCodes,
         NEW lock \in Locks
  PROVE  LET s == HandleKeyEvent(r, keysym, code, TRUE, lock)
         IN  /\ KeyStep(r, s) /\ s.list = r.list /\ s.armed = r.armed
             /\ r.viewOnly => s.down = r.down
             /\ s.down \subseteq IF KeyId(keysym, code) = "NoSymbol" THEN r.down
                                 ELSE r.down \cup {KeyId(keysym, code)}
             /\ keysym # "Caps_Lock" => Follows(r, s, lock)
<1>. DEFINE r1 == IF code = "CapsLock" THEN [r EXCEPT !.known = "null"] ELSE r
            r2 == IF r1.known # "null" /\ lock # "null" /\ r1.known # lock
                  THEN FixLock(r1) ELSE r1
            s == SendKey(r2, keysym, code, TRUE)
<1>1. /\ KeyStep(r, r1) /\ r1.list = r.list /\ r1.armed = r.armed /\ r1.down = r.down
      /\ r1.caps = r.caps /\ r1.reports = r.reports /\ r1.known \in {r.known, "null"}
  BY DEF KeyStep, SamePointer, InputRecords
<1>. HIDE DEF r1
<1>2. Follows(r, r1, lock)
  BY <1>1 DEF Follows, CapsKnown
<1>3. r1 \in InputRecords /\ r1.viewOnly = r.viewOnly
  BY <1>1 DEF KeyStep
<1>4. /\ KeyStep(r1, r2) /\ r2.list = r1.list /\ r2.armed = r1.armed
      /\ r2.down \subseteq r1.down /\ (r1.viewOnly => r2.down = r1.down)
      /\ Follows(r1, r2, lock)
  <2>1. CASE r1.known # "null" /\ lock # "null" /\ r1.known # lock
    BY <1>3, <2>1, FixLockFacts
  <2>2. CASE ~(r1.known # "null" /\ lock # "null" /\ r1.known # lock)
    BY <1>3, <2>2 DEF KeyStep, SamePointer, Follows
  <2>. QED  BY <2>1, <2>2
<1>. HIDE DEF r2
<1>5. r2 \in InputRecords /\ r2.viewOnly = r.viewOnly
  BY <1>3, <1>4 DEF KeyStep
<1>6. /\ KeyStep(r2, s) /\ s.list = r2.list /\ s.armed = r2.armed /\ s.known = r2.known
      /\ s.down = IF r2.viewOnly \/ KeyId(keysym, code) = "NoSymbol" THEN r2.down
                  ELSE r2.down \cup {KeyId(keysym, code)}
      /\ keysym # "Caps_Lock" => s.caps = r2.caps /\ s.reports = r2.reports
  BY <1>5, KeyPressed
<1>. HIDE DEF s
<1>7. KeyStep(r, s)
  BY <1>1, <1>4, <1>6, KeyStepTwice
<1>8. keysym # "Caps_Lock" => Follows(r2, s, lock)
  BY <1>6 DEF Follows, CapsKnown
<1>9. keysym # "Caps_Lock" => Follows(r, s, lock)
  BY <1>2, <1>4, <1>8, FollowsTwice
<1>10. s.down \subseteq IF KeyId(keysym, code) = "NoSymbol" THEN r.down
                        ELSE r.down \cup {KeyId(keysym, code)}
  BY <1>1, <1>4, <1>6
<1>11. s = HandleKeyEvent(r, keysym, code, TRUE, lock)
  BY DEF HandleKeyEvent, s, r2, r1, FixLock
<1>. QED  BY <1>1, <1>3, <1>4, <1>5, <1>6, <1>7, <1>9, <1>10, <1>11

\* What the release of a key leaves of the list and of the keys held.
Freed(r, s, k) ==
  /\ s.list = r.list /\ s.armed = r.armed
  /\ s.down = IF r.viewOnly \/ k = "NoSymbol" THEN r.down ELSE r.down \ {k}

LEMMA EventReleased ==
  ASSUME NEW r \in InputRecords, NEW keysym \in Keysyms, NEW code \in SentCodes,
         NEW lock \in Locks
  PROVE  LET s == HandleKeyEvent(r, keysym, code, FALSE, lock)
         IN  KeyStep(r, s) /\ Freed(r, s, KeyId(keysym, code)) /\ Follows(r, s, lock)
<1>. DEFINE s == SendKey(r, keysym, code, FALSE)
<1>1. s = HandleKeyEvent(r, keysym, code, FALSE, lock)
  BY DEF HandleKeyEvent
<1>2. /\ KeyStep(r, s) /\ s.list = r.list /\ s.armed = r.armed /\ s.known = r.known
      /\ s.down = IF r.viewOnly \/ KeyId(keysym, code) = "NoSymbol" THEN r.down
                  ELSE r.down \ {KeyId(keysym, code)}
      /\ s.caps = r.caps /\ s.reports = r.reports
  BY KeyReleased
<1>. HIDE DEF s
<1>3. Follows(r, s, lock)
  BY <1>2 DEF Follows, CapsKnown
<1>4. Freed(r, s, KeyId(keysym, code))
  BY <1>2 DEF Freed
<1>. QED  BY <1>1, <1>2, <1>3, <1>4

-----------------------------------------------------------------------------
(***************************************************************************)
(* KeysHaveHolder of an RFB object and the keys l that were left.  A key   *)
(* without a name is never sent, and in view-only mode nothing releases    *)
(* what is down, so all of it must have been left.                         *)
(***************************************************************************)
Holders(r) ==
  {KeyId(r.list[c], c) : c \in {k \in Codes : r.list[k] # Up}}
    \cup (IF r.wins > 0 THEN {"Super_L"} ELSE {})

HeldBy(r, l) ==
  /\ r.down \subseteq Holders(r) \cup l
  /\ "NoSymbol" \notin r.down
  /\ r.viewOnly => r.down \subseteq l

KeepsHolders(r, s) == \A l : HeldBy(r, l) => HeldBy(s, l)

\* _keyDownList gets one entry, or loses one.
Wrote(r, s, code, entry) ==
  s.armed = r.armed /\ \A c \in Codes : s.list[c] = IF c = code THEN entry ELSE r.list[c]

LEMMA KeepsTwice ==
  ASSUME NEW r, NEW s, NEW t, KeepsHolders(r, s), KeepsHolders(s, t)
  PROVE  KeepsHolders(r, t)
BY DEF KeepsHolders

LEMMA UpIsNoKeysym == Up \notin Keysyms
BY DEF Up, Keysyms

LEMMA CodesAreSent == Codes \subseteq SentCodes
BY DEF SentCodes

\* Keyboard._sendKeyEvent, for a key that goes down and one that goes up.
LEMMA TrackPressed ==
  ASSUME NEW r \in InputRecords, NEW keysym \in Keysyms, NEW code \in Codes, NEW lock \in Locks,
         r.list[code] \in {Up, keysym}
  PROVE  LET s == SendKeyEvent(r, keysym, code, TRUE, lock)
         IN  /\ KeyStep(r, s) /\ Wrote(r, s, code, keysym) /\ KeepsHolders(r, s)
             /\ keysym # "Caps_Lock" => Follows(r, s, lock)
<1>. DEFINE a == [r EXCEPT !.list[code] = keysym]
            s == HandleKeyEvent(a, keysym, code, TRUE, lock)
<1>1. /\ KeyStep(r, a) /\ a.armed = r.armed /\ a.down = r.down /\ a.known = r.known
      /\ a.caps = r.caps /\ a.reports = r.reports
      /\ \A c \in Codes : a.list[c] = IF c = code THEN keysym ELSE r.list[c]
  BY DEF KeyStep, SamePointer, InputRecords
<1>. HIDE DEF a
<1>2. a \in InputRecords /\ a.viewOnly = r.viewOnly /\ a.wins = r.wins
  BY <1>1 DEF KeyStep
<1>3. /\ KeyStep(a, s) /\ s.list = a.list /\ s.armed = a.armed
      /\ a.viewOnly => s.down = a.down
      /\ s.down \subseteq IF KeyId(keysym, code) = "NoSymbol" THEN a.down
                          ELSE a.down \cup {KeyId(keysym, code)}
      /\ keysym # "Caps_Lock" => Follows(a, s, lock)
  BY <1>2, CodesAreSent, EventPressed
<1>4. s = SendKeyEvent(r, keysym, code, TRUE, lock)
  BY DEF SendKeyEvent, s, a
<1>. HIDE DEF s
<1>5. KeyStep(r, s)
  BY <1>1, <1>3, KeyStepTwice
<1>6. ASSUME keysym # "Caps_Lock" PROVE Follows(r, s, lock)
  <2>1. Follows(r, a, lock)
    BY <1>1, <1>6 DEF Follows, CapsKnown
  <2>. QED  BY <1>3, <1>6, <2>1, FollowsTwice
<1>7. ASSUME NEW l, HeldBy(r, l) PROVE HeldBy(s, l)
  <2>1. s.viewOnly = r.viewOnly /\ s.wins = r.wins
    BY <1>5 DEF KeyStep
  <2>2. Holders(r) \subseteq Holders(s)
    BY <1>1, <1>3, <2>1 DEF Holders
  <2>3. KeyId(keysym, code) \in Holders(s)
    BY <1>1, <1>3, UpIsNoKeysym DEF Holders
  <2>4. s.down \subseteq Holders(s) \cup l
    BY <1>1, <1>3, <1>7, <2>2, <2>3 DEF HeldBy
  <2>5. "NoSymbol" \notin s.down
    BY <1>1, <1>3, <1>7 DEF HeldBy
  <2>6. s.viewOnly => s.down \subseteq l
    BY <1>1, <1>2, <1>3, <1>7, <2>1 DEF HeldBy
  <2>. QED  BY <2>4, <2>5, <2>6 DEF HeldBy
<1>8. Wrote(r, s, code, keysym)
  BY <1>1, <1>3 DEF Wrote
<1>. QED  BY <1>4, <1>5, <1>6, <1>7, <1>8 DEF KeepsHolders

LEMMA TrackReleased ==
  ASSUME NEW r \in InputRecords, NEW keysym \in Keysyms \cup {Up}, NEW code \in Codes,
         NEW lock \in Locks,
         r.list[code] \in {Up, keysym}
  PROVE  LET s == SendKeyEvent(r, keysym, code, FALSE, lock)
         IN  /\ KeyStep(r, s) /\ Wrote(r, s, code, Up) /\ KeepsHolders(r, s)
             /\ Follows(r, s, lock)
<1>1. CASE r.list[code] = Up
  <2>1. SendKeyEvent(r, keysym, code, FALSE, lock) = r
    BY <1>1 DEF SendKeyEvent
  <2>. QED  BY <1>1, <2>1 DEF KeyStep, SamePointer, Follows, Wrote, KeepsHolders
<1>2. CASE r.list[code] = keysym /\ keysym # Up
  <2>. DEFINE a == [r EXCEPT !.list[code] = Up]
              s == HandleKeyEvent(a, keysym, code, FALSE, lock)
  <2>1. /\ KeyStep(r, a) /\ a.armed = r.armed /\ a.down = r.down /\ a.known = r.known
        /\ a.caps = r.caps /\ a.reports = r.reports
        /\ \A c \in Codes : a.list[c] = IF c = code THEN Up ELSE r.list[c]
    BY DEF KeyStep, SamePointer, InputRecords
  <2>. HIDE DEF a
  <2>2. a \in InputRecords /\ a.viewOnly = r.viewOnly /\ a.wins = r.wins
    BY <2>1 DEF KeyStep
  <2>3. /\ KeyStep(a, s) /\ s.list = a.list /\ s.armed = a.armed
        /\ s.down = IF a.viewOnly \/ KeyId(keysym, code) = "NoSymbol" THEN a.down
                    ELSE a.down \ {KeyId(keysym, code)}
        /\ Follows(a, s, lock)
    <3>1. keysym \in Keysyms /\ code \in SentCodes
      BY <1>2, CodesAreSent
    <3>2. KeyStep(a, s) /\ Freed(a, s, KeyId(keysym, code)) /\ Follows(a, s, lock)
      BY <2>2, <3>1, EventReleased
    <3>. QED  BY <3>2 DEF Freed
  <2>4. s = SendKeyEvent(r, keysym, code, FALSE, lock)
    BY <1>2 DEF SendKeyEvent, s, a
  <2>. HIDE DEF s
  <2>5. KeyStep(r, s)
    BY <2>1, <2>3, KeyStepTwice
  <2>6. Follows(r, s, lock)
    <3>1. Follows(r, a, lock)
      BY <2>1 DEF Follows, CapsKnown, Up
    <3>. QED  BY <2>3, <3>1, FollowsTwice
  <2>7. ASSUME NEW l, HeldBy(r, l) PROVE HeldBy(s, l)
    <3>1. s.viewOnly = r.viewOnly /\ s.wins = r.wins
      BY <2>5 DEF KeyStep
    <3>2. Holders(r) \subseteq Holders(s) \cup {KeyId(keysym, code)}
      BY <1>2, <2>1, <2>3, <3>1 DEF Holders
    <3>3. s.viewOnly => s.down \subseteq l
      BY <2>1, <2>2, <2>3, <2>7, <3>1 DEF HeldBy
    <3>4. s.down \subseteq Holders(s) \cup l /\ "NoSymbol" \notin s.down
      BY <2>1, <2>2, <2>3, <2>7, <3>1, <3>2, <3>3 DEF HeldBy
    <3>. QED  BY <3>3, <3>4 DEF HeldBy
  <2>8. Wrote(r, s, code, Up)
    BY <2>1, <2>3 DEF Wrote
  <2>. QED  BY <2>4, <2>5, <2>6, <2>7, <2>8 DEF KeepsHolders
<1>. QED  BY <1>1, <1>2

LEMMA PressAndReleaseFacts ==
  ASSUME NEW r \in InputRecords, NEW keysym \in Keysyms, NEW code \in Codes, NEW lock \in Locks,
         r.list[code] \in {Up, keysym}
  PROVE  LET s == PressAndRelease(r, keysym, code, lock)
         IN  /\ KeyStep(r, s) /\ Wrote(r, s, code, Up) /\ KeepsHolders(r, s)
             /\ keysym # "Caps_Lock" => Follows(r, s, lock)
<1>. DEFINE a == SendKeyEvent(r, keysym, code, TRUE, lock)
            s == SendKeyEvent(a, keysym, code, FALSE, lock)
<1>1. /\ KeyStep(r, a) /\ Wrote(r, a, code, keysym) /\ KeepsHolders(r, a)
      /\ keysym # "Caps_Lock" => Follows(r, a, lock)
  BY TrackPressed
<1>. HIDE DEF a
<1>2. a \in InputRecords /\ a.list[code] \in {Up, keysym} /\ keysym \in Keysyms \cup {Up}
  BY <1>1 DEF KeyStep, Wrote
<1>3. KeyStep(a, s) /\ Wrote(a, s, code, Up) /\ KeepsHolders(a, s) /\ Follows(a, s, lock)
  BY <1>2, TrackReleased
<1>4. s = PressAndRelease(r, keysym, code, lock)
  BY DEF PressAndRelease, s, a
<1>. HIDE DEF s
<1>5. KeyStep(r, s) /\ KeepsHolders(r, s)
  BY <1>1, <1>3, KeyStepTwice, KeepsTwice
<1>6. keysym # "Caps_Lock" => Follows(r, s, lock)
  BY <1>1, <1>3, FollowsTwice
<1>7. Wrote(r, s, code, Up)
  BY <1>1, <1>3 DEF Wrote
<1>. QED  BY <1>4, <1>5, <1>6, <1>7

(***************************************************************************)
(* What the list of keys and the detection of AltGr look like between two  *)
(* events: keys that cannot be tracked are not in the list, Control is     *)
(* withheld instead of listed, and macOS has no release of CapsLock.       *)
(***************************************************************************)
Shape(r) ==
  /\ r.list["Unidentified"] = Up
  /\ r.armed => Windows /\ r.list["ControlLeft"] = Up
  /\ Mac => r.list["CapsLock"] = Up

\* A key of the list after a handler was there before, or is that of the
\* event, or the Control key that was withheld.
Listed(r, s, code) ==
  \A c \in Codes : s.list[c] # Up => r.list[c] # Up \/ c = code \/ (c = "ControlLeft" /\ r.armed)

Interrupted(r, s) ==
  /\ ~s.armed
  /\ \A c \in Codes :
       s.list[c] = IF c = "ControlLeft" /\ r.armed THEN "Control_L" ELSE r.list[c]

LEMMA CodeNames ==
  {"Unidentified", "ControlLeft", "CapsLock", "AltRight", "Lang", "MetaLeft", "ShiftLeft",
   "ShiftRight"} \subseteq Codes
BY DEF Codes, PhysicalKeys

LEMMA InterruptFacts ==
  ASSUME NEW r \in InputRecords, Shape(r), NEW lock \in Locks
  PROVE  LET s == InterruptAltGrSequence(r, lock)
         IN  /\ KeyStep(r, s) /\ Interrupted(r, s) /\ Shape(s) /\ KeepsHolders(r, s)
             /\ Follows(r, s, lock)
<1>1. CASE ~r.armed
  <2>1. InterruptAltGrSequence(r, lock) = r
    BY <1>1 DEF InterruptAltGrSequence
  <2>. QED  BY <1>1, <2>1 DEF KeyStep, SamePointer, Follows, KeepsHolders, Interrupted
<1>2. CASE r.armed
  <2>. DEFINE a == [r EXCEPT !.armed = FALSE]
              s == SendKeyEvent(a, "Control_L", "ControlLeft", TRUE, lock)
  <2>1. /\ KeyStep(r, a) /\ ~a.armed /\ a.list = r.list /\ a.down = r.down /\ a.known = r.known
        /\ a.caps = r.caps /\ a.reports = r.reports /\ a.wins = r.wins
        /\ a.viewOnly = r.viewOnly
    BY DEF KeyStep, SamePointer, InputRecords
  <2>. HIDE DEF a
  <2>2. /\ a \in InputRecords /\ a.list["ControlLeft"] \in {Up, "Control_L"}
        /\ "Control_L" \in Keysyms /\ "Control_L" # "Caps_Lock" /\ "ControlLeft" \in Codes
    BY <1>2, <2>1, CodeNames DEF KeyStep, Shape, Keysyms
  <2>3. /\ KeyStep(a, s) /\ Wrote(a, s, "ControlLeft", "Control_L") /\ KeepsHolders(a, s)
        /\ Follows(a, s, lock)
    BY <2>2, TrackPressed
  <2>4. s = InterruptAltGrSequence(r, lock)
    BY <1>2 DEF InterruptAltGrSequence, s, a
  <2>. HIDE DEF s
  <2>5. Follows(r, a, lock) /\ KeepsHolders(r, a)
    BY <2>1 DEF Follows, CapsKnown, KeepsHolders, HeldBy, Holders
  <2>6. KeyStep(r, s) /\ Follows(r, s, lock) /\ KeepsHolders(r, s)
    BY <2>1, <2>3, <2>5, KeyStepTwice, FollowsTwice, KeepsTwice
  <2>7. Interrupted(r, s)
    BY <1>2, <2>1, <2>3 DEF Interrupted, Wrote
  <2>8. Shape(s)
    BY <1>2, <2>7, CodeNames DEF Shape, Interrupted
  <2>. QED  BY <2>4, <2>6, <2>7, <2>8
<1>. QED  BY <1>1, <1>2

(***************************************************************************)
(* A keydown: besides the key of the event only a withheld Control key can *)
(* enter the list, and only a Control key is withheld.  Keys that will get *)
(* no release are released at once.                                        *)
(***************************************************************************)
ArmedBy(s, code) == s.armed => code = "ControlLeft"

FakesRelease(r, s, e, meta) ==
  /\ Mac /\ meta /\ CodeOf(e) # "MetaLeft" => s.list[CodeOf(e)] = Up
  /\ Windows /\ CodeOf(e) = "Lang" /\ GetKeysym(e) \in JpBadKeys /\ r.list["Lang"] = Up =>
       s.list["Lang"] = Up

LEMMA KeyDownFacts ==
  ASSUME NEW r \in InputRecords, Shape(r), NEW e, CodeOf(e) \in Codes, GetKeysym(e) \in Keysyms,
         NEW quick \in BOOLEAN, NEW meta \in BOOLEAN, NEW lock \in Locks
  PROVE  LET s == HandleKeyDown(r, e, quick, meta, lock)
         IN  /\ KeyStep(r, s) /\ Shape(s) /\ KeepsHolders(r, s)
             /\ Listed(r, s, CodeOf(e)) /\ ArmedBy(s, CodeOf(e)) /\ FakesRelease(r, s, e, meta)
             /\ CodeOf(e) # "CapsLock" /\ GetKeysym(e) # "Caps_Lock" => Follows(r, s, lock)
<1>. DEFINE code == CodeOf(e)
            altgr == r.armed /\ code = "AltRight" /\ quick
            r1 == IF altgr THEN [r EXCEPT !.armed = FALSE] ELSE InterruptAltGrSequence(r, lock)
            sym1 == IF altgr THEN "ISO_Level3_Shift" ELSE GetKeysym(e)
            sym2 == IF Mac THEN OnMac(sym1) ELSE sym1
            sym == IF r1.list[code] # Up THEN r1.list[code] ELSE sym2
            s == HandleKeyDown(r, e, quick, meta, lock)
<1>1. /\ KeyStep(r, r1) /\ Shape(r1) /\ ~r1.armed /\ KeepsHolders(r, r1)
      /\ Follows(r, r1, lock) /\ Listed(r, r1, code)
      /\ \A c \in Codes : c # "ControlLeft" => r1.list[c] = r.list[c]
  <2>1. CASE altgr
    <3>. DEFINE a == [r EXCEPT !.armed = FALSE]
    <3>1. /\ KeyStep(r, a) /\ ~a.armed /\ a.list = r.list /\ a.down = r.down
          /\ a.known = r.known /\ a.caps = r.caps /\ a.reports = r.reports
          /\ a.wins = r.wins /\ a.viewOnly = r.viewOnly
      BY DEF KeyStep, SamePointer, InputRecords
    <3>2. r1 = a
      BY <2>1
    <3>. HIDE DEF a, r1
    <3>3. Follows(r, a, lock) /\ KeepsHolders(r, a)
      BY <3>1 DEF Follows, CapsKnown, KeepsHolders, HeldBy, Holders
    <3>4. Shape(a) /\ Listed(r, a, code)
      BY <3>1 DEF Shape, Listed
    <3>. QED  BY <3>1, <3>2, <3>3, <3>4
  <2>2. CASE ~altgr
    <3>1. r1 = InterruptAltGrSequence(r, lock)
      BY <2>2
    <3>. HIDE DEF r1
    <3>2. /\ KeyStep(r, r1) /\ Interrupted(r, r1) /\ Shape(r1) /\ KeepsHolders(r, r1)
          /\ Follows(r, r1, lock)
      BY <3>1, InterruptFacts
    <3>. QED  BY <3>2 DEF Interrupted, Listed
  <2>. QED  BY <2>1, <2>2
<1>2. r1 \in InputRecords /\ code \in Codes /\ r1.list[code] \in Keysyms \cup {Up}
  BY <1>1 DEF KeyStep, InputRecords
<1>3. s = CASE code = "Unidentified" ->
                 IF sym1 = "NoSymbol" THEN r1 ELSE PressAndRelease(r1, sym1, code, lock)
            [] code # "Unidentified" /\ Mac /\ meta /\ code # "MetaLeft" ->
                 PressAndRelease(r1, sym, code, lock)
            [] Mac /\ code = "CapsLock" /\ ~meta ->
                 PressAndRelease(r1, "Caps_Lock", "CapsLock", lock)
            [] Windows /\ code # "Unidentified" /\ sym \in JpBadKeys ->
                 PressAndRelease(r1, sym, code, lock)
            [] Windows /\ sym \notin JpBadKeys /\ code = "ControlLeft" /\ r1.list[code] = Up ->
                 [r1 EXCEPT !.armed = TRUE]
            [] OTHER -> SendKeyEvent(r1, sym, code, TRUE, lock)
  BY DEF HandleKeyDown
<1>4. /\ sym1 \in Keysyms /\ sym \in Keysyms /\ r1.list[code] \in {Up, sym}
      /\ sym1 = "Caps_Lock" => GetKeysym(e) = "Caps_Lock"
      /\ sym = "Caps_Lock" => GetKeysym(e) = "Caps_Lock" \/ r1.list[code] = "Caps_Lock"
      /\ code # "AltRight" /\ r1.list[code] = Up /\ Windows => sym = GetKeysym(e)
  <2>1. "ISO_Level3_Shift" \in Keysyms
    BY DEF Keysyms
  <2>2. sym1 \in Keysyms /\ (sym1 = "Caps_Lock" => GetKeysym(e) = "Caps_Lock")
        /\ (code # "AltRight" => sym1 = GetKeysym(e))
    BY <2>1
  <2>. HIDE DEF sym1
  <2>3. sym2 \in Keysyms /\ (sym2 = "Caps_Lock" => sym1 = "Caps_Lock")
        /\ (Windows => sym2 = sym1)
    BY <2>2 DEF OnMac, Keysyms, Mac, Windows
  <2>. HIDE DEF sym2, r1
  <2>. QED  BY <1>2, <2>2, <2>3
<1>. DEFINE Good(t) == /\ KeyStep(r, t) /\ Shape(t) /\ KeepsHolders(r, t)
                       /\ Listed(r, t, code) /\ ArmedBy(t, code)
                       /\ code # "CapsLock" /\ GetKeysym(e) # "Caps_Lock" => Follows(r, t, lock)
<1>. HIDE DEF r1, sym1, sym2, sym, altgr
<1>5. ASSUME NEW k \in Keysyms, r1.list[code] \in {Up, k},
             k = "Caps_Lock" => GetKeysym(e) = "Caps_Lock" \/ r1.list[code] = "Caps_Lock"
                                                           \/ code = "CapsLock"
      PROVE  LET t == PressAndRelease(r1, k, code, lock) IN Good(t) /\ t.list[code] = Up
  <2>. DEFINE t == PressAndRelease(r1, k, code, lock)
  <2>1. /\ KeyStep(r1, t) /\ Wrote(r1, t, code, Up) /\ KeepsHolders(r1, t)
        /\ k # "Caps_Lock" => Follows(r1, t, lock)
    BY <1>2, <1>5, PressAndReleaseFacts
  <2>. HIDE DEF t
  <2>2. KeyStep(r, t) /\ KeepsHolders(r, t)
    BY <1>1, <2>1, KeyStepTwice, KeepsTwice
  <2>3. Shape(t) /\ ArmedBy(t, code)
    BY <1>1, <2>1, CodeNames DEF Shape, Wrote, ArmedBy
  <2>4. Listed(r, t, code) /\ t.list[code] = Up
    BY <1>1, <1>2, <2>1 DEF Listed, Wrote
  <2>5. ASSUME code # "CapsLock", GetKeysym(e) # "Caps_Lock" PROVE Follows(r, t, lock)
    <3>1. CapsKnown(r) => CapsKnown(r1)
      BY <1>1 DEF Follows
    <3>2. CapsKnown(r) => k # "Caps_Lock"
      BY <1>2, <1>5, <2>5, <3>1 DEF CapsKnown
    <3>3. k # "Caps_Lock" => Follows(r, t, lock)
      BY <1>1, <2>1, FollowsTwice
    <3>. QED  BY <3>2, <3>3 DEF Follows
  <2>. QED  BY <2>2, <2>3, <2>4, <2>5 DEF t
<1>6. Good(r1)
  BY <1>1 DEF ArmedBy
<1>7. ASSUME Windows, code = "ControlLeft", r1.list[code] = Up
      PROVE  Good([r1 EXCEPT !.armed = TRUE])
  <2>. DEFINE t == [r1 EXCEPT !.armed = TRUE]
  <2>1. /\ KeyStep(r1, t) /\ t.list = r1.list /\ t.down = r1.down
        /\ t.known = r1.known /\ t.caps = r1.caps /\ t.reports = r1.reports
        /\ t.wins = r1.wins /\ t.viewOnly = r1.viewOnly
    BY <1>2 DEF KeyStep, SamePointer, InputRecords
  <2>. HIDE DEF t
  <2>2. Follows(r1, t, lock) /\ KeepsHolders(r1, t)
    BY <2>1 DEF Follows, CapsKnown, KeepsHolders, HeldBy, Holders
  <2>3. KeyStep(r, t) /\ KeepsHolders(r, t) /\ Follows(r, t, lock)
    BY <1>1, <2>1, <2>2, KeyStepTwice, KeepsTwice, FollowsTwice
  <2>4. Shape(t) /\ Listed(r, t, code) /\ ArmedBy(t, code)
    BY <1>1, <1>7, <2>1 DEF Shape, Listed, ArmedBy
  <2>. QED  BY <2>3, <2>4 DEF t
<1>8. ASSUME code # "Unidentified", ~(Mac /\ code = "CapsLock")
      PROVE  Good(SendKeyEvent(r1, sym, code, TRUE, lock))
  <2>. DEFINE t == SendKeyEvent(r1, sym, code, TRUE, lock)
  <2>1. /\ KeyStep(r1, t) /\ Wrote(r1, t, code, sym) /\ KeepsHolders(r1, t)
        /\ sym # "Caps_Lock" => Follows(r1, t, lock)
    BY <1>2, <1>4, TrackPressed
  <2>. HIDE DEF t
  <2>2. KeyStep(r, t) /\ KeepsHolders(r, t)
    BY <1>1, <2>1, KeyStepTwice, KeepsTwice
  <2>3. Shape(t) /\ ArmedBy(t, code)
    BY <1>1, <1>8, <2>1, CodeNames DEF Shape, Wrote, ArmedBy
  <2>4. Listed(r, t, code)
    BY <1>1, <1>2, <2>1 DEF Listed, Wrote
  <2>5. ASSUME code # "CapsLock", GetKeysym(e) # "Caps_Lock" PROVE Follows(r, t, lock)
    <3>1. CapsKnown(r) => CapsKnown(r1)
      BY <1>1 DEF Follows
    <3>2. CapsKnown(r) => sym # "Caps_Lock"
      BY <1>2, <1>4, <2>5, <3>1 DEF CapsKnown
    <3>3. sym # "Caps_Lock" => Follows(r, t, lock)
      BY <1>1, <2>1, FollowsTwice
    <3>. QED  BY <3>2, <3>3 DEF Follows
  <2>. QED  BY <2>2, <2>3, <2>4, <2>5 DEF t
<1>9. s = r1 \/ (\E k \in Keysyms : /\ r1.list[code] \in {Up, k}
                                    /\ k = "Caps_Lock" => \/ GetKeysym(e) = "Caps_Lock"
                                                          \/ r1.list[code] = "Caps_Lock"
                                                          \/ code = "CapsLock"
                                    /\ s = PressAndRelease(r1, k, code, lock))
      \/ (Windows /\ code = "ControlLeft" /\ r1.list[code] = Up /\ s = [r1 EXCEPT !.armed = TRUE])
      \/ (code # "Unidentified" /\ ~(Mac /\ code = "CapsLock")
          /\ s = SendKeyEvent(r1, sym, code, TRUE, lock))
  <2>. HIDE DEF s, Good
  <2>1. "Caps_Lock" \in Keysyms /\ r1.list["Unidentified"] = Up
        /\ (Mac => r1.list["CapsLock"] = Up)
    BY <1>1 DEF Keysyms, Shape
  <2>2. CASE code = "Unidentified"
    BY <1>3, <1>4, <2>1, <2>2
  <2>3. CASE code # "Unidentified" /\ Mac /\ meta /\ code # "MetaLeft"
    BY <1>3, <1>4, <2>3 DEF Windows, Mac
  <2>4. CASE Mac /\ code = "CapsLock" /\ ~meta
    <3>1. s = PressAndRelease(r1, "Caps_Lock", code, lock)
      BY <1>3, <2>4 DEF Windows, Mac
    <3>. QED  BY <2>1, <2>4, <3>1
  <2>5. CASE /\ code # "Unidentified" /\ ~(Mac /\ code = "CapsLock")
             /\ ~(Mac /\ meta /\ code # "MetaLeft")
    <3>1. \/ s = PressAndRelease(r1, sym, code, lock)
          \/ Windows /\ code = "ControlLeft" /\ r1.list[code] = Up /\ s = [r1 EXCEPT !.armed = TRUE]
          \/ s = SendKeyEvent(r1, sym, code, TRUE, lock)
      <4>1. CASE Windows /\ sym \in JpBadKeys
        BY <1>3, <2>5, <4>1 DEF Windows, Mac
      <4>2. CASE ~(Windows /\ sym \in JpBadKeys) /\ Windows /\ code = "ControlLeft" /\ r1.list[code] = Up
        BY <1>3, <2>5, <4>2 DEF Windows, Mac
      <4>3. CASE /\ ~(Windows /\ sym \in JpBadKeys)
                 /\ ~(Windows /\ code = "ControlLeft" /\ r1.list[code] = Up)
        BY <1>3, <2>5, <4>3 DEF Windows, Mac
      <4>. QED  BY <4>1, <4>2, <4>3
    <3>. QED  BY <1>4, <2>5, <3>1
  <2>. QED  BY <2>2, <2>3, <2>4, <2>5
<1>10. Good(s)
  <2>. HIDE DEF s, Good
  <2>. QED  BY <1>5, <1>6, <1>7, <1>8, <1>9
<1>11. ASSUME Mac, meta, code # "MetaLeft" PROVE s.list[code] = Up
  <2>. HIDE DEF s
  <2>1. CASE code = "Unidentified"
    BY <1>10, <2>1 DEF Shape
  <2>2. CASE code # "Unidentified"
    <3>1. s = PressAndRelease(r1, sym, code, lock)
      BY <1>3, <1>11, <2>2 DEF Windows, Mac
    <3>. QED  BY <1>4, <1>5, <3>1
  <2>. QED  BY <2>1, <2>2
<1>12. ASSUME Windows, code = "Lang", GetKeysym(e) \in JpBadKeys, r.list["Lang"] = Up
       PROVE  s.list["Lang"] = Up
  <2>. HIDE DEF s
  <2>1. r1.list[code] = Up /\ sym = GetKeysym(e)
    BY <1>1, <1>4, <1>12, CodeNames
  <2>2. s = PressAndRelease(r1, sym, code, lock)
    BY <1>3, <1>12, <2>1 DEF Windows, Mac
  <2>. QED  BY <1>4, <1>5, <1>12, <2>2
<1>13. FakesRelease(r, s, e, meta)
  BY <1>11, <1>12 DEF FakesRelease
<1>. QED  BY <1>10, <1>13

(***************************************************************************)
(* A keyup: the key of the event leaves the list, on Windows the other     *)
(* Shift key with it, and nothing enters but a withheld Control key.       *)
(***************************************************************************)
LEMMA KeyUpFacts ==
  ASSUME NEW r \in InputRecords, Shape(r), NEW e, CodeOf(e) \in Codes
  PROVE  LET s == HandleKeyUp(r, e)
         IN  /\ KeyStep(r, s) /\ Shape(s) /\ KeepsHolders(r, s) /\ Listed(r, s, CodeOf(e))
             /\ ~s.armed /\ s.list[CodeOf(e)] = Up
             /\ Windows /\ CodeOf(e) \in Shifts => \A c \in Shifts : s.list[c] = Up
             /\ CodeOf(e) # "CapsLock" => Follows(r, s, "null")
<1>. DEFINE code == CodeOf(e)
            r1 == InterruptAltGrSequence(r, "null")
            r2 == SendKeyEvent(r1, r1.list[code], code, FALSE, "null")
            r3 == SendKeyEvent(r2, r2.list["ShiftRight"], "ShiftRight", FALSE, "null")
            r4 == SendKeyEvent(r3, r3.list["ShiftLeft"], "ShiftLeft", FALSE, "null")
            p == PressAndRelease(r1, "Caps_Lock", code, "null")
            s == HandleKeyUp(r, e)
            Good(t) == /\ KeyStep(r, t) /\ Shape(t) /\ KeepsHolders(r, t) /\ Listed(r, t, code)
                       /\ ~t.armed /\ t.list[code] = Up
<1>1. "null" \in Locks /\ "Caps_Lock" \in Keysyms /\ {"ShiftLeft", "ShiftRight"} \subseteq Codes
      /\ "ControlLeft" \in Codes
  BY CodeNames DEF Locks, Keysyms
<1>2. /\ KeyStep(r, r1) /\ Interrupted(r, r1) /\ Shape(r1) /\ KeepsHolders(r, r1)
      /\ Follows(r, r1, "null")
  BY <1>1, InterruptFacts
<1>3. s = IF Mac /\ code = "CapsLock" THEN p
          ELSE IF Windows /\ code \in {"ShiftLeft", "ShiftRight"} THEN r4 ELSE r2
  BY DEF HandleKeyUp
<1>4. ASSUME NEW a \in InputRecords, NEW c \in Codes
      PROVE  LET b == SendKeyEvent(a, a.list[c], c, FALSE, "null")
             IN  /\ KeyStep(a, b) /\ Wrote(a, b, c, Up) /\ KeepsHolders(a, b)
                 /\ Follows(a, b, "null")
  <2>1. a.list[c] \in Keysyms \cup {Up}
    BY <1>4 DEF InputRecords
  <2>. QED  BY <1>1, <1>4, <2>1, TrackReleased
<1>. HIDE DEF r1
<1>5. r1 \in InputRecords /\ ~r1.armed
  BY <1>2 DEF KeyStep, Interrupted
<1>6. KeyStep(r1, r2) /\ Wrote(r1, r2, code, Up) /\ KeepsHolders(r1, r2) /\ Follows(r1, r2, "null")
  BY <1>4, <1>5
<1>. HIDE DEF r2
<1>7. /\ Good(r2) /\ Follows(r, r2, "null")
  <2>1. KeyStep(r, r2) /\ KeepsHolders(r, r2) /\ Follows(r, r2, "null")
    BY <1>2, <1>6, KeyStepTwice, KeepsTwice, FollowsTwice
  <2>2. Shape(r2) /\ ~r2.armed /\ r2.list[code] = Up
    BY <1>2, <1>5, <1>6, CodeNames DEF Shape, Wrote
  <2>3. Listed(r, r2, code)
    BY <1>2, <1>6 DEF Listed, Wrote, Interrupted
  <2>. QED  BY <2>1, <2>2, <2>3
<1>8. /\ Good(r4) /\ Follows(r, r4, "null")
      /\ r4.list["ShiftLeft"] = Up /\ r4.list["ShiftRight"] = Up
  <2>1. r2 \in InputRecords
    BY <1>7 DEF KeyStep
  <2>2. /\ KeyStep(r2, r3) /\ Wrote(r2, r3, "ShiftRight", Up) /\ KeepsHolders(r2, r3)
        /\ Follows(r2, r3, "null")
    BY <1>1, <1>4, <2>1
  <2>. HIDE DEF r3
  <2>3. r3 \in InputRecords
    BY <2>2 DEF KeyStep
  <2>4. /\ KeyStep(r3, r4) /\ Wrote(r3, r4, "ShiftLeft", Up) /\ KeepsHolders(r3, r4)
        /\ Follows(r3, r4, "null")
    BY <1>1, <1>4, <2>3
  <2>. HIDE DEF r4
  <2>5. KeyStep(r2, r4) /\ KeepsHolders(r2, r4) /\ Follows(r2, r4, "null")
    BY <2>2, <2>4, KeyStepTwice, KeepsTwice, FollowsTwice
  <2>6. KeyStep(r, r4) /\ KeepsHolders(r, r4) /\ Follows(r, r4, "null")
    BY <1>7, <2>5, KeyStepTwice, KeepsTwice, FollowsTwice
  <2>7. Shape(r4) /\ ~r4.armed /\ r4.list[code] = Up
        /\ r4.list["ShiftLeft"] = Up /\ r4.list["ShiftRight"] = Up
    BY <1>1, <1>7, <2>2, <2>4, CodeNames DEF Shape, Wrote
  <2>8. Listed(r, r4, code)
    BY <1>7, <2>2, <2>4 DEF Listed, Wrote
  <2>. QED  BY <2>6, <2>7, <2>8
<1>9. ASSUME Mac, code = "CapsLock" PROVE Good(p)
  <2>1. r1.list[code] = Up
    BY <1>2, <1>9 DEF Shape
  <2>2. KeyStep(r1, p) /\ Wrote(r1, p, code, Up) /\ KeepsHolders(r1, p)
    BY <1>1, <1>5, <2>1, PressAndReleaseFacts
  <2>. HIDE DEF p
  <2>3. KeyStep(r, p) /\ KeepsHolders(r, p)
    BY <1>2, <2>2, KeyStepTwice, KeepsTwice
  <2>4. Shape(p) /\ ~p.armed /\ p.list[code] = Up
    BY <1>2, <1>5, <2>2, CodeNames DEF Shape, Wrote
  <2>5. Listed(r, p, code)
    BY <1>2, <2>2 DEF Listed, Wrote, Interrupted
  <2>. QED  BY <2>3, <2>4, <2>5
<1>. HIDE DEF s, r4, p, Good
<1>10. Good(s)
  BY <1>3, <1>7, <1>8, <1>9
<1>11. Windows /\ code \in Shifts => \A c \in Shifts : s.list[c] = Up
  BY <1>3, <1>8 DEF Shifts, Windows, Mac
<1>12. code # "CapsLock" => Follows(r, s, "null")
  BY <1>3, <1>7, <1>8
<1>. QED  BY <1>10, <1>11, <1>12 DEF Good, s

\* Keyboard._allKeysUp: nothing stays in the list or is withheld.
AllUp(s) == ~s.armed /\ \A c \in Codes : s.list[c] = Up

LEMMA AllKeysUpFacts ==
  ASSUME NEW r \in InputRecords, Shape(r)
  PROVE  LET s == AllKeysUp(r)
         IN  /\ KeyStep(r, s) /\ AllUp(s) /\ Shape(s) /\ KeepsHolders(r, s)
             /\ Follows(r, s, "null")
<1>. DEFINE r1 == InterruptAltGrSequence(r, "null")
            ids == {KeyId(r1.list[c], c) : c \in {k \in Codes : r1.list[k] # Up}}
            s == [r1 EXCEPT !.list = [c \in Codes |-> Up],
                            !.down = IF r1.viewOnly THEN @ ELSE @ \ ids]
<1>1. /\ KeyStep(r, r1) /\ Interrupted(r, r1) /\ KeepsHolders(r, r1) /\ Follows(r, r1, "null")
  BY InterruptFacts DEF Locks
<1>2. s = AllKeysUp(r)
  BY DEF AllKeysUp
<1>. HIDE DEF r1
<1>3. /\ KeyStep(r1, s) /\ s.armed = r1.armed /\ s.known = r1.known /\ s.caps = r1.caps
      /\ s.reports = r1.reports /\ s.wins = r1.wins /\ s.viewOnly = r1.viewOnly
      /\ s.down = (IF r1.viewOnly THEN r1.down ELSE r1.down \ ids)
      /\ \A c \in Codes : s.list[c] = Up
  BY <1>1 DEF KeyStep, SamePointer, InputRecords
<1>. HIDE DEF s
<1>4. KeyStep(r, s)
  BY <1>1, <1>3, KeyStepTwice
<1>5. AllUp(s) /\ Shape(s)
  BY <1>1, <1>3, CodeNames DEF AllUp, Shape, Interrupted
<1>6. Follows(r1, s, "null")
  BY <1>3 DEF Follows, CapsKnown, Up
<1>7. ASSUME NEW l, HeldBy(r1, l) PROVE HeldBy(s, l)
  <2>1. Holders(r1) = ids \cup (IF s.wins > 0 THEN {"Super_L"} ELSE {})
    BY <1>3 DEF Holders
  <2>2. (IF s.wins > 0 THEN {"Super_L"} ELSE {}) \subseteq Holders(s)
    BY DEF Holders
  <2>. HIDE DEF ids
  <2>3. s.down \subseteq Holders(s) \cup l
    BY <1>3, <1>7, <2>1, <2>2 DEF HeldBy
  <2>. QED  BY <1>3, <1>7, <2>3 DEF HeldBy
<1>8. KeepsHolders(r, s) /\ Follows(r, s, "null")
  <2>1. KeepsHolders(r1, s)
    BY <1>7 DEF KeepsHolders
  <2>. QED  BY <1>1, <1>6, <2>1, KeepsTwice, FollowsTwice
<1>. QED  BY <1>2, <1>4, <1>5, <1>8

(***************************************************************************)
(* The events of a key: they name it, by a code of its own or as a key of  *)
(* a virtual keyboard, and only CapsLock's stand for the lock.             *)
(***************************************************************************)
CodeFor(k) == IF setup.reporting = "legacy" /\ k = "KeyA" THEN "PlatformA" ELSE k

Named == setup.reporting \in {"modern", "legacy"}

EventOf(e, c) ==
  /\ CodeOf(e) = IF Named THEN CodeFor(c) ELSE "Unidentified"
  /\ CodeOf(e) \in Codes /\ GetKeysym(e) \in Keysyms
  /\ CodeOf(e) = "CapsLock" \/ GetKeysym(e) = "Caps_Lock" => c = "CapsLock"
  /\ Windows /\ c = "Lang" /\ setup.reporting # "legacy" => GetKeysym(e) \in JpBadKeys

LEMMA EventFacts ==
  ASSUME NEW c \in PhysicalKeys, NEW e \in EventsOf(c)
  PROVE  EventOf(e, c)
<1>. USE DEF Codes, Keysyms, JpBadKeys, PhysicalKeys
<1>1. CASE setup.reporting = "modern"
  <2>1. PICK k \in DomKeys(c) : e = [code |-> c, vkey |-> "", numbered |-> TRUE, key |-> k,
                                     location |-> Location(c)]
    BY <1>1 DEF EventsOf
  <2>2. e.code = c /\ e.key = k /\ e.location = Location(c) /\ c # ""
    BY <2>1
  <2>3. CodeOf(e) = c
    BY <2>2 DEF CodeOf, GetKeycode
  <2>4. /\ k \in {"Shift", "Control", "Alt", "AltGraph", "Meta", "CapsLock", "Zenkaku", "Hankaku",
                  "a", "A"}
        /\ k = "CapsLock" => c = "CapsLock"
        /\ c = "Lang" => k \in {"Zenkaku", "Hankaku"}
    BY DEF DomKeys
  <2>5. GetKey(e) = k
    BY <2>2, <2>4 DEF GetKey
  <2>6. /\ GetKeysym(e) \in Keysyms
        /\ GetKeysym(e) = "Caps_Lock" => c = "CapsLock"
        /\ Windows /\ c = "Lang" => GetKeysym(e) \in JpBadKeys
    BY <2>4, <2>5 DEF GetKeysym
  <2>. QED  BY <1>1, <2>3, <2>6 DEF EventOf, Named, CodeFor
<1>2. CASE setup.reporting = "legacy"
  <2>1. /\ e.code = "" /\ e.vkey = VKey(c) /\ e.numbered /\ e.key = ""
        /\ e.location = Location(c)
    <3>. DEFINE x == [code |-> "", vkey |-> VKey(c), numbered |-> TRUE, key |-> "",
                      location |-> Location(c)]
    <3>1. x.code = "" /\ x.vkey = VKey(c) /\ x.numbered /\ x.key = "" /\ x.location = Location(c)
      OBVIOUS
    <3>2. EventsOf(c) = {x}
      BY <1>2 DEF EventsOf
    <3>. HIDE DEF x
    <3>3. e = x
      BY <3>2
    <3>. QED  BY <3>1, <3>3
  <2>2. DOMAIN RightOf = {"ShiftLeft", "ControlLeft", "AltLeft"}
    BY DEF RightOf
  <2>3. RightOf["ShiftLeft"] = "ShiftRight" /\ RightOf["AltLeft"] = "AltRight"
    BY DEF RightOf
  <2>4. GetKeycode(e) = IF c = "KeyA" THEN "Unidentified" ELSE c
    <3>1. CASE c = "ShiftLeft" \/ c = "ShiftRight"
      <4>1. e.vkey = "ShiftLeft" /\ e.vkey \in DOMAIN RightOf
        BY <2>1, <2>2, <3>1 DEF VKey
      <4>2. e.location = IF c = "ShiftRight" THEN 2 ELSE 1
        BY <2>1, <3>1 DEF Location
      <4>3. e.code = ""
        BY <2>1
      <4>4. GetKeycode(e) = IF e.location = 2 THEN RightOf["ShiftLeft"] ELSE "ShiftLeft"
        BY <4>1, <4>3 DEF GetKeycode
      <4>. QED  BY <2>3, <3>1, <4>2, <4>4
    <3>2. CASE c = "AltRight"
      BY <2>1, <2>2, <2>3, <3>2 DEF GetKeycode, VKey, Location
    <3>3. CASE c = "KeyA"
      BY <2>1, <3>3 DEF GetKeycode, VKey
    <3>4. CASE c = "ControlLeft" \/ c = "MetaLeft" \/ c = "CapsLock" \/ c = "Lang"
      <4>1. e.vkey = c
        <5>1. c # "ShiftLeft" /\ c # "ShiftRight" /\ c # "AltRight" /\ c # "KeyA"
          BY <3>4
        <5>2. c \notin {"ShiftLeft", "ShiftRight"}
          BY <5>1
        <5>3. VKey(c) = c
          BY <5>1, <5>2, Zenon DEF VKey
        <5>. QED  BY <2>1, <5>3
      <4>2. e.location # 2 /\ c # ""
        <5>1. c # "" /\ c \notin {"ShiftRight", "AltRight"}
          BY <3>4
        <5>2. Location(c) \in {0, 1}
          BY <5>1 DEF Location
        <5>3. e.location = Location(c)
          BY <2>1
        <5>4. e.location # 2
          BY <5>2, <5>3
        <5>. QED  BY <5>1, <5>4
      <4>3. e.code = ""
        BY <2>1
      <4>. QED  BY <3>4, <4>1, <4>2, <4>3 DEF GetKeycode
    <3>. QED  BY <3>1, <3>2, <3>3, <3>4
  <2>5. CodeOf(e) = IF c = "KeyA" THEN "PlatformA" ELSE c
    BY <2>1, <2>4 DEF CodeOf
  <2>6. DOMAIN FixedKeys = {"ShiftLeft", "ShiftRight", "ControlLeft", "AltRight", "MetaLeft",
                            "CapsLock"}
    BY DEF FixedKeys
  <2>7. \A k \in DOMAIN FixedKeys :
           /\ FixedKeys[k] \in {"Shift", "Control", "Alt", "Meta", "CapsLock"}
           /\ FixedKeys[k] = "CapsLock" => k = "CapsLock"
    BY DEF FixedKeys
  <2>8. /\ GetKey(e) \in {"Shift", "Control", "Alt", "Meta", "CapsLock", "Unidentified"}
        /\ GetKey(e) = "CapsLock" => c = "CapsLock"
    BY <2>1, <2>4, <2>6, <2>7 DEF GetKey
  <2>9. GetKeysym(e) \in Keysyms /\ (GetKeysym(e) = "Caps_Lock" => c = "CapsLock")
    BY <2>8 DEF GetKeysym
  <2>. QED  BY <1>2, <2>5, <2>9 DEF EventOf, Named, CodeFor
<1>3. CASE ~Named
  <2>1. PICK k \in DomKeys(c) : e = [code |-> "", vkey |-> "", numbered |-> FALSE, key |-> k,
                                     location |-> 0]
    BY <1>3 DEF EventsOf, Named
  <2>2. e.code = "" /\ e.vkey = "" /\ ~e.numbered /\ e.key = k
    BY <2>1
  <2>3. CodeOf(e) = "Unidentified"
    BY <2>2 DEF CodeOf, GetKeycode
  <2>4. /\ k \in {"Shift", "Control", "Alt", "AltGraph", "Meta", "CapsLock", "Zenkaku", "Hankaku",
                  "a", "A"}
        /\ k = "CapsLock" => c = "CapsLock"
        /\ c = "Lang" => k \in {"Zenkaku", "Hankaku"}
    BY DEF DomKeys
  <2>5. GetKey(e) = k
    BY <2>2, <2>4 DEF GetKey
  <2>6. /\ GetKeysym(e) \in Keysyms
        /\ GetKeysym(e) = "Caps_Lock" => c = "CapsLock"
        /\ Windows /\ c = "Lang" => GetKeysym(e) \in JpBadKeys
    BY <2>4, <2>5 DEF GetKeysym
  <2>. QED  BY <1>3, <2>3, <2>6 DEF EventOf
<1>. QED  BY <1>1, <1>2, <1>3 DEF Named

\* The fake Control key of Windows.
LEMMA FakeControlFacts == EventOf(FakeControl, "ControlLeft")
<1>1. "Control" \in DomKeys("ControlLeft")
  BY DEF DomKeys
<1>2. EventsOf("ControlLeft") # {}
  BY <1>1 DEF EventsOf
<1>3. FakeControl \in EventsOf("ControlLeft")
  BY <1>2 DEF FakeControl
<1>. QED  BY <1>3, EventFacts DEF PhysicalKeys

-----------------------------------------------------------------------------
(***************************************************************************)
(* The pointer.  What the kiosk holds is the button mask, unless the last  *)
(* message was dropped; a move is sent or waits for the timer.             *)
(***************************************************************************)
Synced(r) == r.muted \/ r.buttons = r.mask

PointerStep(r, s) == s \in InputRecords /\ SameKeys(r, s)

PointerButton(r, s, pos, mask) ==
  /\ PointerStep(r, s) /\ s.mask = mask /\ Synced(s)
  /\ ~s.timer /\ (s.muted \/ s.at = pos)

PointerMove(r, s, pos) ==
  /\ PointerStep(r, s) /\ s.mask = r.mask /\ (Synced(r) => Synced(s))
  /\ IF s.timer THEN s.pos = pos ELSE s.muted \/ s.at = pos

LEMMA PointerStepTwice ==
  ASSUME NEW r, NEW s, NEW t, PointerStep(r, s), PointerStep(s, t)
  PROVE  PointerStep(r, t)
BY DEF PointerStep, SameKeys

LEMMA SendMouseFacts ==
  ASSUME NEW r \in InputRecords, NEW pos \in 0 .. 2, NEW mask \in SUBSET Buttons
  PROVE  LET s == SendMouse(r, pos, mask)
         IN  /\ PointerStep(r, s) /\ s.mask = r.mask /\ s.timer = r.timer /\ s.pos = r.pos
             /\ s.muted \/ (s.buttons = mask /\ s.at = pos)
BY DEF SendMouse, PointerStep, SameKeys, InputRecords

LEMMA ButtonFacts ==
  ASSUME NEW r \in InputRecords, NEW pos \in 0 .. 2, NEW mask \in SUBSET Buttons
  PROVE  PointerButton(r, HandleMouseButton(r, pos, mask), pos, mask)
<1>. DEFINE a == FlushMouseMoveTimer(r, pos)
            b == [a EXCEPT !.mask = mask]
            s == SendMouse(b, pos, mask)
<1>1. PointerStep(r, a) /\ ~a.timer
  <2>1. CASE r.timer
    <3>. DEFINE x == [r EXCEPT !.timer = FALSE]
    <3>1. PointerStep(r, x) /\ ~x.timer /\ x.mask = r.mask
      BY DEF PointerStep, SameKeys, InputRecords
    <3>2. a = SendMouse(x, pos, r.mask) /\ r.mask \in SUBSET Buttons
      BY <2>1 DEF FlushMouseMoveTimer, InputRecords
    <3>. HIDE DEF x, a
    <3>3. x \in InputRecords
      BY <3>1 DEF PointerStep
    <3>4. PointerStep(x, a) /\ a.timer = x.timer
      BY <3>2, <3>3, SendMouseFacts
    <3>. QED  BY <3>1, <3>4, PointerStepTwice
  <2>2. CASE ~r.timer
    BY <2>2 DEF FlushMouseMoveTimer, PointerStep, SameKeys
  <2>. QED  BY <2>1, <2>2
<1>2. s = HandleMouseButton(r, pos, mask)
  BY DEF HandleMouseButton
<1>. HIDE DEF a
<1>3. PointerStep(a, b) /\ ~b.timer /\ b.mask = mask
  BY <1>1 DEF PointerStep, SameKeys, InputRecords
<1>. HIDE DEF b
<1>4. b \in InputRecords
  BY <1>3 DEF PointerStep
<1>5. PointerStep(b, s) /\ s.mask = mask /\ ~s.timer /\ (s.muted \/ (s.buttons = mask /\ s.at = pos))
  BY <1>3, <1>4, SendMouseFacts
<1>. HIDE DEF s
<1>6. PointerStep(r, s)
  BY <1>1, <1>3, <1>5, PointerStepTwice
<1>. QED  BY <1>2, <1>5, <1>6 DEF PointerButton, Synced

LEMMA ClickFacts ==
  ASSUME NEW r \in InputRecords, NEW pos \in 0 .. 2, NEW button \in Buttons,
         NEW others \in SUBSET Buttons
  PROVE  PointerButton(r, Click(r, pos, button, others), pos, others)
<1>. DEFINE a == HandleMouseButton(r, pos, others \cup {button})
            s == HandleMouseButton(a, pos, others)
<1>1. PointerStep(r, a)
  BY ButtonFacts DEF PointerButton
<1>2. s = Click(r, pos, button, others)
  BY DEF Click
<1>. HIDE DEF a
<1>3. PointerButton(a, s, pos, others)
  BY <1>1, ButtonFacts DEF PointerStep
<1>. HIDE DEF s
<1>. QED  BY <1>1, <1>2, <1>3, PointerStepTwice DEF PointerButton

LEMMA MoveFacts ==
  ASSUME NEW r \in InputRecords, NEW pos \in 0 .. 2
  PROVE  PointerMove(r, HandleMouseMove(r, pos), pos)
<1>. DEFINE s == HandleMouseMove(r, pos)
<1>1. CASE r.timer
  <2>1. s = [r EXCEPT !.pos = pos]
    BY <1>1 DEF HandleMouseMove
  <2>. QED  BY <1>1, <2>1 DEF PointerMove, PointerStep, SameKeys, InputRecords, Synced
<1>2. CASE ~r.timer /\ r.cooling
  <2>1. s = [r EXCEPT !.pos = pos, !.timer = TRUE]
    BY <1>2 DEF HandleMouseMove
  <2>. QED  BY ZenonT(40), <2>1 DEF PointerMove, PointerStep, SameKeys, InputRecords, Synced
<1>3. CASE ~r.timer /\ ~r.cooling
  <2>. DEFINE x == [r EXCEPT !.pos = pos]
              y == SendMouse(x, pos, r.mask)
  <2>1. PointerStep(r, x) /\ ~x.timer /\ x.mask = r.mask /\ r.mask \in SUBSET Buttons
    BY <1>3 DEF PointerStep, SameKeys, InputRecords
  <2>2. s = [y EXCEPT !.cooling = TRUE]
    BY <1>3 DEF HandleMouseMove
  <2>. HIDE DEF x
  <2>3. PointerStep(x, y) /\ y.mask = r.mask /\ ~y.timer /\ (y.muted \/ (y.buttons = r.mask /\ y.at = pos))
    BY <2>1, SendMouseFacts DEF PointerStep
  <2>. HIDE DEF y, s
  <2>4. PointerStep(r, y)
    BY <2>1, <2>3, PointerStepTwice
  <2>5. /\ PointerStep(y, s) /\ s.mask = y.mask /\ s.timer = y.timer /\ s.muted = y.muted
        /\ s.buttons = y.buttons /\ s.at = y.at
    BY <2>2, <2>3 DEF PointerStep, SameKeys, InputRecords
  <2>6. PointerStep(r, s)
    BY <2>4, <2>5, PointerStepTwice
  <2>. QED  BY <2>3, <2>5, <2>6 DEF PointerMove, Synced, s
<1>. QED  BY <1>1, <1>2, <1>3

\* The wheel: half a step, or a click of a wheel button among those held.
WheelStep(r, s, pos, held, delta) ==
  \/ /\ PointerStep(r, s) /\ s.wheel = r.wheel + delta
     /\ s.mask = r.mask /\ s.pos = r.pos /\ s.timer = r.timer
     /\ s.buttons = r.buttons /\ s.at = r.at /\ s.muted = r.muted
  \/ PointerButton(r, s, pos, held) /\ s.wheel # r.wheel + delta

LEMMA WheelFacts ==
  ASSUME NEW r \in InputRecords, NEW pos \in 0 .. 2, NEW held \in SUBSET Buttons,
         NEW delta \in {-1, 1}
  PROVE  WheelStep(r, HandleWheel(r, pos, held, delta), pos, held, delta)
<1>. DEFINE s == HandleWheel(r, pos, held, delta)
<1>1. "wheelUp" \in Buttons /\ "wheelDown" \in Buttons /\ r.wheel \in -1 .. 1
  BY DEF Buttons, InputRecords
<1>2. ASSUME NEW button \in Buttons, s = [Click(r, pos, button, held) EXCEPT !.wheel = 0],
             r.wheel + delta # 0
      PROVE  PointerButton(r, s, pos, held) /\ s.wheel # r.wheel + delta
  <2>. DEFINE a == Click(r, pos, button, held)
  <2>1. PointerButton(r, a, pos, held)
    BY ClickFacts
  <2>. HIDE DEF a
  <2>2. s = [a EXCEPT !.wheel = 0]
    BY <1>2 DEF a
  <2>. HIDE DEF s
  <2>3. /\ PointerStep(a, s) /\ s.mask = a.mask /\ s.timer = a.timer /\ s.muted = a.muted
        /\ s.buttons = a.buttons /\ s.at = a.at /\ s.wheel = 0
    BY <2>1, <2>2 DEF PointerButton, PointerStep, SameKeys, InputRecords
  <2>4. PointerStep(r, s)
    BY <2>1, <2>3, PointerStepTwice DEF PointerButton
  <2>. QED  BY <1>2, <2>1, <2>3, <2>4 DEF PointerButton, Synced
<1>3. CASE r.wheel + delta = -2
  <2>1. s = [Click(r, pos, "wheelUp", held) EXCEPT !.wheel = 0]
    BY <1>3 DEF HandleWheel
  <2>. QED  BY <1>1, <1>2, <1>3, <2>1 DEF WheelStep
<1>4. CASE r.wheel + delta = 2
  <2>1. s = [Click(r, pos, "wheelDown", held) EXCEPT !.wheel = 0]
    BY <1>4 DEF HandleWheel
  <2>. QED  BY <1>1, <1>2, <1>4, <2>1 DEF WheelStep
<1>5. CASE r.wheel + delta # -2 /\ r.wheel + delta # 2
  <2>1. s = [r EXCEPT !.wheel = @ + delta]
    BY <1>5 DEF HandleWheel
  <2>2. r.wheel + delta \in -1 .. 1
    BY <1>1, <1>5
  <2>3. /\ PointerStep(r, s) /\ s.wheel = r.wheel + delta
        /\ s.mask = r.mask /\ s.pos = r.pos /\ s.timer = r.timer
        /\ s.buttons = r.buttons /\ s.at = r.at /\ s.muted = r.muted
    BY <2>1, <2>2 DEF PointerStep, SameKeys, InputRecords
  <2>. QED  BY <2>3 DEF WheelStep
<1>. QED  BY <1>3, <1>4, <1>5

-----------------------------------------------------------------------------
(***************************************************************************)
(* What a gesture does to the RFB object: the keys stay as they are but    *)
(* for the Control key of a pinch, and a button is held only by a drag or  *)
(* a long press.                                                           *)
(***************************************************************************)
TouchStep(r, s) ==
  /\ s \in InputRecords
  /\ s.viewOnly = r.viewOnly /\ s.list = r.list /\ s.armed = r.armed /\ s.wins = r.wins
  /\ s.down \subseteq r.down
  /\ Follows(r, s, "undefined")
  /\ Synced(r) => Synced(s)

\* The step of a gesture of that kind.
GestureStep(r, s, kind) ==
  /\ TouchStep(r, s)
  /\ s.mask # {} => r.mask # {} \/ kind \in Holding
  /\ kind # "pinch" => s.caps = r.caps

LEMMA TouchStepTwice ==
  ASSUME NEW r, NEW s, NEW t, TouchStep(r, s), TouchStep(s, t)
  PROVE  TouchStep(r, t)
<1>1. Follows(r, t, "undefined")
  BY FollowsTwice DEF TouchStep
<1>. QED  BY <1>1 DEF TouchStep

LEMMA GestureStepTwice ==
  ASSUME NEW r, NEW s, NEW t, NEW kind, GestureStep(r, s, kind), GestureStep(s, t, kind)
  PROVE  GestureStep(r, t, kind)
<1>1. TouchStep(r, t)
  BY TouchStepTwice DEF GestureStep
<1>. QED  BY <1>1 DEF GestureStep

LEMMA PointerIsTouch ==
  ASSUME NEW r, NEW s, PointerStep(r, s), Synced(r) => Synced(s)
  PROVE  TouchStep(r, s) /\ s.caps = r.caps
<1>1. Follows(r, s, "undefined")
  BY DEF PointerStep, SameKeys, Follows, CapsKnown
<1>. QED  BY <1>1 DEF TouchStep, PointerStep, SameKeys

LEMMA PointerGestures ==
  ASSUME NEW r, NEW s, NEW pos, NEW mask, NEW kind
  PROVE  /\ PointerMove(r, s, pos) => GestureStep(r, s, kind)
         /\ PointerButton(r, s, pos, {}) => GestureStep(r, s, kind) /\ s.mask = {}
         /\ PointerButton(r, s, pos, mask) /\ kind \in Holding => GestureStep(r, s, kind)
BY PointerIsTouch DEF PointerMove, PointerButton, GestureStep

LEMMA MoveThenButtonsFacts ==
  ASSUME NEW r \in InputRecords, NEW pos \in 0 .. 2, NEW mask \in SUBSET Buttons
  PROVE  PointerButton(r, MoveThenButtons(r, pos, mask), pos, mask)
<1>. DEFINE a == HandleMouseMove(r, pos)
<1>1. PointerStep(r, a)
  BY MoveFacts DEF PointerMove
<1>2. MoveThenButtons(r, pos, mask) = HandleMouseButton(a, pos, mask)
  BY DEF MoveThenButtons
<1>. HIDE DEF a
<1>3. PointerButton(a, MoveThenButtons(r, pos, mask), pos, mask)
  BY <1>1, <1>2, ButtonFacts DEF PointerStep
<1>. QED  BY <1>1, <1>3, PointerStepTwice DEF PointerButton

LEMMA TapFacts ==
  ASSUME NEW r \in InputRecords, NEW pos \in 0 .. 2, NEW button \in Buttons
  PROVE  PointerButton(r, HandleTapEvent(r, pos, button), pos, {})
<1>. DEFINE a == HandleMouseMove(r, pos)
<1>1. PointerStep(r, a)
  BY MoveFacts DEF PointerMove
<1>2. HandleTapEvent(r, pos, button) = Click(a, pos, button, {})
  BY DEF HandleTapEvent
<1>. HIDE DEF a
<1>3. PointerButton(a, HandleTapEvent(r, pos, button), pos, {})
  BY <1>1, <1>2, ClickFacts DEF PointerStep
<1>. QED  BY <1>1, <1>3, PointerStepTwice DEF PointerButton

LEMMA ScrollFacts ==
  ASSUME NEW r \in InputRecords, NEW pos \in 0 .. 2, NEW scroll \in Scrolls, NEW kind
  PROVE  LET s == Scroll(r, pos, scroll)
         IN  GestureStep(r, s, kind) /\ s.caps = r.caps
<1>1. CASE scroll = "none"
  BY <1>1 DEF Scroll, GestureStep, TouchStep, Follows
<1>2. CASE scroll # "none"
  <2>1. PointerButton(r, Scroll(r, pos, scroll), pos, {})
    BY <1>2, ClickFacts DEF Scroll, Scrolls, Buttons
  <2>. QED  BY <2>1, PointerGestures, PointerIsTouch DEF PointerButton, PointerStep, SameKeys
<1>. QED  BY <1>1, <1>2

\* Control is pressed for a click of the wheel and released at once.
LEMMA PinchFacts ==
  ASSUME NEW r \in InputRecords, NEW pos \in 0 .. 2, NEW scroll \in Scrolls
  PROVE  GestureStep(r, PinchMoves(r, pos, scroll), "pinch")
<1>. DEFINE r1 == IF scroll = "none" THEN r
                  ELSE HandleKeyEvent(r, "Control_L", "ControlLeft", TRUE, "undefined")
            a == Scroll(r1, pos, scroll)
            s == HandleKeyEvent(a, "Control_L", "ControlLeft", FALSE, "undefined")
            k == KeyId("Control_L", "ControlLeft")
<1>1. "Control_L" \in Keysyms /\ "ControlLeft" \in SentCodes /\ "undefined" \in Locks
      /\ "Control_L" # "Caps_Lock"
  BY CodeNames, CodesAreSent DEF Keysyms, Locks
<1>2. k # "NoSymbol"
  BY DEF KeyId
<1>3. s = PinchMoves(r, pos, scroll)
  BY DEF PinchMoves
<1>. HIDE DEF k
<1>4. /\ KeyStep(r, r1) /\ r1.list = r.list /\ r1.armed = r.armed
      /\ (r.viewOnly => r1.down = r.down)
      /\ r1.down \subseteq r.down \cup {k}
      /\ Follows(r, r1, "undefined")
  <2>1. CASE scroll = "none"
    BY <2>1 DEF KeyStep, SamePointer, Follows
  <2>2. CASE scroll # "none"
    BY <1>1, <1>2, <2>2, EventPressed DEF k
  <2>. QED  BY <2>1, <2>2
<1>. HIDE DEF r1
<1>5. r1 \in InputRecords /\ r1.viewOnly = r.viewOnly /\ r1.wins = r.wins /\ r1.mask = r.mask
      /\ (Synced(r) => Synced(r1))
  BY <1>4 DEF KeyStep, SamePointer, Synced
<1>6. GestureStep(r1, a, "pinch")
  BY <1>5, ScrollFacts
<1>. HIDE DEF a
<1>7. a \in InputRecords /\ TouchStep(r1, a)
  BY <1>6 DEF GestureStep, TouchStep
<1>8. /\ KeyStep(a, s) /\ s.list = a.list /\ s.armed = a.armed
      /\ s.down = (IF a.viewOnly \/ k = "NoSymbol" THEN a.down ELSE a.down \ {k})
      /\ Follows(a, s, "undefined")
  <2>1. /\ "Control_L" \in Keysyms /\ "ControlLeft" \in SentCodes /\ "undefined" \in Locks
        /\ a \in InputRecords
    BY <1>1, <1>7
  <2>2. KeyStep(a, s) /\ Freed(a, s, k) /\ Follows(a, s, "undefined")
    BY <2>1, EventReleased DEF k
  <2>. QED  BY <2>2 DEF Freed
<1>. HIDE DEF s
<1>9. Follows(r, s, "undefined")
  <2>1. Follows(r1, a, "undefined")
    BY <1>7 DEF TouchStep
  <2>. QED  BY <1>4, <1>8, <2>1, FollowsTwice
<1>10. s.down \subseteq r.down
  BY <1>2, <1>4, <1>5, <1>7, <1>8 DEF TouchStep
<1>11. TouchStep(r, s)
  BY <1>4, <1>5, <1>7, <1>8, <1>9, <1>10 DEF TouchStep, KeyStep, SamePointer, Synced
<1>12. s.mask = a.mask
  BY <1>8 DEF KeyStep, SamePointer
<1>. QED  BY <1>3, <1>5, <1>6, <1>11, <1>12 DEF GestureStep

LEMMA StartFacts ==
  ASSUME NEW r \in InputRecords, NEW kind \in Kinds, NEW pos \in 0 .. 2
  PROVE  LET s == GestureStart(r, kind, pos)
         IN  GestureStep(r, s, kind) /\ s.caps = r.caps /\ (kind \in Taps => s.mask = {})
<1>. DEFINE s == GestureStart(r, kind, pos)
<1>. USE DEF Buttons, Holding, Taps
<1>1. CASE kind = "onetap"
  <2>1. PointerButton(r, s, pos, {})
    BY <1>1, TapFacts DEF GestureStart
  <2>. QED  BY <2>1, PointerGestures DEF PointerButton, PointerMove, PointerStep, SameKeys
<1>2. CASE kind = "twotap"
  <2>1. PointerButton(r, s, pos, {})
    BY <1>2, TapFacts DEF GestureStart
  <2>. QED  BY <2>1, PointerGestures DEF PointerButton, PointerMove, PointerStep, SameKeys
<1>3. CASE kind = "threetap"
  <2>1. PointerButton(r, s, pos, {})
    BY <1>3, TapFacts DEF GestureStart
  <2>. QED  BY <2>1, PointerGestures DEF PointerButton, PointerMove, PointerStep, SameKeys
<1>4. CASE kind = "drag"
  <2>1. PointerButton(r, s, pos, {"left"})
    BY <1>4, MoveThenButtonsFacts DEF GestureStart
  <2>. QED  BY <1>4, <2>1, PointerGestures DEF PointerButton, PointerMove, PointerStep, SameKeys
<1>5. CASE kind = "longpress"
  <2>1. PointerButton(r, s, pos, {"right"})
    BY <1>5, MoveThenButtonsFacts DEF GestureStart
  <2>. QED  BY <1>5, <2>1, PointerGestures DEF PointerButton, PointerMove, PointerStep, SameKeys
<1>6. CASE kind \in {"twodrag", "pinch"}
  <2>1. PointerMove(r, s, pos)
    BY <1>6, MoveFacts DEF GestureStart
  <2>. QED  BY <1>6, <2>1, PointerGestures DEF PointerButton, PointerMove, PointerStep, SameKeys
<1>. QED  BY <1>1, <1>2, <1>3, <1>4, <1>5, <1>6 DEF Kinds

LEMMA GestureMoveFacts ==
  ASSUME NEW r \in InputRecords, NEW kind \in Kinds, NEW pos \in 0 .. 2, NEW scroll \in Scrolls
  PROVE  GestureStep(r, GestureMove(r, kind, pos, scroll), kind)
<1>. DEFINE s == GestureMove(r, kind, pos, scroll)
            a == HandleMouseMove(r, pos)
<1>1. GestureStep(r, a, kind)
  BY MoveFacts, PointerGestures
<1>2. s = CASE kind \in Taps -> r
            [] kind = "twodrag" -> Scroll(a, pos, scroll)
            [] kind = "pinch" -> PinchMoves(a, pos, scroll)
            [] OTHER -> a
  BY DEF GestureMove
<1>. HIDE DEF a, s
<1>3. a \in InputRecords
  BY <1>1 DEF GestureStep, TouchStep
<1>4. CASE kind \in Taps
  <2>1. s = r
    BY <1>2, <1>4 DEF Taps
  <2>. QED  BY <2>1 DEF s, GestureStep, TouchStep, Follows
<1>5. CASE kind = "twodrag"
  <2>1. s = Scroll(a, pos, scroll)
    BY <1>2, <1>5 DEF Taps
  <2>2. GestureStep(a, s, kind)
    BY <1>3, <2>1, ScrollFacts
  <2>. QED  BY <1>1, <2>2, GestureStepTwice DEF s
<1>6. CASE kind = "pinch"
  <2>1. s = PinchMoves(a, pos, scroll)
    BY <1>2, <1>6 DEF Taps
  <2>2. GestureStep(a, s, kind)
    BY <1>3, <1>6, <2>1, PinchFacts
  <2>. QED  BY <1>1, <2>2, GestureStepTwice DEF s
<1>7. CASE kind \in Holding
  <2>1. s = a
    BY <1>2, <1>7 DEF Taps, Holding
  <2>. QED  BY <1>1, <2>1 DEF s
<1>. QED  BY <1>4, <1>5, <1>6, <1>7 DEF Kinds, Taps, Holding

\* At the end of a gesture no button is held that was not before it.
LEMMA GestureEndFacts ==
  ASSUME NEW r \in InputRecords, NEW kind \in Kinds, NEW pos \in 0 .. 2
  PROVE  LET s == GestureEnd(r, kind, pos)
         IN  /\ TouchStep(r, s) /\ s.caps = r.caps
             /\ s.mask # {} => r.mask # {} /\ kind \notin Holding
<1>. DEFINE s == GestureEnd(r, kind, pos)
<1>1. CASE kind \in Holding
  <2>1. PointerButton(r, s, pos, {})
    BY <1>1, MoveThenButtonsFacts DEF GestureEnd, Holding
  <2>. QED  BY <2>1, PointerIsTouch DEF PointerButton
<1>2. CASE kind \notin Holding
  <2>1. s = r
    BY <1>2 DEF GestureEnd, Holding
  <2>. QED  BY <1>2, <2>1 DEF TouchStep, Follows
<1>. QED  BY <1>1, <1>2


-----------------------------------------------------------------------------
(***************************************************************************)
(* The actions.                                                            *)
(***************************************************************************)

\* What a keyboard action does to the RFB object, whoever made the keys.
KeyAction(r, s, lock) ==
  /\ KeyStep(r, s) /\ Shape(s) /\ KeepsHolders(r, s)
  /\ Follows(r, s, lock)

\* A handler that asks for no lock leaves the kiosk's.
LEMMA FollowsAny ==
  ASSUME NEW r, NEW s \in InputRecords, NEW lock, Follows(r, s, "null")
  PROVE  Follows(r, s, lock)
BY DEF Follows, InputRecords

LEMMA NoKeyAction ==
  ASSUME NEW r \in InputRecords, Shape(r), NEW lock
  PROVE  KeyAction(r, r, lock)
BY DEF KeyAction, KeyStep, SamePointer, KeepsHolders, Follows

\* A keydown and a keyup of a key that is not CapsLock; with CapsLock, all but
\* the lock.
KeyActionOf(c, r, s, lock) ==
  /\ KeyStep(r, s) /\ Shape(s) /\ KeepsHolders(r, s)
  /\ c # "CapsLock" => Follows(r, s, lock)

LEMMA DownAction ==
  ASSUME NEW r \in InputRecords, Shape(r), NEW c, NEW e, EventOf(e, c),
         NEW quick \in BOOLEAN, NEW meta \in BOOLEAN, NEW lock \in Locks
  PROVE  KeyActionOf(c, r, HandleKeyDown(r, e, quick, meta, lock), lock)
BY KeyDownFacts DEF EventOf, KeyActionOf

LEMMA UpAction ==
  ASSUME NEW r \in InputRecords, Shape(r), NEW c, NEW e, EventOf(e, c), NEW lock
  PROVE  KeyActionOf(c, r, HandleKeyUp(r, e), lock)
<1>. DEFINE s == HandleKeyUp(r, e)
<1>1. /\ KeyStep(r, s) /\ Shape(s) /\ KeepsHolders(r, s)
      /\ CodeOf(e) # "CapsLock" => Follows(r, s, "null")
  BY KeyUpFacts DEF EventOf
<1>2. s \in InputRecords /\ (c # "CapsLock" => CodeOf(e) # "CapsLock")
  BY <1>1 DEF KeyStep, EventOf
<1>. HIDE DEF s
<1>3. KeyActionOf(c, r, s, lock)
  BY <1>1, <1>2, FollowsAny DEF KeyActionOf
<1>. QED  BY <1>3 DEF s

LEMMA KeyActionTwice ==
  ASSUME NEW c, NEW r, NEW s, NEW t, NEW lock,
         KeyActionOf(c, r, s, lock), KeyActionOf(c, s, t, lock)
  PROVE  KeyActionOf(c, r, t, lock)
BY KeyStepTwice, KeepsTwice, FollowsTwice DEF KeyActionOf

LEMMA PressKeyFacts ==
  ASSUME setup \in Setups, user \in UserRecords, io \in InputRecords, Shape(io),
         NEW c \in setup.keys, PressKey(c)
  PROVE  KeyActionOf(c, io, io', user'.local) /\ left' = left \cap io'.down
<1>. DEFINE again == c \in user.held
            fake == Windows /\ c = "AltRight" /\ "ControlLeft" \notin user.held
            meta == "MetaLeft" \in user.held \/ c = "MetaLeft"
            mute == (Mac /\ c # "MetaLeft" /\ "MetaLeft" \in user.held) \/ (Windows /\ c = "Lang")
            toggles == Mac /\ c = "CapsLock"
            local == IF c # "CapsLock" \/ again THEN user.local
                     ELSE IF user.local = "on" THEN "off" ELSE "on"
            r == IF fake THEN HandleKeyDown(io, FakeControl, FALSE, FALSE, local) ELSE io
<1>1. c \in PhysicalKeys
  BY SetupsAssumption DEF SetupRecords
<1>2. local \in Locks /\ local \in {"on", "off"}
  BY DEF UserRecords, Locks
<1>3. user'.local = local
  <2>1. \E h, m : user' = [user EXCEPT !.local = local, !.held = h, !.silent = m]
    BY Zenon DEF PressKey
  <2>. HIDE DEF local
  <2>. QED  BY <2>1 DEF UserRecords
<1>4. left' = left \cap io'.down
  BY DEF PressKey, KeepTrack
<1>5. KeyActionOf(c, io, r, local)
  <2>1. CASE fake
    <3>1. KeyActionOf("ControlLeft", io, HandleKeyDown(io, FakeControl, FALSE, FALSE, local), local)
      BY <1>2, DownAction, FakeControlFacts
    <3>2. r = HandleKeyDown(io, FakeControl, FALSE, FALSE, local)
      BY <2>1
    <3>. HIDE DEF r, local
    <3>. QED  BY <3>1, <3>2 DEF KeyActionOf
  <2>2. CASE ~fake
    <3>1. r = io
      BY <2>2
    <3>. HIDE DEF r, local
    <3>. QED  BY <3>1, NoKeyAction DEF KeyActionOf, KeyAction
  <2>. QED  BY <2>1, <2>2
<1>6. CASE ~Listening
  <2>1. io' = io
    BY <1>6 DEF PressKey
  <2>2. KeyActionOf(c, io, io, user'.local)
    BY NoKeyAction DEF KeyActionOf, KeyAction
  <2>. QED  BY <1>4, <2>1, <2>2
<1>7. CASE Listening
  <2>1. PICK e \in EventsOf(c), quick \in BOOLEAN :
          io' = IF toggles /\ local = "off" THEN HandleKeyUp(io, e)
                ELSE HandleKeyDown(r, e, fake \/ quick, meta, local)
    BY <1>7, Zenon DEF PressKey
  <2>2. EventOf(e, c)
    BY <1>1, EventFacts
  <2>3. CASE toggles /\ local = "off"
    <3>1. io' = HandleKeyUp(io, e)
      BY <2>1, <2>3
    <3>. HIDE DEF local
    <3>2. KeyActionOf(c, io, HandleKeyUp(io, e), local)
      BY <2>2, UpAction
    <3>. QED  BY <1>3, <1>4, <3>1, <3>2
  <2>4. CASE ~(toggles /\ local = "off")
    <3>1. io' = HandleKeyDown(r, e, fake \/ quick, meta, local)
      BY <2>1, <2>4
    <3>2. (fake \/ quick) \in BOOLEAN /\ meta \in BOOLEAN
      OBVIOUS
    <3>3. r \in InputRecords /\ Shape(r)
      BY <1>5 DEF KeyActionOf, KeyStep
    <3>. HIDE DEF r, local, fake, meta
    <3>4. KeyActionOf(c, r, HandleKeyDown(r, e, fake \/ quick, meta, local), local)
      BY <1>2, <2>2, <3>2, <3>3, DownAction
    <3>. QED  BY <1>3, <1>4, <1>5, <3>1, <3>4, KeyActionTwice
  <2>. QED  BY <2>3, <2>4
<1>. QED  BY <1>6, <1>7

LEMMA ReleaseKeyFacts ==
  ASSUME setup \in Setups, user \in UserRecords, io \in InputRecords, Shape(io),
         NEW c \in setup.keys, ReleaseKey(c)
  PROVE  KeyActionOf(c, io, io', user'.local) /\ left' = left \cap io'.down
<1>. DEFINE fake == c = "AltRight" /\ "AltGrControl" \in user.held
            silent == c \in user.silent \/ (Windows /\ c \in Shifts /\ Shifts \subseteq user.held)
            r == IF fake THEN HandleKeyUp(io, FakeControl) ELSE io
            lock == user'.local
<1>1. c \in PhysicalKeys
  BY SetupsAssumption DEF SetupRecords
<1>2. left' = left \cap io'.down
  BY DEF ReleaseKey, KeepTrack
<1>3. KeyActionOf(c, io, r, lock)
  <2>1. CASE fake
    <3>. HIDE DEF lock
    <3>1. KeyActionOf("ControlLeft", io, HandleKeyUp(io, FakeControl), lock)
      BY UpAction, FakeControlFacts
    <3>2. r = HandleKeyUp(io, FakeControl)
      BY <2>1
    <3>. HIDE DEF r
    <3>. QED  BY <3>1, <3>2 DEF KeyActionOf
  <2>2. CASE ~fake
    <3>1. r = io
      BY <2>2
    <3>. HIDE DEF r, lock
    <3>. QED  BY <3>1, NoKeyAction DEF KeyActionOf, KeyAction
  <2>. QED  BY <2>1, <2>2
<1>4. CASE ~Listening \/ silent
  <2>1. io' = io
    BY <1>4 DEF ReleaseKey
  <2>2. KeyActionOf(c, io, io, user'.local)
    BY NoKeyAction DEF KeyActionOf, KeyAction
  <2>. QED  BY <1>2, <2>1, <2>2
<1>5. CASE ~(~Listening \/ silent)
  <2>1. PICK e \in EventsOf(c) : io' = HandleKeyUp(r, e)
    BY <1>5, Zenon DEF ReleaseKey
  <2>2. EventOf(e, c)
    BY <1>1, EventFacts
  <2>3. r \in InputRecords /\ Shape(r)
    BY <1>3 DEF KeyActionOf, KeyStep
  <2>. HIDE DEF r, lock
  <2>4. KeyActionOf(c, r, HandleKeyUp(r, e), lock)
    BY <2>2, <2>3, UpAction
  <2>. QED  BY <1>2, <1>3, <2>1, <2>4, KeyActionTwice DEF lock
<1>. QED  BY <1>4, <1>5


KeyInv ==
  /\ io \in InputRecords /\ Shape(io) /\ HeldBy(io, left)
  /\ left \subseteq Keysyms \cup Codes \cup {"AltLeft"}

\* The keys that were left need no more than what is still down.
LEMMA HeldByLess ==
  ASSUME NEW s, NEW l, HeldBy(s, l)
  PROVE  HeldBy(s, l \cap s.down)
BY DEF HeldBy

\* What every action of the keyboard, and of the script's buttons, does.
KeyboardStep ==
  /\ io' \in InputRecords /\ SamePointer(io, io') /\ io'.viewOnly = io.viewOnly
  /\ Shape(io') /\ HeldBy(io', left') /\ left' \subseteq left
  /\ "CapsLock" \notin setup.keys => Follows(io, io', user'.local)

LEMMA ByKeyAction ==
  ASSUME KeyInv, NEW c, KeyActionOf(c, io, io', user'.local), left' = left \cap io'.down,
         c = "CapsLock" => c \in setup.keys
  PROVE  KeyboardStep
BY HeldByLess DEF KeyInv, KeyActionOf, KeyStep, KeepsHolders, KeyboardStep

LEMMA StillIo ==
  ASSUME KeyInv, io' = io, left' = left
  PROVE  KeyboardStep
BY NoKeyAction DEF KeyInv, KeyAction, KeyStep, KeyboardStep

\* The buttons of the script send keys of their own, and list none.
LEMMA SentFacts ==
  ASSUME KeyInv, NEW s \in InputRecords, SamePointer(io, s), s.viewOnly = io.viewOnly,
         s.list = io.list, s.armed = io.armed, s.known = io.known, s.caps = io.caps,
         s.reports = io.reports, io' = s, left' = left \cap io'.down, HeldBy(s, left)
  PROVE  KeyboardStep
<1>1. Shape(s) /\ Follows(io, s, user'.local)
  BY DEF KeyInv, Shape, Follows, CapsKnown
<1>. QED  BY <1>1, HeldByLess DEF KeyboardStep

SameList(x, y) ==
  /\ KeyStep(x, y) /\ y.list = x.list /\ y.armed = x.armed
  /\ y.known = x.known /\ y.caps = x.caps /\ y.reports = x.reports

Pressed(x, y, k) ==
  SameList(x, y) /\ y.down = IF x.viewOnly THEN x.down ELSE x.down \cup {k}

Lifted(x, y, k) ==
  SameList(x, y) /\ y.down = IF x.viewOnly THEN x.down ELSE x.down \ {k}

LEMMA ScriptKey ==
  ASSUME NEW r \in InputRecords, NEW keysym \in Keysyms \ {"NoSymbol", "Caps_Lock"},
         NEW code \in SentCodes, NEW k, k = KeyId(keysym, code)
  PROVE  /\ Pressed(r, SendKey(r, keysym, code, TRUE), k)
         /\ Lifted(r, SendKey(r, keysym, code, FALSE), k)
<1>. DEFINE s == SendKey(r, keysym, code, TRUE)
            t == SendKey(r, keysym, code, FALSE)
<1>1. k # "NoSymbol"
  BY DEF KeyId, PhysicalKeys
<1>2. /\ KeyStep(r, s) /\ s.list = r.list /\ s.armed = r.armed /\ s.known = r.known
      /\ s.down = IF r.viewOnly \/ KeyId(keysym, code) = "NoSymbol" THEN r.down
                  ELSE r.down \cup {KeyId(keysym, code)}
      /\ s.caps = r.caps /\ s.reports = r.reports
  BY KeyPressed
<1>3. /\ KeyStep(r, t) /\ t.list = r.list /\ t.armed = r.armed /\ t.known = r.known
      /\ t.down = IF r.viewOnly \/ KeyId(keysym, code) = "NoSymbol" THEN r.down
                  ELSE r.down \ {KeyId(keysym, code)}
      /\ t.caps = r.caps /\ t.reports = r.reports
  BY KeyReleased
<1>. HIDE DEF s, t
<1>4. SameList(r, s) /\ s.down = IF r.viewOnly THEN r.down ELSE r.down \cup {k}
  BY <1>1, <1>2 DEF SameList
<1>5. SameList(r, t) /\ t.down = IF r.viewOnly THEN r.down ELSE r.down \ {k}
  BY <1>1, <1>3 DEF SameList
<1>. QED  BY <1>4, <1>5 DEF s, t, Pressed, Lifted

LEMMA SendWindowsKeyFacts ==
  ASSUME KeyInv, SendWindowsKey
  PROVE  KeyboardStep /\ io'.list = io.list /\ io'.armed = io.armed
<1>. DEFINE a == SendKey(io, "Super_L", "Unidentified", TRUE)
            s == [a EXCEPT !.wins = @ + 1]
<1>1. "Super_L" \in Keysyms /\ "Unidentified" \in SentCodes /\ io \in InputRecords
  BY CodeNames DEF Keysyms, SentCodes, KeyInv
<1>2. KeyId("Super_L", "Unidentified") = "Super_L"
  BY DEF KeyId, PhysicalKeys
<1>3. /\ KeyStep(io, a) /\ a.list = io.list /\ a.armed = io.armed /\ a.known = io.known
      /\ a.down \subseteq io.down \cup {"Super_L"} /\ (io.viewOnly => a.down = io.down)
      /\ a.caps = io.caps /\ a.reports = io.reports
  BY <1>1, <1>2, KeyPressed
<1>. HIDE DEF a
<1>4. io.wins < MaxWins /\ io' = s /\ left' = left \cap io'.down
  BY DEF SendWindowsKey, KeepTrack, a
<1>5. io.wins \in Nat /\ io.wins + 1 \in 0 .. MaxWins /\ a.wins = io.wins
  BY <1>1, <1>3, <1>4, InputBounds DEF InputRecords, KeyStep
<1>6. /\ s \in InputRecords /\ SamePointer(io, s) /\ s.viewOnly = io.viewOnly
      /\ s.list = io.list /\ s.armed = io.armed /\ s.known = io.known /\ s.caps = io.caps
      /\ s.reports = io.reports /\ s.down = a.down /\ s.wins = io.wins + 1
  BY <1>3, <1>5 DEF KeyStep, SamePointer, InputRecords
<1>. HIDE DEF s
<1>7. HeldBy(s, left)
  <2>1. s.wins > 0 /\ Holders(io) \cup {"Super_L"} \subseteq Holders(s)
    BY <1>5, <1>6 DEF Holders
  <2>. QED  BY <1>3, <1>6, <2>1 DEF KeyInv, HeldBy
<1>. QED  BY <1>4, <1>6, <1>7, SentFacts

LEMMA WinKeyUpFacts ==
  ASSUME KeyInv, WinKeyUp
  PROVE  KeyboardStep /\ io'.list = io.list /\ io'.armed = io.armed
<1>. DEFINE a == SendKey(io, "Super_L", "Unidentified", FALSE)
            s == [a EXCEPT !.wins = @ - 1]
<1>1. "Super_L" \in Keysyms \ {"NoSymbol", "Caps_Lock"} /\ "Unidentified" \in SentCodes /\ io \in InputRecords
  BY CodeNames DEF Keysyms, SentCodes, KeyInv
<1>2. KeyId("Super_L", "Unidentified") = "Super_L"
  BY DEF KeyId, PhysicalKeys
<1>3. SameList(io, a) /\ a.down = IF io.viewOnly THEN io.down ELSE io.down \ {"Super_L"}
  <2>1. Lifted(io, a, "Super_L")
    BY <1>1, <1>2, ScriptKey
  <2>. HIDE DEF a
  <2>. QED  BY <2>1 DEF Lifted
<1>. HIDE DEF a
<1>4. io.wins > 0 /\ io' = s /\ left' = left \cap io'.down
  BY DEF WinKeyUp, KeepTrack, a
<1>5. io.wins \in Nat /\ io.wins - 1 \in 0 .. MaxWins /\ a.wins = io.wins
  BY <1>1, <1>3, <1>4, InputBounds DEF InputRecords, KeyStep, SameList
<1>6. /\ s \in InputRecords /\ SamePointer(io, s) /\ s.viewOnly = io.viewOnly
      /\ s.list = io.list /\ s.armed = io.armed /\ s.known = io.known /\ s.caps = io.caps
      /\ s.reports = io.reports /\ s.down = a.down
  BY <1>3, <1>5 DEF KeyStep, SamePointer, InputRecords, SameList
<1>. HIDE DEF s
<1>7. HeldBy(s, left)
  <2>1. Holders(io) \subseteq Holders(s) \cup {"Super_L"}
    BY <1>6 DEF Holders
  <2>. QED  BY <1>3, <1>6, <2>1 DEF KeyInv, HeldBy
<1>. QED  BY <1>4, <1>6, <1>7, SentFacts

LEMMA SendCtrlAltDelFacts ==
  ASSUME KeyInv, SendCtrlAltDel
  PROVE  KeyboardStep /\ io'.list = io.list /\ io'.armed = io.armed
<1>. DEFINE a == SendKey(io, "Control_L", "ControlLeft", TRUE)
            b == SendKey(a, "Alt_L", "AltLeft", TRUE)
            d == Press(b, "Delete", "Delete")
            e == SendKey(d, "Alt_L", "AltLeft", FALSE)
            s == SendKey(e, "Control_L", "ControlLeft", FALSE)
            ctrl == KeyId("Control_L", "ControlLeft")
            alt == KeyId("Alt_L", "AltLeft")
<1>1. /\ {"Control_L", "Alt_L", "Delete"} \subseteq Keysyms \ {"NoSymbol", "Caps_Lock"}
      /\ {"ControlLeft", "AltLeft", "Delete"} \subseteq SentCodes /\ io \in InputRecords
  BY CodeNames DEF Keysyms, SentCodes, KeyInv
<1>3. io' = s /\ left' = left \cap io'.down
  BY DEF SendCtrlAltDel, KeepTrack
<1>. HIDE DEF ctrl, alt
<1>4. Pressed(io, a, ctrl)
  BY <1>1, ScriptKey DEF ctrl
<1>. HIDE DEF a
<1>5. Pressed(a, b, alt)
  <2>1. a \in InputRecords
    BY <1>4 DEF Pressed, SameList, KeyStep
  <2>. QED  BY <1>1, <2>1, ScriptKey DEF alt
<1>. HIDE DEF b
<1>6. SameList(b, d) /\ d.down \subseteq b.down
  <2>1. b \in InputRecords
    BY <1>5 DEF Pressed, SameList, KeyStep
  <2>2. /\ KeyStep(b, d) /\ d.list = b.list /\ d.armed = b.armed /\ d.known = b.known
        /\ d.down \subseteq b.down /\ d.caps = b.caps /\ d.reports = b.reports
    BY <1>1, <2>1, PressFacts
  <2>. HIDE DEF d
  <2>. QED  BY <2>2 DEF SameList
<1>. HIDE DEF d
<1>7. Lifted(d, e, alt)
  <2>1. d \in InputRecords
    BY <1>6 DEF SameList, KeyStep
  <2>. QED  BY <1>1, <2>1, ScriptKey DEF alt
<1>. HIDE DEF e
<1>8. Lifted(e, s, ctrl)
  <2>1. e \in InputRecords
    BY <1>7 DEF Lifted, SameList, KeyStep
  <2>. QED  BY <1>1, <2>1, ScriptKey DEF ctrl
<1>. HIDE DEF s
<1>9. SameList(io, s) /\ s.down \subseteq io.down
  <2>1. SameList(io, d) /\ d.down \subseteq b.down
    BY <1>4, <1>5, <1>6, KeyStepTwice DEF SameList, Pressed
  <2>2. SameList(io, s)
    BY <1>7, <1>8, <2>1, KeyStepTwice DEF SameList, Lifted
  <2>3. s.down \subseteq io.down
    BY <1>4, <1>5, <1>6, <1>7, <1>8 DEF KeyStep, SameList, Pressed, Lifted
  <2>. QED  BY <2>2, <2>3
<1>10. HeldBy(s, left)
  <2>1. Holders(s) = Holders(io) /\ s.viewOnly = io.viewOnly
    BY <1>9 DEF Holders, KeyStep, SameList
  <2>. QED  BY <1>9, <2>1 DEF KeyInv, HeldBy
<1>. QED  BY <1>3, <1>9, <1>10, SentFacts DEF KeyStep, SameList

\* A report of the kiosk arrives.
LEMMA LedFacts ==
  ASSUME KeyInv, HandleLedEvent
  PROVE  KeyboardStep /\ io'.list = io.list /\ io'.armed = io.armed
<1>. DEFINE h == Head(io.reports)
            t == Tail(io.reports)
            a == [io EXCEPT !.known = h]
            s == [a EXCEPT !.reports = t]
<1>1. io \in InputRecords /\ io.reports \in Seq({"on", "off"}) /\ io.reports # <<>>
  BY DEF KeyInv, HandleLedEvent, InputRecords
<1>2. h \in {"on", "off"} /\ t \in Seq({"on", "off"})
  BY <1>1, HeadTailProperties
<1>3. ASSUME io.reports = <<io.caps>> PROVE h = io.caps /\ t = <<>>
  <2>1. Head(<<io.caps>>) = io.caps /\ Tail(<<io.caps>>) = <<>>
    BY <1>1 DEF InputRecords
  <2>. QED  BY <1>3, <2>1
<1>4. io' = s /\ left' = left
  BY DEF HandleLedEvent
<1>. HIDE DEF h, t
<1>5. /\ a \in InputRecords /\ SamePointer(io, a) /\ a.viewOnly = io.viewOnly
      /\ a.list = io.list /\ a.armed = io.armed /\ a.caps = io.caps /\ a.down = io.down
      /\ a.wins = io.wins /\ a.known = h
  BY <1>1, <1>2 DEF InputRecords, SamePointer
<1>. HIDE DEF a
<1>6. /\ s \in InputRecords /\ SamePointer(io, s) /\ s.viewOnly = io.viewOnly
      /\ s.list = io.list /\ s.armed = io.armed /\ s.caps = io.caps /\ s.down = io.down
      /\ s.wins = io.wins /\ s.known = h /\ s.reports = t
  BY <1>2, <1>5 DEF InputRecords, SamePointer
<1>. HIDE DEF s
<1>7. Shape(s) /\ HeldBy(s, left)
  BY <1>6 DEF KeyInv, Shape, HeldBy, Holders
<1>8. Follows(io, s, user'.local)
  BY <1>1, <1>3, <1>6 DEF Follows, CapsKnown
<1>. QED  BY <1>4, <1>6, <1>7, <1>8 DEF KeyboardStep

LEMMA AltGrTimeoutFacts ==
  ASSUME KeyInv, AltGrTimeout
  PROVE  KeyboardStep /\ Interrupted(io, io')
<1>1. /\ io \in InputRecords /\ Shape(io) /\ io' = InterruptAltGrSequence(io, "null")
      /\ left' = left \cap io'.down /\ "null" \in Locks
  BY DEF KeyInv, AltGrTimeout, KeepTrack, Locks
<1>2. /\ KeyStep(io, io') /\ Interrupted(io, io') /\ Shape(io') /\ KeepsHolders(io, io')
      /\ Follows(io, io', "null")
  BY <1>1, InterruptFacts
<1>3. KeyActionOf("ControlLeft", io, io', user'.local)
  BY <1>2, FollowsAny DEF KeyActionOf, KeyStep
<1>. QED  BY <1>1, <1>2, <1>3, ByKeyAction

LEMMA BlurFacts ==
  ASSUME KeyInv, Blur
  PROVE  KeyboardStep /\ (io.viewOnly => io' = io) /\ (~io.viewOnly => AllUp(io'))
<1>1. io \in InputRecords /\ Shape(io) /\ left' = left \cap io'.down
  BY DEF KeyInv, Blur, KeepTrack
<1>2. CASE io.viewOnly
  <2>1. io' = io
    BY <1>2 DEF Blur
  <2>2. KeyActionOf("ControlLeft", io, io', user'.local)
    BY <1>1, <2>1, NoKeyAction DEF KeyActionOf, KeyAction
  <2>. QED  BY <1>1, <1>2, <2>1, <2>2, ByKeyAction
<1>3. CASE ~io.viewOnly
  <2>1. io' = AllKeysUp(io)
    BY <1>3 DEF Blur
  <2>2. /\ KeyStep(io, io') /\ AllUp(io') /\ Shape(io') /\ KeepsHolders(io, io')
        /\ Follows(io, io', "null")
    BY <1>1, <2>1, AllKeysUpFacts
  <2>3. KeyActionOf("ControlLeft", io, io', user'.local)
    BY <2>2, FollowsAny DEF KeyActionOf, KeyStep
  <2>. QED  BY <1>1, <1>3, <2>2, <2>3, ByKeyAction
<1>. QED  BY <1>2, <1>3

LEMMA KeyboardFacts ==
  ASSUME setup \in Setups, user \in UserRecords, KeyInv, Keyboard
  PROVE  KeyboardStep
<1>1. io \in InputRecords /\ Shape(io)
  BY DEF KeyInv
<1>2. ASSUME NEW c \in setup.keys, PressKey(c) \/ ReleaseKey(c) PROVE KeyboardStep
  BY <1>1, <1>2, PressKeyFacts, ReleaseKeyFacts, ByKeyAction
<1>3. ASSUME (\E f \in {"canvas", "page"} : Focus(f)) \/ LockElsewhere PROVE KeyboardStep
  BY <1>3, StillIo DEF Focus, LockElsewhere
<1>. QED  BY <1>2, <1>3, AltGrTimeoutFacts, BlurFacts, LedFacts, SendWindowsKeyFacts,
              WinKeyUpFacts, SendCtrlAltDelFacts DEF Keyboard


(***************************************************************************)
(* The pointer's actions, on a computer with a mouse and no screen to      *)
(* touch: the mask holds no button the user has let go of, and the pointer *)
(* is where the mouse is or will be with the timer.                        *)
(***************************************************************************)
Arrives(r, at) == IF r.timer THEN r.pos = at ELSE r.muted \/ r.at = at

MouseOnly ==
  setup.fingers = {} =>
    /\ user.fingers = {}
    /\ ~unseen => io.mask \subseteq user.buttons
    /\ user.at # 0 => Arrives(io, user.at)

MouseInv == io \in InputRecords /\ Synced(io) /\ MouseOnly

LEMMA MoveArrives ==
  ASSUME NEW r, NEW s, NEW pos
  PROVE  /\ PointerMove(r, s, pos) => Arrives(s, pos)
         /\ \A mask : PointerButton(r, s, pos, mask) => Arrives(s, pos)
BY DEF PointerMove, PointerButton, Arrives


\* The capture of the pointer is no part of that.
LEMMA CaptureFacts ==
  ASSUME NEW r, NEW a, NEW pos, NEW mask, PointerButton(r, a, pos, mask), NEW on \in BOOLEAN
  PROVE  PointerButton(r, [a EXCEPT !.capture = on], pos, mask)
<1>. DEFINE s == [a EXCEPT !.capture = on]
<1>1. a \in InputRecords
  BY DEF PointerButton, PointerStep
<1>2. /\ s \in InputRecords /\ SameKeys(a, s) /\ s.mask = a.mask /\ s.timer = a.timer
      /\ s.muted = a.muted /\ s.buttons = a.buttons /\ s.at = a.at
  BY <1>1 DEF InputRecords, SameKeys
<1>. HIDE DEF s
<1>3. PointerStep(r, s)
  BY <1>2, PointerStepTwice DEF PointerButton, PointerStep
<1>4. PointerButton(r, s, pos, mask)
  BY <1>2, <1>3 DEF PointerButton, Synced
<1>. QED  BY <1>4 DEF s

\* What the user's mouse is after its events.
LEMMA MouseUser ==
  ASSUME user \in UserRecords, NEW b, \/ user' = [user EXCEPT !.buttons = b]
                                      \/ user' = user /\ b = user.buttons
  PROVE  user'.buttons = b /\ user'.at = user.at /\ user'.fingers = user.fingers
BY DEF UserRecords

\* What every event and timer of the mouse does.
MouseStep ==
  /\ PointerStep(io, io') /\ Synced(io')
  /\ left' = left /\ strayed' = strayed /\ unseen' \in BOOLEAN /\ g' = g
  /\ setup.buttons = {} => io'.mask = io.mask
  /\ setup.fingers = {} =>
       /\ ~unseen' => io'.mask \subseteq user'.buttons
       /\ user'.at # 0 => Arrives(io', user'.at)

LEMMA MouseDownFacts ==
  ASSUME setup \in Setups, user \in UserRecords, unseen \in BOOLEAN, MouseInv,
         NEW b \in setup.buttons, MouseDown(b)
  PROVE  MouseStep
<1>. DEFINE held == user.buttons \cup {b}
            a == HandleMouseButton(io, user.at, held)
<1>1. b \in Buttons /\ user.at \in 0 .. 2 /\ held \in SUBSET Buttons /\ io \in InputRecords
  BY SetupsAssumption DEF SetupRecords, UserRecords, Buttons, MouseInv
<1>2. user'.buttons = held /\ user'.at = user.at
  BY MouseUser DEF MouseDown
<1>3. left' = left /\ strayed' = strayed /\ g' = g
  BY DEF MouseDown
<1>4. CASE user.at # 0 /\ ~io.capture
  <2>1. io' = [a EXCEPT !.capture = TRUE] /\ unseen' = FALSE
    BY <1>2, <1>4 DEF MouseDown
  <2>2. PointerButton(io, a, user.at, held)
    BY <1>1, ButtonFacts
  <2>. HIDE DEF a, held
  <2>3. PointerButton(io, io', user.at, held)
    BY <2>1, <2>2, CaptureFacts
  <2>. QED  BY <1>2, <1>3, <2>1, <2>3, MoveArrives DEF MouseStep, PointerButton
<1>5. CASE ~(user.at # 0 /\ ~io.capture)
  <2>1. io' = io /\ unseen' = unseen
    BY <1>5 DEF MouseDown
  <2>2. PointerStep(io, io)
    BY <1>1 DEF PointerStep, SameKeys
  <2>. QED  BY <1>2, <1>3, <2>1, <2>2 DEF MouseStep, MouseInv, MouseOnly
<1>. QED  BY <1>4, <1>5

LEMMA MouseUpFacts ==
  ASSUME setup \in Setups, user \in UserRecords, unseen \in BOOLEAN, MouseInv,
         NEW b \in setup.buttons, MouseUp(b)
  PROVE  MouseStep
<1>. DEFINE held == user.buttons \ {b}
            pos == Clamp(user.at)
            a == HandleMouseButton(io, pos, held)
<1>1. /\ b \in Buttons /\ pos \in 0 .. 2 /\ (user.at # 0 => pos = user.at)
      /\ held \in SUBSET Buttons /\ io \in InputRecords
  BY SetupsAssumption DEF SetupRecords, UserRecords, Buttons, MouseInv, Clamp
<1>2. user'.buttons = held /\ user'.at = user.at
  BY MouseUser DEF MouseUp
<1>3. left' = left /\ strayed' = strayed /\ g' = g
  BY DEF MouseUp
<1>4. CASE Seen
  <2>1. io' = [a EXCEPT !.capture = FALSE] /\ unseen' = FALSE
    BY <1>2, <1>4 DEF MouseUp
  <2>2. PointerButton(io, a, pos, held)
    BY <1>1, ButtonFacts
  <2>. HIDE DEF a, held, pos
  <2>3. PointerButton(io, io', pos, held)
    BY <2>1, <2>2, CaptureFacts
  <2>. QED  BY <1>1, <1>2, <1>3, <2>1, <2>3, MoveArrives DEF MouseStep, PointerButton
<1>5. CASE ~Seen
  <2>1. io' = io /\ unseen' = (unseen \/ b \in io.mask)
    BY <1>5 DEF MouseUp
  <2>2. PointerStep(io, io)
    BY <1>1 DEF PointerStep, SameKeys
  <2>3. unseen' \in BOOLEAN /\ (~unseen' => ~unseen /\ b \notin io.mask)
    BY <2>1
  <2>. QED  BY <1>2, <1>3, <2>1, <2>2, <2>3 DEF MouseStep, MouseInv, MouseOnly
<1>. QED  BY <1>4, <1>5

LEMMA MouseMoveFacts ==
  ASSUME setup \in Setups, user \in UserRecords, unseen \in BOOLEAN, MouseInv,
         NEW pos \in setup.positions, MouseMove(pos)
  PROVE  MouseStep
<1>1. pos \in 0 .. 2 /\ Clamp(pos) \in 0 .. 2 /\ (pos # 0 => Clamp(pos) = pos)
  BY SetupsAssumption DEF SetupRecords, Clamp
<1>2. user'.buttons = user.buttons /\ user'.at = pos /\ io \in InputRecords
  BY DEF MouseMove, UserRecords, MouseInv
<1>3. /\ left' = left /\ strayed' = strayed /\ g' = g /\ unseen' = unseen
      /\ setup.buttons # {}
  BY DEF MouseMove
<1>4. CASE io.capture \/ pos # 0
  <2>1. io' = HandleMouseMove(io, Clamp(pos))
    BY <1>4 DEF MouseMove
  <2>2. PointerMove(io, io', Clamp(pos))
    BY <1>1, <1>2, <2>1, MoveFacts
  <2>3. pos # 0 => Arrives(io', pos)
    BY <1>1, <2>2, MoveArrives
  <2>. QED  BY <1>2, <1>3, <2>2, <2>3 DEF MouseStep, MouseInv, MouseOnly, PointerMove
<1>5. CASE ~(io.capture \/ pos # 0)
  <2>1. io' = io
    BY <1>5 DEF MouseMove
  <2>2. PointerStep(io, io)
    BY <1>2 DEF PointerStep, SameKeys
  <2>. QED  BY <1>2, <1>3, <1>5, <2>1, <2>2 DEF MouseStep, MouseInv, MouseOnly
<1>. QED  BY <1>4, <1>5

LEMMA WheelActionFacts ==
  ASSUME setup \in Setups, user \in UserRecords, unseen \in BOOLEAN, MouseInv,
         NEW delta \in {-1, 1}, Wheel(delta)
  PROVE  MouseStep
<1>1. user.at \in 0 .. 2 /\ user.buttons \in SUBSET Buttons /\ io \in InputRecords
  BY DEF UserRecords, Buttons, MouseInv
<1>2. /\ left' = left /\ strayed' = strayed /\ g' = g /\ user' = user
      /\ unseen' = (unseen /\ io'.wheel = io.wheel + delta)
      /\ setup.buttons # {} /\ user.at # 0
      /\ io' = HandleWheel(io, user.at, user.buttons, delta)
  BY DEF Wheel
<1>3. WheelStep(io, io', user.at, user.buttons, delta)
  BY <1>1, <1>2, WheelFacts
<1>4. unseen' \in BOOLEAN
  BY <1>2
<1>5. CASE /\ PointerStep(io, io') /\ io'.wheel = io.wheel + delta
           /\ io'.mask = io.mask /\ io'.pos = io.pos /\ io'.timer = io.timer
           /\ io'.buttons = io.buttons /\ io'.at = io.at /\ io'.muted = io.muted
  <2>1. ~unseen' => ~unseen
    BY <1>2, <1>5
  <2>2. Synced(io') /\ (Arrives(io, user.at) => Arrives(io', user.at))
    BY <1>5 DEF MouseInv, Synced, Arrives
  <2>. QED  BY <1>2, <1>4, <1>5, <2>1, <2>2 DEF MouseStep, MouseInv, MouseOnly
<1>6. CASE PointerButton(io, io', user.at, user.buttons)
  <2>1. PointerStep(io, io') /\ Synced(io') /\ io'.mask = user.buttons /\ Arrives(io', user.at)
    BY <1>6, MoveArrives DEF PointerButton
  <2>. QED  BY <1>2, <1>4, <2>1 DEF MouseStep
<1>. QED  BY <1>3, <1>5, <1>6 DEF WheelStep

LEMMA MouseTimers ==
  ASSUME setup \in Setups, user \in UserRecords, unseen \in BOOLEAN, MouseInv,
         HandleDelayedMouseMove \/ CoolDown
  PROVE  MouseStep
<1>1. /\ left' = left /\ strayed' = strayed /\ g' = g /\ user' = user /\ unseen' = unseen
      /\ io \in InputRecords
  BY DEF HandleDelayedMouseMove, CoolDown, MouseInv
<1>2. CASE CoolDown
  <2>1. io' = [io EXCEPT !.cooling = FALSE]
    BY <1>2 DEF CoolDown
  <2>2. /\ PointerStep(io, io') /\ io'.mask = io.mask /\ io'.pos = io.pos /\ io'.timer = io.timer
        /\ io'.buttons = io.buttons /\ io'.at = io.at /\ io'.muted = io.muted
    BY <1>1, <2>1 DEF PointerStep, SameKeys, InputRecords
  <2>3. Synced(io') /\ (Arrives(io, user.at) => Arrives(io', user.at))
    BY <2>2 DEF MouseInv, Synced, Arrives
  <2>. QED  BY <1>1, <2>2, <2>3 DEF MouseStep, MouseInv, MouseOnly
<1>3. CASE HandleDelayedMouseMove
  <2>. DEFINE a == [io EXCEPT !.timer = FALSE]
              b == SendMouse(a, io.pos, io.mask)
  <2>1. io.timer /\ io' = [b EXCEPT !.cooling = TRUE]
    BY <1>3 DEF HandleDelayedMouseMove
  <2>2. /\ PointerStep(io, a) /\ a.mask = io.mask /\ ~a.timer
        /\ io.pos \in 0 .. 2 /\ io.mask \in SUBSET Buttons
    BY <1>1 DEF PointerStep, SameKeys, InputRecords
  <2>. HIDE DEF a
  <2>3. /\ PointerStep(a, b) /\ b.mask = a.mask /\ b.timer = a.timer
        /\ b.muted \/ (b.buttons = io.mask /\ b.at = io.pos)
    BY <2>2, SendMouseFacts DEF PointerStep
  <2>. HIDE DEF b
  <2>4. /\ PointerStep(b, io') /\ io'.mask = b.mask /\ io'.timer = b.timer
        /\ io'.buttons = b.buttons /\ io'.at = b.at /\ io'.muted = b.muted
    BY <2>1, <2>3 DEF PointerStep, SameKeys, InputRecords
  <2>5. PointerStep(io, io')
    BY <2>2, <2>3, <2>4, PointerStepTwice
  <2>6. io'.mask = io.mask /\ Synced(io') /\ (Arrives(io, user.at) => Arrives(io', user.at))
    BY <2>1, <2>2, <2>3, <2>4 DEF Synced, Arrives
  <2>. QED  BY <1>1, <2>5, <2>6 DEF MouseStep, MouseInv, MouseOnly
<1>. QED  BY <1>2, <1>3

LEMMA MouseFacts ==
  ASSUME setup \in Setups, user \in UserRecords, unseen \in BOOLEAN, MouseInv, Mouse
  PROVE  MouseStep
BY MouseDownFacts, MouseUpFacts, MouseMoveFacts, WheelActionFacts, MouseTimers DEF Mouse


(***************************************************************************)
(* The switch of view-only mode.                                           *)
(***************************************************************************)
SwitchStep ==
  /\ io' \in InputRecords /\ SamePointer(io, io')
  /\ Shape(io') /\ HeldBy(io', left')
  /\ left' \subseteq Keysyms \cup Codes \cup {"AltLeft"}
  /\ Follows(io, io', user'.local)

LEMMA SetViewOnlyFacts ==
  ASSUME KeyInv, NEW on \in BOOLEAN, SetViewOnly(on)
  PROVE  SwitchStep /\ io'.viewOnly = on /\ (on => AllUp(io'))
         /\ (~on => io'.list = io.list /\ io'.armed = io.armed)
<1>. DEFINE r == [io EXCEPT !.viewOnly = on]
<1>1. io \in InputRecords /\ Shape(io) /\ HeldBy(io, left)
  BY DEF KeyInv
<1>2. /\ r \in InputRecords /\ SamePointer(io, r) /\ r.viewOnly = on /\ r.list = io.list
      /\ r.armed = io.armed /\ r.known = io.known /\ r.caps = io.caps
      /\ r.reports = io.reports /\ r.wins = io.wins /\ r.down = io.down
  BY <1>1 DEF InputRecords, SamePointer
<1>3. /\ on => io' = AllKeysUp(r) /\ left' = io'.down
      /\ ~on => io' = r /\ left' = left \cap io'.down
  <2>1. CASE on
    <3>1. on = TRUE
      BY <2>1
    <3>2. io' = AllKeysUp([io EXCEPT !.viewOnly = TRUE]) /\ left' = io'.down
      BY <2>1 DEF SetViewOnly
    <3>. QED  BY <2>1, <3>1, <3>2
  <2>2. CASE ~on
    <3>1. on = FALSE
      BY <2>2
    <3>2. io' = [io EXCEPT !.viewOnly = FALSE] /\ left' = left \cap io'.down
      BY <2>2 DEF SetViewOnly
    <3>. QED  BY <2>2, <3>1, <3>2
  <2>. QED  BY <2>1, <2>2
<1>. HIDE DEF r
<1>4. Shape(r) /\ Follows(io, r, user'.local)
  BY <1>1, <1>2 DEF Shape, Follows, CapsKnown
<1>5. CASE on
  <2>1. /\ KeyStep(r, io') /\ AllUp(io') /\ Shape(io') /\ KeepsHolders(r, io')
        /\ Follows(r, io', "null")
    BY <1>2, <1>3, <1>4, <1>5, AllKeysUpFacts
  <2>2. Follows(io, io', user'.local)
    BY <1>4, <2>1, FollowsAny, FollowsTwice DEF KeyStep
  <2>3. io' \in InputRecords /\ SamePointer(io, io') /\ io'.viewOnly = on
    BY <1>2, <2>1 DEF KeyStep, SamePointer
  <2>4. HeldBy(io', left')
    <3>1. HeldBy(r, r.down)
      BY <1>1, <1>2 DEF HeldBy
    <3>2. HeldBy(io', r.down)
      BY <2>1, <3>1 DEF KeepsHolders
    <3>. QED  BY <1>3, <1>5, <3>2 DEF HeldBy
  <2>5. left' \subseteq Keysyms \cup Codes \cup {"AltLeft"}
    BY <1>3, <1>5, <2>3 DEF InputRecords
  <2>. QED  BY <1>5, <2>1, <2>2, <2>3, <2>4, <2>5 DEF SwitchStep
<1>6. CASE ~on
  <2>1. HeldBy(r, left)
    BY <1>1, <1>2, <1>6 DEF HeldBy, Holders
  <2>2. io' = r /\ left' = left \cap r.down
    BY <1>3, <1>6
  <2>. QED  BY <1>2, <1>4, <1>6, <2>1, <2>2, HeldByLess DEF SwitchStep, KeyInv
<1>. QED  BY <1>5, <1>6

(***************************************************************************)
(* The touch events, on a computer whose mouse holds no button: a button   *)
(* is held for a drag or a long press that is still going on.              *)
(***************************************************************************)
ForGesture(r, t) ==
  r.mask # {} => t.state \in {{"drag"}, {"longpress"}} /\ t.tracked # <<>>

TouchAction ==
  /\ TouchStep(io, io')
  /\ left' = left \/ left' = left \cap io'.down
  /\ strayed' = strayed /\ unseen' = unseen
  /\ io'.caps = io.caps \/ g'.state = {"pinch"}
  /\ ForGesture(io, g) => ForGesture(io', g')

\* A drag or a press is a gesture that is known.
LEMMA HoldingIsKnown ==
  ASSUME NEW t, t.state \in {{"drag"}, {"longpress"}}
  PROVE  HasDetectedGesture(t) /\ t.state = {KindOf(t)} /\ KindOf(t) \in Holding
<1>1. t.state \in Singles /\ t.state \notin {{k} : k \in Taps}
  BY DEF Singles, Kinds, Taps
<1>2. HasDetectedGesture(t)
  BY <1>1, DetectedFacts
<1>3. t.state = {KindOf(t)}
  BY <1>2, DetectedFacts
<1>. QED  BY <1>2, <1>3 DEF Holding

LEMMA KnownHolding ==
  ASSUME NEW t, HasDetectedGesture(t), KindOf(t) \in Holding
  PROVE  t.state \in {{"drag"}, {"longpress"}}
<1>1. t.state = {KindOf(t)}
  BY DetectedFacts
<1>. QED  BY <1>1 DEF Holding

LEMMA NoTouchStep ==
  ASSUME NEW r \in InputRecords
  PROVE  TouchStep(r, r) /\ \A kind : GestureStep(r, r, kind)
BY DEF TouchStep, Follows, GestureStep

LEMMA TouchStartFacts ==
  ASSUME TouchInv, io \in InputRecords, NEW id \in setup.fingers, TouchStart(id)
  PROVE  TouchAction
<1>1. /\ io' = io /\ left' = left /\ strayed' = strayed /\ unseen' = unseen
      /\ g' = StartTouch(g, id)
  BY DEF TouchStart
<1>2. ASSUME g.state \in {{"drag"}, {"longpress"}}
      PROVE  g'.state = g.state /\ g'.tracked = g.tracked
  <2>1. g' = [g EXCEPT !.ignored = @ \cup {id}]
    BY <1>1, <1>2, HoldingIsKnown DEF StartTouch
  <2>2. g \in GestureRecords
    BY DEF TouchInv, GestureInv
  <2>. QED  BY <2>1, <2>2 DEF GestureRecords
<1>. QED  BY <1>1, <1>2, NoTouchStep DEF TouchAction, ForGesture

LEMMA TouchMoveFacts ==
  ASSUME TouchInv, io \in InputRecords, NEW id \in setup.fingers, NEW far \in BOOLEAN,
         NEW apart \in BOOLEAN, NEW pos \in setup.positions, NEW scroll \in Scrolls,
         TouchMove(id, far, apart, pos, scroll)
  PROVE  TouchAction
<1>. DEFINE kind == KindOf(g')
            r == IF HasDetectedGesture(g) THEN io ELSE GestureStart(io, kind, pos)
<1>1. id \in Fingers /\ pos \in 0 .. 2
  BY SetupsAssumption DEF TouchInv, SetupRecords
<1>2. /\ g' = MoveTouch(g, id, far, apart)
      /\ left' = left \cap io'.down /\ strayed' = strayed /\ unseen' = unseen
  BY DEF TouchMove, KeepTrack
<1>3. g.tracked # <<>>
  BY TracksSome DEF TouchInv, GestureInv, GestureRecords, TouchMove, Finger
<1>4. g'.tracked # <<>> /\ (HasDetectedGesture(g) => g'.state = g.state)
  BY <1>1, <1>2, <1>3, MoveTouchInv DEF TouchInv
<1>5. g.state \in {{"drag"}, {"longpress"}} => g'.state = g.state
  BY <1>4, HoldingIsKnown
<1>6. CASE ~HasDetectedGesture(g')
  <2>1. io' = io
    BY <1>6 DEF TouchMove
  <2>. QED  BY <1>2, <1>4, <1>5, <2>1, NoTouchStep DEF TouchAction, ForGesture
<1>7. CASE HasDetectedGesture(g')
  <2>1. io' = GestureMove(r, kind, pos, scroll)
    BY <1>7 DEF TouchMove
  <2>2. kind \in Kinds /\ g'.state = {kind}
    BY <1>7, DetectedFacts
  <2>. HIDE DEF kind
  <2>3. r \in InputRecords /\ GestureStep(io, r, kind)
    <3>1. CASE HasDetectedGesture(g)
      BY <3>1, NoTouchStep
    <3>2. CASE ~HasDetectedGesture(g)
      <4>1. GestureStep(io, GestureStart(io, kind, pos), kind)
        BY <1>1, <2>2, StartFacts
      <4>. QED  BY <3>2, <4>1 DEF GestureStep, TouchStep
    <3>. QED  BY <3>1, <3>2
  <2>. HIDE DEF r
  <2>4. GestureStep(io, io', kind)
    BY <1>1, <2>1, <2>2, <2>3, GestureMoveFacts, GestureStepTwice
  <2>5. kind \in Holding => g'.state \in {{"drag"}, {"longpress"}}
    BY <2>2 DEF Holding
  <2>6. kind = "pinch" => g'.state = {"pinch"}
    BY <2>2
  <2>. QED  BY <1>2, <1>4, <1>5, <2>4, <2>5, <2>6 DEF TouchAction, ForGesture, GestureStep
<1>. QED  BY <1>6, <1>7

LEMMA TouchEndFacts ==
  ASSUME TouchInv, io \in InputRecords, NEW id \in setup.fingers, NEW pos \in setup.positions,
         TouchEnd(id, pos)
  PROVE  TouchAction
<1>. DEFINE t == ReleaseTouch(g, id)
            kind == KindOf(t)
            r == IF t.waiting /\ HasDetectedGesture(t) THEN GestureStart(io, kind, pos) ELSE io
<1>1. id \in Fingers /\ pos \in 0 .. 2 /\ id \in user.fingers
  BY SetupsAssumption DEF TouchInv, SetupRecords, TouchEnd
<1>2. left' = left /\ strayed' = strayed /\ unseen' = unseen
  BY DEF TouchEnd
<1>3. CASE id \in g.ignored
  <2>1. g' = EndIgnored(g, id) /\ io' = io
    BY <1>3 DEF TouchEnd
  <2>2. g.tracked # <<>> => g'.state = g.state /\ g'.tracked # <<>>
    BY <1>1, <1>3, <2>1, EndIgnoredInv DEF TouchInv
  <2>. QED  BY <1>2, <2>1, <2>2, NoTouchStep DEF TouchAction, ForGesture
<1>4. CASE id \notin g.ignored
  <2>1. g.tracked # <<>>
    <3>1. id \in Active(g)
      BY <1>1, <1>4 DEF TouchInv, GestureInv, Touching
    <3>2. PICK u \in Tracked(g) : u.id = id
      BY <3>1 DEF Active
    <3>. QED  BY <3>2, TracksSome DEF TouchInv, GestureInv, GestureRecords, Finger
  <2>2. Released1(g, t, id)
    BY <1>1, <2>1, ReleaseTouchFacts DEF TouchInv
  <2>3. CASE t.waiting /\ ~HasDetectedGesture(t) /\ t.state # {}
    <3>1. g' = t /\ io' = io
      BY <1>4, <2>3 DEF TouchEnd
    <3>. HIDE DEF t
    <3>2. g.state \in {{"drag"}, {"longpress"}} => t.state = g.state /\ t.tracked # <<>>
      BY <2>2 DEF Released1
    <3>. QED  BY <1>2, <3>1, <3>2, NoTouchStep DEF TouchAction, ForGesture
  <2>4. CASE ~(t.waiting /\ ~HasDetectedGesture(t) /\ t.state # {})
    <3>1. io' = IF HasDetectedGesture(t) THEN GestureEnd(r, kind, pos) ELSE io
      BY <1>4, <2>4 DEF TouchEnd
    <3>. HIDE DEF t
    <3>2. ForGesture(io, g) /\ io.mask # {} => ~t.waiting /\ HasDetectedGesture(t) /\ kind \in Holding
      <4>1. ASSUME g.state \in {{"drag"}, {"longpress"}}
            PROVE  ~t.waiting /\ HasDetectedGesture(t) /\ kind \in Holding
        <5>1. t.state \in {{"drag"}, {"longpress"}}
          BY <2>2, <4>1 DEF Released1
        <5>2. t.waiting => t.state \notin {{"drag"}, {"longpress"}}
          BY <2>2 DEF Released1, Holding
        <5>. QED  BY <5>1, <5>2, HoldingIsKnown
      <4>. QED  BY <4>1 DEF ForGesture
    <3>3. HasDetectedGesture(t) => kind \in Kinds /\ (t.waiting => kind \notin Holding)
      <4>1. t.waiting => t.state \notin {{"drag"}, {"longpress"}}
        BY <2>2 DEF Released1, Holding
      <4>. QED  BY <4>1, DetectedFacts, KnownHolding
    <3>. HIDE DEF kind
    <3>4. CASE ~HasDetectedGesture(t)
      <4>1. io' = io
        BY <3>1, <3>4
      <4>2. ForGesture(io, g) => io.mask = {}
        BY <3>2, <3>4
      <4>. QED  BY <1>2, <4>1, <4>2, NoTouchStep DEF TouchAction, ForGesture
    <3>5. CASE HasDetectedGesture(t)
      <4>1. GestureStep(io, r, kind) /\ r.caps = io.caps
        <5>1. CASE t.waiting
          <6>1. r = GestureStart(io, kind, pos)
            BY <3>5, <5>1
          <6>2. GestureStep(io, r, kind) /\ r.caps = io.caps
            BY <1>1, <3>3, <3>5, <6>1, StartFacts
          <6>. QED  BY <6>2
        <5>2. CASE ~t.waiting
          <6>1. r = io
            BY <5>2
          <6>. HIDE DEF r
          <6>. QED  BY <6>1, NoTouchStep
        <5>. QED  BY <5>1, <5>2
      <4>2. io' = GestureEnd(r, kind, pos)
        BY <3>1, <3>5
      <4>3. r.mask # {} => io.mask # {} \/ (t.waiting /\ kind \in Holding)
        <5>1. ~t.waiting => r = io
          OBVIOUS
        <5>. HIDE DEF r
        <5>. QED  BY <4>1, <5>1 DEF GestureStep
      <4>. HIDE DEF r
      <4>4. /\ TouchStep(r, io') /\ io'.caps = r.caps
            /\ io'.mask # {} => r.mask # {} /\ kind \notin Holding
        <5>1. r \in InputRecords /\ kind \in Kinds
          BY <3>3, <3>5, <4>1 DEF GestureStep, TouchStep
        <5>. QED  BY <1>1, <4>2, <5>1, GestureEndFacts
      <4>5. TouchStep(io, io') /\ io'.caps = io.caps
        BY <4>1, <4>4, TouchStepTwice DEF GestureStep
      <4>6. ForGesture(io, g) => io'.mask = {}
        BY <3>2, <3>3, <3>5, <4>3, <4>4
      <4>. QED  BY <1>2, <4>5, <4>6 DEF TouchAction, ForGesture
    <3>. QED  BY <3>4, <3>5
  <2>. QED  BY <2>3, <2>4
<1>. QED  BY <1>3, <1>4

LEMMA LongpressTimeoutFacts ==
  ASSUME TouchInv, io \in InputRecords, NEW pos \in setup.positions, LongpressTimeout(pos)
  PROVE  TouchAction
<1>1. pos \in 0 .. 2 /\ left' = left /\ strayed' = strayed /\ unseen' = unseen
  BY SetupsAssumption DEF TouchInv, SetupRecords, LongpressTimeout
<1>2. ~HasDetectedGesture(g) /\ g.tracked # <<>>
  BY LongpressInv DEF LongpressTimeout, TouchInv
<1>3. /\ g' = [g EXCEPT !.longpress = FALSE, !.state = {"longpress"}]
      /\ io' = GestureStart(io, "longpress", pos)
  BY <1>2 DEF LongpressTimeout
<1>4. g'.state = {"longpress"} /\ g'.tracked = g.tracked
  BY <1>3 DEF TouchInv, GestureInv, GestureRecords
<1>5. GestureStep(io, io', "longpress")
  <2>1. "longpress" \in Kinds
    BY DEF Kinds
  <2>. QED  BY <1>1, <1>3, <2>1, StartFacts
<1>. QED  BY <1>1, <1>2, <1>4, <1>5 DEF TouchAction, GestureStep, ForGesture

LEMMA TwoTouchTimeoutFacts ==
  ASSUME TouchInv, io \in InputRecords, NEW kind \in {"twodrag", "pinch"},
         NEW pos \in setup.positions, NEW scroll \in Scrolls, TwoTouchTimeout(kind, pos, scroll)
  PROVE  TouchAction
<1>. DEFINE r == GestureStart(io, kind, pos)
<1>1. /\ pos \in 0 .. 2 /\ left' = left \cap io'.down /\ strayed' = strayed /\ unseen' = unseen
      /\ kind \in Kinds /\ kind \notin Holding
  BY SetupsAssumption DEF TouchInv, SetupRecords, TwoTouchTimeout, KeepTrack, Kinds, Holding
<1>2. ~HasDetectedGesture(g) /\ g.tracked # <<>>
  BY TwoTouchInv DEF TwoTouchTimeout, TouchInv
<1>3. /\ g' = [g EXCEPT !.twoTouch = FALSE, !.state = {kind}]
      /\ io' = GestureMove(r, kind, pos, scroll)
  BY <1>2 DEF TwoTouchTimeout
<1>4. g'.state = {kind} /\ g'.tracked = g.tracked
  BY <1>3 DEF TouchInv, GestureInv, GestureRecords
<1>5. GestureStep(io, r, kind)
  BY <1>1, StartFacts
<1>. HIDE DEF r
<1>6. GestureStep(io, io', kind)
  <2>1. r \in InputRecords
    BY <1>5 DEF GestureStep, TouchStep
  <2>2. GestureStep(r, io', kind)
    BY <1>1, <1>3, <2>1, GestureMoveFacts
  <2>. QED  BY <1>5, <2>2, GestureStepTwice
<1>7. ForGesture(io, g) => io.mask = {}
  BY <1>2, HoldingIsKnown DEF ForGesture
<1>. QED  BY <1>1, <1>4, <1>6, <1>7 DEF TouchAction, GestureStep, ForGesture

LEMMA TouchFacts ==
  ASSUME TouchInv, io \in InputRecords, Touch
  PROVE  TouchAction
<1>1. ASSUME TouchAges \/ ReleaseAges PROVE TouchAction
  <2>1. io' = io /\ left' = left /\ strayed' = strayed /\ unseen' = unseen
    BY <1>1 DEF TouchAges, ReleaseAges
  <2>2. g'.state = g.state /\ g'.tracked = g.tracked
    BY <1>1 DEF TouchAges, ReleaseAges, TouchInv, GestureInv, GestureRecords
  <2>. QED  BY <2>1, <2>2, NoTouchStep DEF TouchAction, ForGesture
<1>. QED  BY <1>1, TouchStartFacts, TouchMoveFacts, TouchEndFacts, LongpressTimeoutFacts,
              TwoTouchTimeoutFacts DEF Touch

\* A computer without a screen to touch sees no touch events.
LEMMA NoFingerNoTouch ==
  ASSUME TouchInv, setup.fingers = {}, user.fingers = {}
  PROVE  ~Touch
<1>1. GestureInv(g, {})
  BY DEF TouchInv
<1>2. g.tracked = <<>> /\ g.ignored = {}
  BY <1>1 DEF GestureInv, Touching
<1>3. ~g.waiting
  BY <1>1, <1>2 DEF GestureInv, Idle
<1>4. ~g.longpress /\ ~g.twoTouch
  BY <1>1, <1>2, LongpressInv, TwoTouchInv
<1>. QED  BY <1>2, <1>3, <1>4 DEF Touch, LongpressTimeout, TwoTouchTimeout, TouchAges, ReleaseAges


-----------------------------------------------------------------------------
(***************************************************************************)
(* The invariant of the whole, but for the list of keys.                   *)
(***************************************************************************)
InputInv ==
  /\ KeyInv
  /\ MouseInv
  /\ strayed \in BOOLEAN /\ unseen \in BOOLEAN
  /\ setup.buttons = {} => ForGesture(io, g)
  /\ "CapsLock" \notin setup.keys => CapsKnown(io)

\* The keyboard and the switch of the page are not about the mouse.
LEMMA KeyboardLeavesMouse ==
  ASSUME user \in UserRecords, strayed \in BOOLEAN,
         Keyboard \/ (\E on \in BOOLEAN : SetViewOnly(on))
  PROVE  /\ user'.buttons = user.buttons /\ user'.at = user.at /\ unseen' = unseen
         /\ strayed' \in BOOLEAN
<1>1. ASSUME NEW c, PressKey(c) \/ ReleaseKey(c)
      PROVE  /\ user'.buttons = user.buttons /\ user'.at = user.at /\ unseen' = unseen
             /\ strayed' \in BOOLEAN
  <2>1. unseen' = unseen /\ strayed' \in BOOLEAN
    BY <1>1 DEF PressKey, ReleaseKey
  <2>2. ASSUME NEW a, NEW b, NEW d,
               \/ user' = [user EXCEPT !.local = a, !.held = b, !.silent = d]
               \/ user' = [user EXCEPT !.held = b, !.silent = d]
        PROVE  user'.buttons = user.buttons /\ user'.at = user.at
    BY <2>2 DEF UserRecords
  <2>3. \E a, b, d : user' = [user EXCEPT !.local = a, !.held = b, !.silent = d]
                     \/ user' = [user EXCEPT !.held = b, !.silent = d]
    <3>1. CASE PressKey(c)
      BY <3>1, Zenon DEF PressKey
    <3>2. CASE ReleaseKey(c)
      BY <3>2, Zenon DEF ReleaseKey
    <3>. QED  BY <1>1, <3>1, <3>2
  <2>. QED  BY <2>1, <2>2, <2>3
<1>2. ASSUME Blur \/ (\E f \in {"canvas", "page"} : Focus(f)) \/ LockElsewhere
      PROVE  /\ user'.buttons = user.buttons /\ user'.at = user.at /\ unseen' = unseen
             /\ strayed' \in BOOLEAN
  BY <1>2 DEF Blur, Focus, LockElsewhere, UserRecords
<1>3. ASSUME \/ AltGrTimeout \/ HandleLedEvent \/ SendWindowsKey \/ WinKeyUp \/ SendCtrlAltDel
             \/ \E on \in BOOLEAN : SetViewOnly(on)
      PROVE  /\ user'.buttons = user.buttons /\ user'.at = user.at /\ unseen' = unseen
             /\ strayed' \in BOOLEAN
  BY <1>3 DEF AltGrTimeout, HandleLedEvent, SendWindowsKey, WinKeyUp, SendCtrlAltDel, SetViewOnly
<1>. QED  BY <1>1, <1>2, <1>3 DEF Keyboard

\* What a step of either keeps, in the next state.
LEMMA InvNext ==
  ASSUME setup' = setup, io' \in InputRecords, Shape(io'), HeldBy(io', left'),
         left' \subseteq Keysyms \cup Codes \cup {"AltLeft"}, Synced(io'),
         strayed' \in BOOLEAN, unseen' \in BOOLEAN,
         setup.buttons = {} => ForGesture(io', g'),
         "CapsLock" \notin setup.keys => CapsKnown(io'),
         setup.fingers = {} =>
           /\ user'.fingers = {}
           /\ ~unseen' => io'.mask \subseteq user'.buttons
           /\ user'.at # 0 => Arrives(io', user'.at)
  PROVE  InputInv'
<1>1. KeyInv'
  <2>1. Shape(io)' /\ HeldBy(io, left)'
    BY DEF Shape, Windows, Mac, HeldBy, Holders, KeyId
  <2>. QED  BY <2>1 DEF KeyInv
<1>2. MouseInv'
  BY DEF MouseInv, MouseOnly, Synced, Arrives
<1>. QED  BY <1>1, <1>2 DEF InputInv, ForGesture, CapsKnown

LEMMA KeyboardKeepsInv ==
  ASSUME TouchInv, InputInv, setup' = setup, Keyboard \/ (\E on \in BOOLEAN : SetViewOnly(on)),
         user' \in UserRecords
  PROVE  InputInv' /\ ("CapsLock" \notin setup.keys => Follows(io, io', user'.local))
<1>1. /\ user'.buttons = user.buttons /\ user'.at = user.at /\ unseen' = unseen
      /\ strayed' \in BOOLEAN /\ g' = g /\ user'.fingers = user.fingers
  BY KeyboardLeavesMouse, OthersLeaveTouches DEF TouchInv, InputInv
<1>2. /\ io' \in InputRecords /\ SamePointer(io, io') /\ Shape(io') /\ HeldBy(io', left')
      /\ left' \subseteq Keysyms \cup Codes \cup {"AltLeft"}
      /\ "CapsLock" \notin setup.keys => Follows(io, io', user'.local)
  <2>1. CASE Keyboard
    BY <2>1, KeyboardFacts DEF TouchInv, InputInv, KeyInv, KeyboardStep
  <2>2. ASSUME NEW on \in BOOLEAN, SetViewOnly(on)
        PROVE  SwitchStep
    BY <2>2, SetViewOnlyFacts DEF InputInv
  <2>. QED  BY <2>1, <2>2 DEF SwitchStep
<1>3. Synced(io') /\ (setup.buttons = {} => ForGesture(io', g'))
  BY <1>1, <1>2 DEF InputInv, MouseInv, Synced, SamePointer, ForGesture
<1>4. "CapsLock" \notin setup.keys => CapsKnown(io')
  BY <1>2 DEF InputInv, Follows
<1>5. setup.fingers = {} =>
        /\ user'.fingers = {}
        /\ ~unseen' => io'.mask \subseteq user'.buttons
        /\ user'.at # 0 => Arrives(io', user'.at)
  BY <1>1, <1>2 DEF InputInv, MouseInv, MouseOnly, Arrives, SamePointer
<1>6. unseen' \in BOOLEAN
  BY <1>1 DEF InputInv
<1>. QED  BY <1>1, <1>2, <1>3, <1>4, <1>5, <1>6, InvNext

LEMMA MouseKeepsInv ==
  ASSUME TouchInv, InputInv, setup' = setup, Mouse
  PROVE  InputInv' /\ io'.caps = io.caps
<1>1. user'.fingers = user.fingers /\ MouseStep
  BY OthersLeaveTouches, MouseFacts DEF TouchInv, InputInv
<1>2. /\ io' \in InputRecords /\ SameKeys(io, io') /\ Synced(io') /\ left' = left
      /\ strayed' \in BOOLEAN /\ unseen' \in BOOLEAN
  BY <1>1 DEF MouseStep, PointerStep, InputInv
<1>3. Shape(io') /\ HeldBy(io', left') /\ left' \subseteq Keysyms \cup Codes \cup {"AltLeft"}
  BY <1>2 DEF InputInv, KeyInv, SameKeys, Shape, HeldBy, Holders
<1>4. setup.buttons = {} => ForGesture(io', g')
  BY <1>1 DEF InputInv, MouseStep, ForGesture
<1>5. "CapsLock" \notin setup.keys => CapsKnown(io')
  BY <1>2 DEF InputInv, CapsKnown, SameKeys
<1>6. setup.fingers = {} =>
        /\ user'.fingers = {}
        /\ ~unseen' => io'.mask \subseteq user'.buttons
        /\ user'.at # 0 => Arrives(io', user'.at)
  BY <1>1 DEF InputInv, MouseInv, MouseOnly, MouseStep
<1>7. InputInv'
  BY <1>2, <1>3, <1>4, <1>5, <1>6, InvNext
<1>. QED  BY <1>2, <1>7 DEF SameKeys

LEMMA TouchKeepsInputInv ==
  ASSUME TouchInv, InputInv, setup' = setup, Touch
  PROVE  InputInv' /\ (io'.caps = io.caps \/ g'.state = {"pinch"})
<1>1. TouchAction
  BY TouchFacts DEF InputInv, KeyInv
<1>2. setup.fingers # {}
  BY NoFingerNoTouch DEF InputInv, MouseInv, MouseOnly
<1>3. /\ io' \in InputRecords /\ io'.viewOnly = io.viewOnly /\ io'.list = io.list
      /\ io'.armed = io.armed /\ io'.wins = io.wins /\ io'.down \subseteq io.down
      /\ Follows(io, io', "undefined") /\ Synced(io')
  BY <1>1 DEF TouchAction, TouchStep, InputInv, MouseInv
<1>4. Shape(io') /\ HeldBy(io', left)
  BY <1>3 DEF InputInv, KeyInv, Shape, HeldBy, Holders
<1>5. HeldBy(io', left') /\ left' \subseteq Keysyms \cup Codes \cup {"AltLeft"}
  BY <1>1, <1>4, HeldByLess DEF TouchAction, InputInv, KeyInv
<1>6. "CapsLock" \notin setup.keys => CapsKnown(io')
  BY <1>3 DEF InputInv, Follows
<1>7. /\ strayed' \in BOOLEAN /\ unseen' \in BOOLEAN
      /\ setup.buttons = {} => ForGesture(io', g')
  BY <1>1 DEF InputInv, TouchAction
<1>8. InputInv'
  BY <1>2, <1>3, <1>4, <1>5, <1>6, <1>7, InvNext
<1>. QED  BY <1>1, <1>8 DEF TouchAction

LEMMA InputInvStep ==
  ASSUME TouchInv, InputInv, [Next]_vars
  PROVE  /\ InputInv'
         /\ io'.caps # io.caps /\ "CapsLock" \notin setup.keys =>
              io'.caps = user'.local \/ g'.state = {"pinch"}
<1>1. setup' = setup /\ user' \in UserRecords
  BY UserTypes DEF TouchInv
<1>2. CASE Keyboard \/ (\E on \in BOOLEAN : SetViewOnly(on))
  <2>1. InputInv' /\ ("CapsLock" \notin setup.keys => Follows(io, io', user'.local))
    BY <1>1, <1>2, KeyboardKeepsInv
  <2>2. user'.local # "undefined"
    BY <1>1 DEF UserRecords
  <2>. QED  BY <2>1, <2>2 DEF Follows, InputInv
<1>3. CASE Mouse
  BY <1>1, <1>3, MouseKeepsInv
<1>4. CASE Touch
  BY <1>1, <1>4, TouchKeepsInputInv
<1>5. CASE UNCHANGED vars
  <2>1. InputInv'
    BY <1>5 DEF vars, InputInv, KeyInv, MouseInv, MouseOnly, Shape, Windows, Mac, HeldBy, Holders,
                KeyId, Synced, Arrives, ForGesture, CapsKnown
  <2>. QED  BY <1>5, <2>1 DEF vars
<1>. QED  BY <1>2, <1>3, <1>4, <1>5 DEF Next

LEMMA InputInvInit ==
  ASSUME Init
  PROVE  InputInv
<1>1. setup \in SetupRecords /\ {c \in Codes : io.list[c] # Up} = {}
  BY SetupsAssumption DEF Init
<1>2. io \in InputRecords
  <2>1. io.reports \in Seq({"on", "off"}) /\ 0 \in 0 .. MaxWins
    <3>1. <<"off">> \in Seq({"on", "off"}) /\ <<>> \in Seq({"on", "off"})
      BY EmptySeq
    <3>2. io.reports = <<"off">> \/ io.reports = <<>>
      BY DEF Init
    <3>3. io.reports \in Seq({"on", "off"})
      BY <3>1, <3>2, Zenon
    <3>4. 0 \in 0 .. MaxWins
      BY InputBounds
    <3>. QED  BY <3>3, <3>4
  <2>2. [c \in Codes |-> Up] \in [Codes -> Keysyms \cup {Up}]
    OBVIOUS
  <2>. QED  BY <1>1, <2>1, <2>2 DEF Init, InputRecords, SetupRecords
<1>3. /\ \A c \in Codes : io.list[c] = Up
      /\ ~io.armed /\ io.known = "null" /\ io.mask = {} /\ ~io.timer /\ io.down = {}
      /\ io.buttons = {} /\ io.caps = "off" /\ user.at = 0 /\ user.fingers = {}
      /\ io.reports = (IF setup.leds THEN <<"off">> ELSE <<>>)
      /\ left = {} /\ strayed = FALSE /\ unseen = FALSE
  BY DEF Init
<1>4. Shape(io) /\ HeldBy(io, left)
  BY <1>3, CodeNames DEF Shape, HeldBy
<1>5. MouseOnly /\ Synced(io) /\ ForGesture(io, g)
  BY <1>3 DEF MouseOnly, Synced, ForGesture
<1>6. CapsKnown(io)
  BY <1>3, UpIsNoKeysym DEF CapsKnown, Keysyms
<1>. QED  BY <1>2, <1>3, <1>4, <1>5, <1>6 DEF InputInv, KeyInv, MouseInv

LEMMA InputInvHolds == Spec => []InputInv
BY InputInvInit, InputInvStep, TouchInvHolds, PTL DEF Spec


(* The types of the variables. *)
THEOREM InputTypeCorrect == Spec => []TypeOK
<1>1. TouchInv /\ InputInv => TypeOK
  BY DEF TouchInv, GestureInv, InputInv, KeyInv, TypeOK
<1>. QED  BY <1>1, TouchInvHolds, InputInvHolds, PTL

(***************************************************************************)
(* Every key the kiosk holds down has something that will release it, or   *)
(* was down when view-only was switched on (keyboard.js, rfb.js sendKey).  *)
(***************************************************************************)
THEOREM KeysAlwaysHaveHolder == Spec => []KeysHaveHolder
<1>1. InputInv => KeysHaveHolder
  BY DEF InputInv, KeyInv, HeldBy, Holders, KeysHaveHolder
<1>. QED  BY <1>1, InputInvHolds, PTL

(***************************************************************************)
(* The kiosk's buttons are those the user holds, or that a gesture stands  *)
(* for (rfb.js _handleMouse, gesturehandler.js, events.js).                *)
(***************************************************************************)
THEOREM ButtonsStayHeld == Spec => []ButtonsAreHeld
<1>1. TouchInv /\ InputInv => ButtonsAreHeld
  <2>. SUFFICES ASSUME TouchInv, InputInv, io.buttons # {}, ~io.muted, ~unseen
                PROVE  IF setup.fingers = {} THEN io.buttons \subseteq user.buttons
                       ELSE setup.buttons = {} =>
                              /\ g.state \in {{"drag"}, {"longpress"}}
                              /\ Active(g) \cap user.fingers # {}
    BY DEF ButtonsAreHeld
  <2>1. io.buttons = io.mask
    BY DEF InputInv, MouseInv, Synced
  <2>2. setup.fingers = {} => io.buttons \subseteq user.buttons
    BY <2>1 DEF InputInv, MouseInv, MouseOnly
  <2>3. setup.buttons = {} => g.state \in {{"drag"}, {"longpress"}} /\ g.tracked # <<>>
    BY <2>1 DEF InputInv, ForGesture
  <2>4. g.tracked # <<>> => Active(g) \cap user.fingers # {}
    BY DEF TouchInv, GestureInv, Touching
  <2>. QED  BY <2>2, <2>3, <2>4
<1>. QED  BY <1>1, TouchInvHolds, InputInvHolds, PTL

(***************************************************************************)
(* When no move waits for the timer the kiosk's pointer is where the       *)
(* user's is (rfb.js _handleMouseMove).                                    *)
(***************************************************************************)
THEOREM PointerKeepsUp == Spec => []PointerArrives
<1>1. InputInv => PointerArrives
  BY DEF InputInv, MouseInv, MouseOnly, Arrives, PointerArrives
<1>. QED  BY <1>1, InputInvHolds, PTL

(***************************************************************************)
(* The kiosk's lock follows the user's, but for a pinch (rfb.js            *)
(* _handleKeyEvent).                                                       *)
(***************************************************************************)
THEOREM LockKeepsFollowing == Spec => LockFollows
<1>1. TouchInv /\ InputInv /\ [Next]_vars =>
        [io'.caps # io.caps /\ "CapsLock" \notin setup.keys =>
           io'.caps = user'.local \/ g'.state = {"pinch"}]_vars
  BY InputInvStep
<1>. QED  BY <1>1, TouchInvHolds, InputInvHolds, PTL DEF Spec, LockFollows


-----------------------------------------------------------------------------
(***************************************************************************)
(* The list of keys: each entry stands for a key the user holds, or for    *)
(* what Windows makes of one - unless a key was let go of while the page   *)
(* had the focus.                                                          *)
(***************************************************************************)
Holder(c, held) ==
  \/ \E k \in held \cap PhysicalKeys : CodeFor(k) = c
  \/ c = "ControlLeft" /\ "AltGrControl" \in held
  \/ Windows /\ c \in Shifts /\ held \cap Shifts # {}

HeldList(r, held) ==
  /\ r.armed => {"ControlLeft", "AltGrControl"} \cap held # {}
  /\ \A c \in Codes : r.list[c] # Up => Holder(c, held)

\* Nobody listens, or the keys have no names.
Quiet(r, u) == r.viewOnly \/ u.focus = "away" \/ ~Named => AllUp(r)

\* A key whose release will not be reported is not in the list.
SilentUp(r, u) ==
  /\ "AltGrControl" \in u.held => Windows
  /\ Windows => u.silent \subseteq {"Lang"}
  /\ Windows /\ setup.reporting # "legacy" => r.list["Lang"] = Up
  /\ \A k \in u.silent : r.list[CodeFor(k)] = Up

ListInv(r, u, st) == Quiet(r, u) /\ SilentUp(r, u) /\ (~st => HeldList(r, u.held))

\* Of an old browser a Japanese key of Windows has no name and is listed, and
\* Windows never reports its release.
NamedLang ==
  \A s \in Setups :
    ~(s.platform = "windows" /\ s.reporting = "legacy" /\ "Lang" \in s.keys)

LEMMA CodeForFacts ==
  ASSUME NEW k \in PhysicalKeys
  PROVE  /\ CodeFor(k) \in Codes /\ CodeFor(k) # "Unidentified"
         /\ \A c \in PhysicalKeys : CodeFor(c) = CodeFor(k) => c = k
         /\ k # "KeyA" => CodeFor(k) = k
         /\ CodeFor(k) \in {"ControlLeft", "Lang", "MetaLeft", "CapsLock"} \cup Shifts => k = CodeFor(k)
BY DEF CodeFor, PhysicalKeys, Codes, Shifts

LEMMA KeysOfSetup ==
  ASSUME setup \in Setups, NEW c \in setup.keys
  PROVE  c \in PhysicalKeys
BY SetupsAssumption DEF SetupRecords

\* What a keydown and a keyup of the key c do to the list.
Enters(r, s, c) ==
  \A d \in Codes : s.list[d] # Up =>
    r.list[d] # Up \/ d = CodeFor(c) \/ (d = "ControlLeft" /\ r.armed)

DownList(r, s, c, meta) ==
  /\ Shape(s) /\ s \in InputRecords /\ s.viewOnly = r.viewOnly
  /\ IF Named THEN /\ Enters(r, s, c) /\ (s.armed => c = "ControlLeft")
                   /\ Mac /\ meta /\ c # "MetaLeft" => s.list[CodeFor(c)] = Up
                   /\ Windows /\ c = "Lang" /\ setup.reporting # "legacy" /\ r.list["Lang"] = Up =>
                        s.list["Lang"] = Up
     ELSE AllUp(r) => AllUp(s)

LEMMA DownListFacts ==
  ASSUME NEW r \in InputRecords, Shape(r), NEW c \in PhysicalKeys, NEW e, EventOf(e, c),
         NEW quick \in BOOLEAN, NEW meta \in BOOLEAN, NEW lock \in Locks
  PROVE  DownList(r, HandleKeyDown(r, e, quick, meta, lock), c, meta)
<1>. DEFINE s == HandleKeyDown(r, e, quick, meta, lock)
<1>1. /\ KeyStep(r, s) /\ Shape(s)
      /\ Listed(r, s, CodeOf(e)) /\ ArmedBy(s, CodeOf(e)) /\ FakesRelease(r, s, e, meta)
  BY KeyDownFacts DEF EventOf
<1>. HIDE DEF s
<1>2. CASE Named
  <2>1. CodeOf(e) = CodeFor(c)
    BY <1>2 DEF EventOf
  <2>2. Enters(r, s, c) /\ (s.armed => c = "ControlLeft")
    BY <1>1, <2>1, CodeForFacts DEF Listed, ArmedBy, Enters
  <2>3. Mac /\ meta /\ c # "MetaLeft" => s.list[CodeFor(c)] = Up
    <3>1. c # "MetaLeft" => CodeFor(c) # "MetaLeft"
      BY CodeForFacts
    <3>. QED  BY <1>1, <2>1, <3>1 DEF FakesRelease
  <2>4. Windows /\ c = "Lang" /\ setup.reporting # "legacy" /\ r.list["Lang"] = Up =>
          s.list["Lang"] = Up
    <3>1. c = "Lang" => CodeOf(e) = "Lang"
      BY <2>1, CodeForFacts
    <3>. QED  BY <1>1, <3>1 DEF FakesRelease, EventOf
  <2>5. DownList(r, s, c, meta)
    BY <1>1, <1>2, <2>2, <2>3, <2>4 DEF DownList, KeyStep
  <2>. QED  BY <2>5 DEF s
<1>3. CASE ~Named
  <2>1. CodeOf(e) = "Unidentified"
    BY <1>3 DEF EventOf
  <2>2. AllUp(r) => AllUp(s)
    BY <1>1, <2>1 DEF Listed, ArmedBy, AllUp, Shape
  <2>3. DownList(r, s, c, meta)
    BY <1>1, <1>3, <2>2 DEF DownList, KeyStep
  <2>. QED  BY <2>3 DEF s
<1>. QED  BY <1>2, <1>3

UpList(r, s, c) ==
  /\ Shape(s) /\ s \in InputRecords /\ s.viewOnly = r.viewOnly /\ ~s.armed
  /\ IF Named THEN /\ Enters(r, s, c) /\ s.list[CodeFor(c)] = Up
                   /\ Windows /\ c \in Shifts => \A d \in Shifts : s.list[d] = Up
     ELSE AllUp(r) => AllUp(s)

LEMMA UpListFacts ==
  ASSUME NEW r \in InputRecords, Shape(r), NEW c \in PhysicalKeys, NEW e, EventOf(e, c)
  PROVE  UpList(r, HandleKeyUp(r, e), c)
<1>. DEFINE s == HandleKeyUp(r, e)
<1>1. /\ KeyStep(r, s) /\ Shape(s) /\ Listed(r, s, CodeOf(e))
      /\ ~s.armed /\ s.list[CodeOf(e)] = Up
      /\ Windows /\ CodeOf(e) \in Shifts => \A d \in Shifts : s.list[d] = Up
  BY KeyUpFacts DEF EventOf
<1>. HIDE DEF s
<1>2. CASE Named
  <2>1. CodeOf(e) = CodeFor(c)
    BY <1>2 DEF EventOf
  <2>2. Enters(r, s, c) /\ s.list[CodeFor(c)] = Up
    BY <1>1, <2>1 DEF Listed, Enters
  <2>3. c \in Shifts => CodeFor(c) \in Shifts
    BY CodeForFacts DEF Shifts
  <2>4. UpList(r, s, c)
    BY <1>1, <1>2, <2>1, <2>2, <2>3 DEF UpList, KeyStep
  <2>. QED  BY <2>4 DEF s
<1>3. CASE ~Named
  <2>1. CodeOf(e) = "Unidentified"
    BY <1>3 DEF EventOf
  <2>2. AllUp(r) => AllUp(s)
    BY <1>1, <2>1 DEF Listed, AllUp
  <2>3. UpList(r, s, c)
    BY <1>1, <1>3, <2>2 DEF UpList, KeyStep
  <2>. QED  BY <2>3 DEF s
<1>. QED  BY <1>2, <1>3

\* An empty list needs no holder.
LEMMA AllUpInv ==
  ASSUME NEW r, AllUp(r), NEW u, "AltGrControl" \in u.held => Windows,
         Windows => u.silent \subseteq {"Lang"}, u.silent \subseteq PhysicalKeys, NEW st
  PROVE  ListInv(r, u, st)
BY CodeForFacts, CodeNames DEF ListInv, Quiet, SilentUp, HeldList, AllUp

\* What the user holds after the keyboard's events.
LEMMA PressKeyUser ==
  ASSUME user \in UserRecords, NEW c, PressKey(c)
  PROVE  /\ user'.focus = "canvas" /\ user.focus = "canvas" /\ user'.local \in {"on", "off"}
         /\ user'.held = IF Mac /\ c = "CapsLock" THEN user.held
                         ELSE user.held \cup {c}
                                \cup (IF /\ Windows /\ c = "AltRight"
                                         /\ "ControlLeft" \notin user.held
                                      THEN {"AltGrControl"} ELSE {})
         /\ user'.silent = IF /\ \/ Mac /\ c # "MetaLeft" /\ "MetaLeft" \in user.held
                                 \/ Windows /\ c = "Lang"
                              /\ ~(Mac /\ c = "CapsLock")
                           THEN user.silent \cup {c} ELSE user.silent \ {c}
         /\ strayed' = strayed
<1>. DEFINE again == c \in user.held
            fake == Windows /\ c = "AltRight" /\ "ControlLeft" \notin user.held
            mute == (Mac /\ c # "MetaLeft" /\ "MetaLeft" \in user.held)
                      \/ (Windows /\ c = "Lang")
            toggles == Mac /\ c = "CapsLock"
            local == IF c # "CapsLock" \/ again THEN user.local
                     ELSE IF user.local = "on" THEN "off" ELSE "on"
            held == IF toggles THEN user.held
                    ELSE user.held \cup {c} \cup (IF fake THEN {"AltGrControl"} ELSE {})
            silent == IF mute /\ ~toggles THEN user.silent \cup {c} ELSE user.silent \ {c}
<1>1. user' = [user EXCEPT !.local = local, !.held = held, !.silent = silent]
  BY DEF PressKey
<1>2. local \in {"on", "off"}
  BY DEF UserRecords
<1>3. user.focus = "canvas" /\ strayed' = strayed
  BY DEF PressKey
<1>4. user'.focus = "canvas" /\ user'.local = local /\ user'.held = held /\ user'.silent = silent
  <2>. HIDE DEF held, silent, local
  <2>. QED  BY <1>1, <1>3 DEF UserRecords
<1>. HIDE DEF local
<1>. QED  BY <1>2, <1>3, <1>4

LEMMA ReleaseKeyUser ==
  ASSUME user \in UserRecords, NEW c, ReleaseKey(c)
  PROVE  /\ c \in user.held /\ user'.focus = user.focus
         /\ user'.held = user.held \ ({c} \cup (IF c = "AltRight" /\ "AltGrControl" \in user.held
                                                THEN {"AltGrControl"} ELSE {}))
         /\ user'.silent = user.silent \ {c}
         /\ strayed' = (strayed \/ (user.focus = "page" /\ ~io.viewOnly))
<1>. DEFINE fake == c = "AltRight" /\ "AltGrControl" \in user.held
            held == user.held \ ({c} \cup (IF fake THEN {"AltGrControl"} ELSE {}))
            silent == user.silent \ {c}
<1>1. user' = [user EXCEPT !.held = held, !.silent = silent]
  BY DEF ReleaseKey
<1>2. user'.focus = user.focus /\ user'.held = held /\ user'.silent = silent
  <2>. HIDE DEF held, silent
  <2>. QED  BY <1>1 DEF UserRecords
<1>. QED  BY <1>2 DEF ReleaseKey


\* More keys are held, and no more are silent.
LEMMA HeldMore ==
  ASSUME NEW r, NEW h, NEW k, HeldList(r, h), h \subseteq k
  PROVE  HeldList(r, k)
BY DEF HeldList, Holder

\* An event of the key c, or of the fake Control key before it, lets in only
\* what is then held.
LEMMA EntersHeld ==
  ASSUME NEW r, NEW s, NEW c \in PhysicalKeys, Enters(r, s, c), NEW h, NEW k, HeldList(r, h),
         h \subseteq k, CodeFor(c) \in Codes /\ s.list[CodeFor(c)] # Up => c \in k,
         s.armed => "ControlLeft" \in k
  PROVE  HeldList(s, k)
<1>1. ASSUME NEW d \in Codes, s.list[d] # Up PROVE Holder(d, k)
  <2>1. r.list[d] # Up => Holder(d, k)
    BY DEF HeldList, Holder
  <2>2. d = CodeFor(c) => Holder(d, k)
    BY <1>1 DEF Holder
  <2>3. d = "ControlLeft" /\ r.armed => Holder(d, k)
    <3>1. CodeFor("ControlLeft") = "ControlLeft" /\ "ControlLeft" \in PhysicalKeys
      BY DEF CodeFor, PhysicalKeys
    <3>. QED  BY <3>1 DEF HeldList, Holder
  <2>. QED  BY <1>1, <2>1, <2>2, <2>3 DEF Enters
<1>. QED  BY <1>1 DEF HeldList

\* ... and lists no key that is silent, if it is not its own.
LEMMA EntersSilent ==
  ASSUME NEW r, Shape(r), NEW s, NEW c \in PhysicalKeys, Enters(r, s, c),
         NEW k \in PhysicalKeys, r.list[CodeFor(k)] = Up, Windows => k = "Lang",
         k # c \/ s.list[CodeFor(c)] = Up
  PROVE  s.list[CodeFor(k)] = Up
<1>1. CodeFor(k) \in Codes /\ (k # c => CodeFor(k) # CodeFor(c))
  BY CodeForFacts
<1>2. r.armed => CodeFor(k) # "ControlLeft"
  <2>1. CodeFor("Lang") # "ControlLeft"
    BY DEF CodeFor
  <2>. QED  BY <2>1 DEF Shape
<1>. QED  BY <1>1, <1>2 DEF Enters

\* The event of a key that is pressed, while the keyboard is listened to.
LEMMA PressKeyEvent ==
  ASSUME user \in UserRecords, NEW c, PressKey(c), Listening
  PROVE  LET fake == Windows /\ c = "AltRight" /\ "ControlLeft" \notin user.held
             meta == "MetaLeft" \in user.held \/ c = "MetaLeft"
             toggles == Mac /\ c = "CapsLock"
             lock == user'.local
             r == IF fake THEN HandleKeyDown(io, FakeControl, FALSE, FALSE, lock) ELSE io
         IN  \E e \in EventsOf(c), quick \in BOOLEAN :
               io' = IF toggles /\ lock = "off" THEN HandleKeyUp(io, e)
                     ELSE HandleKeyDown(r, e, fake \/ quick, meta, lock)
<1>. DEFINE again == c \in user.held
            fake == Windows /\ c = "AltRight" /\ "ControlLeft" \notin user.held
            meta == "MetaLeft" \in user.held \/ c = "MetaLeft"
            toggles == Mac /\ c = "CapsLock"
            local == IF c # "CapsLock" \/ again THEN user.local
                     ELSE IF user.local = "on" THEN "off" ELSE "on"
            r(lock) == IF fake THEN HandleKeyDown(io, FakeControl, FALSE, FALSE, lock) ELSE io
<1>1. user'.local = local
  <2>1. \E h, m : user' = [user EXCEPT !.local = local, !.held = h, !.silent = m]
    BY Zenon DEF PressKey
  <2>. HIDE DEF local
  <2>. QED  BY <2>1 DEF UserRecords
<1>2. \E e \in EventsOf(c), quick \in BOOLEAN :
        io' = IF toggles /\ local = "off" THEN HandleKeyUp(io, e)
              ELSE HandleKeyDown(r(local), e, fake \/ quick, meta, local)
  BY Zenon DEF PressKey
<1>. HIDE DEF local
<1>. QED  BY <1>1, <1>2, Zenon

LEMMA PressKeyList ==
  ASSUME setup \in Setups, user \in UserRecords, user' \in UserRecords, KeyInv, NamedLang,
         ListInv(io, user, strayed), NEW c \in setup.keys, PressKey(c)
  PROVE  ListInv(io', user', strayed')
<1>. DEFINE fake == Windows /\ c = "AltRight" /\ "ControlLeft" \notin user.held
            meta == "MetaLeft" \in user.held \/ c = "MetaLeft"
            mute == (Mac /\ c # "MetaLeft" /\ "MetaLeft" \in user.held) \/ (Windows /\ c = "Lang")
            toggles == Mac /\ c = "CapsLock"
            lock == user'.local
            r == IF fake THEN HandleKeyDown(io, FakeControl, FALSE, FALSE, lock) ELSE io
<1>1. /\ c \in PhysicalKeys /\ io \in InputRecords /\ Shape(io)
      /\ user.silent \subseteq PhysicalKeys /\ user'.silent \subseteq PhysicalKeys
  BY KeysOfSetup DEF KeyInv, UserRecords
<1>2. /\ user'.focus = "canvas" /\ user.focus = "canvas" /\ lock \in Locks
      /\ user'.held = IF toggles THEN user.held
                      ELSE user.held \cup {c} \cup (IF fake THEN {"AltGrControl"} ELSE {})
      /\ user'.silent = IF mute /\ ~toggles THEN user.silent \cup {c} ELSE user.silent \ {c}
      /\ strayed' = strayed
  BY PressKeyUser DEF Locks
<1>3. /\ "AltGrControl" \in user'.held => Windows
      /\ Windows => user'.silent \subseteq {"Lang"}
  <2>1. "AltGrControl" \in user.held => Windows
    BY DEF ListInv, SilentUp
  <2>2. Windows => user.silent \subseteq {"Lang"}
    BY DEF ListInv, SilentUp
  <2>3. c # "AltGrControl"
    BY <1>1 DEF PhysicalKeys
  <2>4. ~(Windows /\ Mac)
    BY DEF Windows, Mac
  <2>. QED  BY <1>2, <2>1, <2>2, <2>3, <2>4
<1>4. mute /\ Windows => c = "Lang" /\ setup.reporting # "legacy"
  BY DEF Windows, Mac, NamedLang
<1>5. CASE ~Listening
  <2>1. io' = io
    BY <1>5 DEF PressKey
  <2>2. AllUp(io)
    BY <1>2, <1>5 DEF Listening, ListInv, Quiet
  <2>. QED  BY <1>1, <1>3, <2>1, <2>2, AllUpInv
<1>6. CASE Listening /\ ~Named
  <2>1. AllUp(io)
    BY <1>6 DEF ListInv, Quiet
  <2>2. PICK e \in EventsOf(c), quick \in BOOLEAN :
          io' = IF toggles /\ lock = "off" THEN HandleKeyUp(io, e)
                ELSE HandleKeyDown(r, e, fake \/ quick, meta, lock)
    BY <1>6, PressKeyEvent
  <2>3. EventOf(e, c)
    BY <1>1, EventFacts
  <2>4. AllUp(r) /\ r \in InputRecords /\ Shape(r)
    <3>1. "ControlLeft" \in PhysicalKeys
      BY DEF PhysicalKeys
    <3>2. DownList(io, HandleKeyDown(io, FakeControl, FALSE, FALSE, lock), "ControlLeft", FALSE)
      BY <1>1, <1>2, <3>1, DownListFacts, FakeControlFacts
    <3>. HIDE DEF lock
    <3>. QED  BY <1>1, <1>6, <2>1, <3>2 DEF DownList
  <2>5. AllUp(io')
    <3>1. CASE toggles /\ lock = "off"
      <4>1. io' = HandleKeyUp(io, e)
        BY <2>2, <3>1
      <4>2. UpList(io, io', c)
        BY <1>1, <2>3, <4>1, UpListFacts
      <4>. QED  BY <1>6, <2>1, <4>2 DEF UpList
    <3>2. CASE ~(toggles /\ lock = "off")
      <4>. DEFINE q == fake \/ quick
      <4>1. io' = HandleKeyDown(r, e, q, meta, lock)
        BY <2>2, <3>2
      <4>2. q \in BOOLEAN /\ meta \in BOOLEAN
        OBVIOUS
      <4>. HIDE DEF r, lock, fake, meta, q
      <4>4. DownList(r, HandleKeyDown(r, e, q, meta, lock), c, meta)
        BY <1>1, <1>2, <2>3, <2>4, <4>2, DownListFacts
      <4>3. DownList(r, io', c, meta)
        BY <4>1, <4>4
      <4>. QED  BY <1>6, <2>4, <4>3 DEF DownList
    <3>. QED  BY <3>1, <3>2
  <2>. QED  BY <1>1, <1>3, <2>5, AllUpInv
<1>7. CASE Listening /\ Named
  <2>1. PICK e \in EventsOf(c), quick \in BOOLEAN :
          io' = IF toggles /\ lock = "off" THEN HandleKeyUp(io, e)
                ELSE HandleKeyDown(r, e, fake \/ quick, meta, lock)
    BY <1>7, PressKeyEvent
  <2>2. EventOf(e, c) /\ "ControlLeft" \in PhysicalKeys
    BY <1>1, EventFacts DEF PhysicalKeys
  \* The fake Control key.
  <2>3. /\ r \in InputRecords /\ Shape(r) /\ r.viewOnly = io.viewOnly
        /\ fake => Enters(io, r, "ControlLeft")
        /\ ~fake => r = io
    <3>1. DownList(io, HandleKeyDown(io, FakeControl, FALSE, FALSE, lock), "ControlLeft", FALSE)
      BY <1>1, <1>2, <2>2, DownListFacts, FakeControlFacts
    <3>. HIDE DEF lock
    <3>. QED  BY <1>1, <1>7, <3>1 DEF DownList
  <2>. HIDE DEF r
  <2>4. io'.viewOnly = io.viewOnly /\ Shape(io') /\ (Enters(io, io', c) \/ Enters(r, io', c))
        /\ (Mac /\ c = "CapsLock" => io'.list["CapsLock"] = Up)
        /\ (io'.armed => c = "ControlLeft" /\ ~toggles)
        /\ (~(toggles /\ lock = "off") => DownList(r, io', c, meta))
        /\ (toggles => r = io)
    <3>1. toggles => ~fake
      OBVIOUS
    <3>2. CASE toggles /\ lock = "off"
      <4>1. UpList(io, io', c)
        BY <1>1, <2>1, <2>2, <3>2, UpListFacts
      <4>. QED  BY <1>7, <2>3, <3>1, <3>2, <4>1 DEF UpList, Shape
    <3>3. CASE ~(toggles /\ lock = "off")
      <4>. DEFINE q == fake \/ quick
      <4>1. io' = HandleKeyDown(r, e, q, meta, lock)
        BY <2>1, <3>3
      <4>2. q \in BOOLEAN /\ meta \in BOOLEAN
        OBVIOUS
      <4>4. DownList(r, HandleKeyDown(r, e, q, meta, lock), c, meta)
        <5>. HIDE DEF lock, fake, meta, q
        <5>. QED  BY <1>1, <1>2, <2>2, <2>3, <4>2, DownListFacts
      <4>3. DownList(r, io', c, meta)
        BY <4>1, <4>4
      <4>. QED  BY <1>7, <2>3, <3>1, <3>3, <4>3 DEF DownList, Shape
    <3>. QED  BY <3>2, <3>3
  <2>5. Quiet(io', user')
    BY <1>2, <1>7, <2>4 DEF Quiet, Listening
  <2>6. ~strayed => HeldList(io', user'.held)
    <3>. SUFFICES ASSUME ~strayed PROVE HeldList(io', user'.held)
      OBVIOUS
    <3>1. HeldList(io, user.held) /\ user.held \subseteq user'.held
      BY <1>2 DEF ListInv
    <3>2. fake => "AltGrControl" \in user'.held /\ c \in user'.held
      <4>1. fake => ~toggles
        OBVIOUS
      <4>. QED  BY <1>2, <4>1
    <3>3. HeldList(r, user'.held)
      <4>1. CASE fake
        <5>1. ASSUME NEW d \in Codes, r.list[d] # Up PROVE Holder(d, user'.held)
          <6>1. io.list[d] # Up \/ d = "ControlLeft"
            BY <2>3, <4>1, <5>1 DEF Enters, CodeFor
          <6>2. io.list[d] # Up => Holder(d, user'.held)
            BY <3>1 DEF HeldList, Holder
          <6>3. Holder("ControlLeft", user'.held)
            BY <3>2, <4>1 DEF Holder
          <6>. QED  BY <6>1, <6>2, <6>3
        <5>. QED  BY <3>2, <4>1, <5>1 DEF HeldList
      <4>2. CASE ~fake
        BY <2>3, <3>1, <4>2, HeldMore
      <4>. QED  BY <4>1, <4>2
    <3>4. io'.list[CodeFor(c)] # Up => c \in user'.held
      <4>1. toggles => io'.list[CodeFor(c)] = Up
        BY <2>4 DEF CodeFor
      <4>. QED  BY <1>2, <4>1
    <3>5. io'.armed => "ControlLeft" \in user'.held
      BY <1>2, <2>4
    <3>6. HeldList(io, user'.held)
      BY <3>1, HeldMore
    <3>. QED  BY <1>1, <2>4, <3>3, <3>4, <3>5, <3>6, EntersHeld
  <2>7. SilentUp(io', user')
    <3>1. ASSUME NEW k \in PhysicalKeys, io.list[CodeFor(k)] = Up, Windows => k = "Lang",
                 k # c \/ io'.list[CodeFor(c)] = Up
          PROVE  io'.list[CodeFor(k)] = Up
      <4>1. r.list[CodeFor(k)] = Up
        <5>1. CASE fake
          <6>1. k # "ControlLeft"
            BY <3>1, <5>1
          <6>. QED  BY <1>1, <2>2, <2>3, <3>1, <5>1, <6>1, EntersSilent
        <5>2. CASE ~fake
          BY <2>3, <3>1, <5>2
        <5>. QED  BY <5>1, <5>2
      <4>. QED  BY <1>1, <2>3, <2>4, <3>1, <4>1, EntersSilent
    <3>2. "Lang" \in PhysicalKeys /\ CodeFor("Lang") = "Lang"
      BY DEF PhysicalKeys, CodeFor
    <3>3. Windows /\ setup.reporting # "legacy" => io'.list["Lang"] = Up
      <4>. SUFFICES ASSUME Windows, setup.reporting # "legacy" PROVE io'.list["Lang"] = Up
        OBVIOUS
      <4>1. io.list["Lang"] = Up
        BY DEF ListInv, SilentUp
      <4>2. c = "Lang" => io'.list["Lang"] = Up
        <5>1. c = "Lang" => ~fake /\ ~toggles
          BY DEF Windows, Mac
        <5>. QED  BY <1>7, <2>3, <2>4, <4>1, <5>1 DEF DownList
      <4>. QED  BY <3>1, <3>2, <4>1, <4>2
    <3>4. ASSUME NEW k \in user'.silent PROVE io'.list[CodeFor(k)] = Up
      <4>1. CASE k = c /\ mute /\ ~toggles
        <5>1. CASE Windows
          BY <1>4, <3>2, <3>3, <4>1, <5>1
        <5>2. CASE ~Windows
          BY <1>7, <2>4, <4>1, <5>2 DEF DownList
        <5>. QED  BY <5>1, <5>2
      <4>2. CASE ~(k = c /\ mute /\ ~toggles)
        <5>1. k \in user.silent /\ k # c
          BY <1>2, <3>4, <4>2
        <5>2. io.list[CodeFor(k)] = Up /\ k \in PhysicalKeys
          BY <1>1, <5>1 DEF ListInv, SilentUp
        <5>3. Windows => k = "Lang"
          BY <1>3, <3>4
        <5>. QED  BY <3>1, <5>1, <5>2, <5>3
      <4>. QED  BY <4>1, <4>2
    <3>. QED  BY <1>3, <3>3, <3>4 DEF SilentUp
  <2>. QED  BY <1>2, <2>5, <2>6, <2>7 DEF ListInv
<1>. QED  BY <1>5, <1>6, <1>7

\* Who held a key still does when another key is let go of.
LEMMA HolderStays ==
  ASSUME NEW d, NEW c \in PhysicalKeys, NEW h, NEW k, Holder(d, h), d # CodeFor(c),
         h \ {c, "AltGrControl"} \subseteq k,
         d = "ControlLeft" /\ "AltGrControl" \in h => "AltGrControl" \in k,
         Windows /\ c \in Shifts => d \notin Shifts
  PROVE  Holder(d, k)
<1>1. "AltGrControl" \notin PhysicalKeys \cup Shifts
  BY DEF PhysicalKeys, Shifts
<1>2. CASE \E q \in h \cap PhysicalKeys : CodeFor(q) = d
  <2>1. PICK q \in h \cap PhysicalKeys : CodeFor(q) = d
    BY <1>2
  <2>2. q \in k
    BY <1>1, <2>1
  <2>. QED  BY <2>1, <2>2 DEF Holder
<1>3. CASE d = "ControlLeft" /\ "AltGrControl" \in h
  BY <1>3 DEF Holder
<1>4. CASE Windows /\ d \in Shifts /\ h \cap Shifts # {}
  <2>1. c \notin Shifts
    BY <1>4
  <2>2. k \cap Shifts # {}
    BY <1>1, <1>4, <2>1
  <2>. QED  BY <1>4, <2>2 DEF Holder
<1>. QED  BY <1>2, <1>3, <1>4 DEF Holder

\* A key is let go of, and nothing is sent for it.
LEMMA ReleaseUnsent ==
  ASSUME user \in UserRecords, KeyInv, NamedLang, setup \in Setups,
         ListInv(io, user, strayed), NEW c \in setup.keys, ReleaseKey(c),
         io' = io, Listening, ~strayed,
         c \in user.silent \/ (Windows /\ c \in Shifts /\ Shifts \subseteq user.held)
  PROVE  HeldList(io, user'.held)
<1>1. c \in PhysicalKeys /\ Shape(io) /\ HeldList(io, user.held)
  BY KeysOfSetup DEF KeyInv, ListInv
<1>2. "AltGrControl" \notin PhysicalKeys /\ "AltRight" \notin Shifts
  BY DEF PhysicalKeys, Shifts
<1>3. c \in user.silent => io.list[CodeFor(c)] = Up /\ (Windows => c = "Lang")
  BY DEF ListInv, SilentUp
<1>4. "AltGrControl" \in user.held => c # "AltRight"
  <2>1. "AltGrControl" \in user.held => Windows
    BY DEF ListInv, SilentUp
  <2>. QED  BY <1>2, <1>3, <2>1
<1>5. user'.held = user.held \ {c}
  BY <1>4, ReleaseKeyUser
<1>6. ASSUME NEW d \in Codes, io.list[d] # Up PROVE Holder(d, user'.held)
  <2>1. Holder(d, user.held)
    BY <1>1, <1>6 DEF HeldList
  <2>2. CASE c \in user.silent
    <3>1. d # CodeFor(c)
      BY <1>3, <1>6, <2>2
    <3>2. Windows => c \notin Shifts
      BY <1>3, <2>2 DEF Shifts
    <3>. QED  BY <1>1, <1>2, <1>5, <2>1, <3>1, <3>2, HolderStays
  <2>3. CASE Windows /\ c \in Shifts /\ Shifts \subseteq user.held
    <3>1. user'.held \cap Shifts # {}
      BY <1>5, <2>3 DEF Shifts
    <3>2. CASE d \in Shifts
      BY <2>3, <3>1, <3>2 DEF Holder
    <3>3. CASE d \notin Shifts
      <4>1. d # CodeFor(c)
        BY <1>1, <2>3, <3>3, CodeForFacts DEF Shifts
      <4>. QED  BY <1>1, <1>2, <1>5, <2>1, <3>3, <4>1, HolderStays
    <3>. QED  BY <3>2, <3>3
  <2>. QED  BY <2>2, <2>3
<1>7. io.armed => {"ControlLeft", "AltGrControl"} \cap user'.held # {}
  <2>1. io.armed => c # "ControlLeft"
    BY <1>1, <1>3 DEF Shape, Shifts
  <2>. QED  BY <1>1, <1>2, <1>5, <2>1 DEF HeldList
<1>. QED  BY <1>6, <1>7 DEF HeldList

\* The event of a key that is let go of.
LEMMA ReleaseKeyEvent ==
  ASSUME setup \in Setups, KeyInv, NEW c \in setup.keys, ReleaseKey(c), Listening,
         ~(c \in user.silent \/ (Windows /\ c \in Shifts /\ Shifts \subseteq user.held))
  PROVE  \E r \in InputRecords :
           /\ Shape(r) /\ UpList(r, io', c)
           /\ IF c = "AltRight" /\ "AltGrControl" \in user.held
              THEN UpList(io, r, "ControlLeft") ELSE r = io
<1>. DEFINE fake == c = "AltRight" /\ "AltGrControl" \in user.held
            r == IF fake THEN HandleKeyUp(io, FakeControl) ELSE io
<1>1. c \in PhysicalKeys /\ "ControlLeft" \in PhysicalKeys
  BY KeysOfSetup DEF PhysicalKeys
<1>2. io \in InputRecords /\ Shape(io)
  BY DEF KeyInv
<1>3. UpList(io, HandleKeyUp(io, FakeControl), "ControlLeft")
  BY <1>1, <1>2, UpListFacts, FakeControlFacts
<1>4. PICK e \in EventsOf(c) : io' = HandleKeyUp(r, e)
  BY Zenon DEF ReleaseKey
<1>5. EventOf(e, c)
  BY <1>1, EventFacts
<1>6. /\ r \in InputRecords /\ Shape(r)
      /\ IF fake THEN UpList(io, r, "ControlLeft") ELSE r = io
  BY <1>2, <1>3 DEF UpList
<1>. HIDE DEF r
<1>7. UpList(r, HandleKeyUp(r, e), c)
  BY <1>1, <1>5, <1>6, UpListFacts
<1>8. UpList(r, io', c)
  BY <1>4, <1>7
<1>. QED  BY <1>6, <1>8

LEMMA ReleaseKeyList ==
  ASSUME setup \in Setups, user \in UserRecords, user' \in UserRecords, KeyInv, NamedLang,
         ListInv(io, user, strayed), NEW c \in setup.keys, ReleaseKey(c)
  PROVE  ListInv(io', user', strayed')
<1>. DEFINE fake == c = "AltRight" /\ "AltGrControl" \in user.held
            unsent == c \in user.silent \/ (Windows /\ c \in Shifts /\ Shifts \subseteq user.held)
<1>1. /\ c \in PhysicalKeys /\ io \in InputRecords /\ Shape(io)
      /\ user.silent \subseteq PhysicalKeys /\ user'.silent \subseteq PhysicalKeys
  BY KeysOfSetup DEF KeyInv, UserRecords
<1>2. /\ user'.focus = user.focus /\ user'.silent = user.silent \ {c}
      /\ user'.held = user.held \ ({c} \cup (IF fake THEN {"AltGrControl"} ELSE {}))
      /\ strayed' = (strayed \/ (user.focus = "page" /\ ~io.viewOnly))
  BY ReleaseKeyUser
<1>3. /\ "AltGrControl" \in user'.held => Windows
      /\ Windows => user'.silent \subseteq {"Lang"}
  BY <1>2 DEF ListInv, SilentUp
<1>4. CASE ~Listening \/ unsent
  <2>1. io' = io
    BY <1>4 DEF ReleaseKey
  <2>2. CASE AllUp(io)
    BY <1>1, <1>3, <2>1, <2>2, AllUpInv
  <2>3. CASE ~AllUp(io)
    <3>1. ~io.viewOnly /\ user.focus # "away" /\ Named
      BY <2>3 DEF ListInv, Quiet
    <3>2. Quiet(io', user')
      BY <1>2, <2>1, <3>1 DEF Quiet
    <3>3. SilentUp(io', user')
      BY <1>2, <1>3, <2>1 DEF ListInv, SilentUp
    <3>4. ~strayed' => HeldList(io', user'.held)
      <4>1. ~strayed' => Listening /\ ~strayed
        BY <1>2, <3>1 DEF UserRecords, Listening
      <4>. QED  BY <1>4, <2>1, <4>1, ReleaseUnsent
    <3>. QED  BY <3>2, <3>3, <3>4 DEF ListInv
  <2>. QED  BY <2>2, <2>3
<1>5. CASE Listening /\ ~unsent
  <2>1. PICK r \in InputRecords :
          /\ Shape(r) /\ UpList(r, io', c)
          /\ IF fake THEN UpList(io, r, "ControlLeft") ELSE r = io
    BY <1>5, ReleaseKeyEvent
  <2>2. CASE ~Named
    <3>1. AllUp(io')
      BY <2>1, <2>2 DEF UpList, ListInv, Quiet
    <3>. QED  BY <1>1, <1>3, <3>1, AllUpInv
  <2>3. CASE Named
    <3>1. Enters(r, io', c) /\ io'.list[CodeFor(c)] = Up /\ ~io'.armed /\ Shape(io')
          /\ io'.viewOnly = io.viewOnly
          /\ (Windows /\ c \in Shifts => \A d \in Shifts : io'.list[d] = Up)
      BY <2>1, <2>3 DEF UpList
    <3>2. fake => Enters(io, r, "ControlLeft") /\ r.list["ControlLeft"] = Up /\ ~r.armed
      <4>1. CodeFor("ControlLeft") = "ControlLeft"
        BY DEF CodeFor
      <4>. QED  BY <2>1, <2>3, <4>1 DEF UpList
    <3>3. Quiet(io', user')
      BY <1>2, <1>5, <2>3, <3>1 DEF Quiet, Listening
    <3>4. SilentUp(io', user')
      <4>1. ASSUME NEW k \in PhysicalKeys, io.list[CodeFor(k)] = Up, Windows => k = "Lang"
            PROVE  io'.list[CodeFor(k)] = Up
        <5>1. r.list[CodeFor(k)] = Up
          <6>1. "ControlLeft" \in PhysicalKeys /\ CodeFor("ControlLeft") = "ControlLeft"
            BY DEF PhysicalKeys, CodeFor
          <6>2. fake => r.list[CodeFor(k)] = Up
            BY <1>1, <3>2, <4>1, <6>1, EntersSilent
          <6>. QED  BY <2>1, <4>1, <6>2
        <5>. QED  BY <1>1, <2>1, <3>1, <4>1, <5>1, EntersSilent
      <4>2. "Lang" \in PhysicalKeys /\ CodeFor("Lang") = "Lang"
        BY DEF PhysicalKeys, CodeFor
      <4>3. Windows /\ setup.reporting # "legacy" => io'.list["Lang"] = Up
        BY <4>1, <4>2 DEF ListInv, SilentUp
      <4>4. ASSUME NEW k \in user'.silent PROVE io'.list[CodeFor(k)] = Up
        <5>1. k \in user.silent /\ k \in PhysicalKeys
          BY <1>1, <1>2
        <5>2. io.list[CodeFor(k)] = Up /\ (Windows => k = "Lang")
          BY <5>1 DEF ListInv, SilentUp
        <5>. QED  BY <4>1, <5>1, <5>2
      <4>. QED  BY <1>3, <4>3, <4>4 DEF SilentUp
    <3>5. ~strayed' => HeldList(io', user'.held)
      <4>. SUFFICES ASSUME ~strayed' PROVE HeldList(io', user'.held)
        OBVIOUS
      <4>1. HeldList(io, user.held)
        BY <1>2 DEF ListInv
      <4>2. "AltGrControl" \notin PhysicalKeys
        BY DEF PhysicalKeys
      <4>3. ASSUME NEW d \in Codes, io'.list[d] # Up PROVE Holder(d, user'.held)
        <5>1. d # CodeFor(c) /\ (Windows /\ c \in Shifts => d \notin Shifts)
          BY <3>1, <4>3
        <5>2. r.list[d] # Up \/ (d = "ControlLeft" /\ r.armed)
          BY <3>1, <4>3, <5>1 DEF Enters
        <5>3. CASE fake
          <6>1. r.list[d] # Up /\ d # "ControlLeft"
            BY <3>2, <5>2, <5>3
          <6>2. io.list[d] # Up
            BY <3>2, <5>3, <6>1 DEF Enters, CodeFor
          <6>3. Holder(d, user.held)
            BY <4>1, <6>2 DEF HeldList
          <6>. QED  BY <1>1, <1>2, <5>1, <6>1, <6>3, HolderStays
        <5>4. CASE ~fake
          <6>1. user'.held = user.held \ {c}
            BY <1>2, <5>4
          <6>2. Holder(d, user.held)
            <7>1. CASE io.list[d] # Up
              BY <4>1, <7>1 DEF HeldList
            <7>2. CASE d = "ControlLeft" /\ io.armed
              <8>1. CodeFor("ControlLeft") = "ControlLeft" /\ "ControlLeft" \in PhysicalKeys
                BY DEF CodeFor, PhysicalKeys
              <8>. QED  BY <4>1, <7>2, <8>1 DEF HeldList, Holder
            <7>. QED  BY <2>1, <5>2, <5>4, <7>1, <7>2
          <6>. QED  BY <1>1, <4>2, <5>1, <6>1, <6>2, HolderStays
        <5>. QED  BY <5>3, <5>4
      <4>. QED  BY <3>1, <4>3 DEF HeldList
    <3>. QED  BY <3>3, <3>4, <3>5 DEF ListInv
  <2>. QED  BY <2>2, <2>3
<1>. QED  BY <1>4, <1>5

\* The same list, for a user who holds what was held.
LEMMA SameListInv ==
  ASSUME ListInv(io, user, strayed), io'.list = io.list, io'.armed = io.armed,
         io'.viewOnly = io.viewOnly, user'.held = user.held, user'.silent = user.silent,
         user'.focus = "away" => user.focus = "away", strayed' = strayed
  PROVE  ListInv(io', user', strayed')
BY DEF ListInv, Quiet, SilentUp, HeldList, AllUp

LEMMA AltGrTimeoutList ==
  ASSUME KeyInv, ListInv(io, user, strayed), user.silent \subseteq PhysicalKeys, AltGrTimeout
  PROVE  ListInv(io', user', strayed')
<1>1. /\ io.armed /\ Shape(io) /\ Interrupted(io, io') /\ io'.viewOnly = io.viewOnly
      /\ user' = user /\ strayed' = strayed
  BY AltGrTimeoutFacts DEF KeyInv, AltGrTimeout, KeyboardStep
<1>2. ~io.viewOnly /\ user.focus # "away" /\ Named /\ Windows
  BY <1>1 DEF ListInv, Quiet, AllUp, Shape
<1>3. Quiet(io', user')
  BY <1>1, <1>2 DEF Quiet
<1>4. SilentUp(io', user')
  <2>1. \A c \in Codes : c # "ControlLeft" => io'.list[c] = io.list[c]
    BY <1>1 DEF Interrupted
  <2>2. CodeFor("Lang") = "Lang" /\ "Lang" \in Codes
    BY CodeNames DEF CodeFor
  <2>. QED  BY <1>1, <1>2, <2>1, <2>2 DEF ListInv, SilentUp
<1>5. ~strayed' => HeldList(io', user'.held)
  <2>. SUFFICES ASSUME ~strayed PROVE HeldList(io', user.held)
    BY <1>1
  <2>1. HeldList(io, user.held)
    BY DEF ListInv
  <2>2. Holder("ControlLeft", user.held)
    <3>1. CodeFor("ControlLeft") = "ControlLeft" /\ "ControlLeft" \in PhysicalKeys
      BY DEF CodeFor, PhysicalKeys
    <3>. QED  BY <1>1, <2>1, <3>1 DEF HeldList, Holder
  <2>3. \A c \in Codes : io'.list[c] # Up => Holder(c, user.held)
    BY <1>1, <2>1, <2>2 DEF Interrupted, HeldList
  <2>. QED  BY <1>1, <2>3 DEF HeldList, Interrupted
<1>. QED  BY <1>3, <1>4, <1>5 DEF ListInv

LEMMA BlurList ==
  ASSUME user \in UserRecords, KeyInv, ListInv(io, user, strayed), Blur
  PROVE  ListInv(io', user', strayed')
<1>1. user'.held = user.held /\ user'.silent = user.silent
  BY DEF Blur, UserRecords
<1>2. io.viewOnly => AllUp(io)
  BY DEF ListInv, Quiet
<1>3. AllUp(io')
  BY <1>2, BlurFacts
<1>. QED  BY <1>1, <1>3, AllUpInv DEF ListInv, SilentUp, UserRecords

LEMMA KeyboardList ==
  ASSUME setup \in Setups, user \in UserRecords, user' \in UserRecords, KeyInv, NamedLang,
         ListInv(io, user, strayed), Keyboard
  PROVE  ListInv(io', user', strayed')
<1>1. ASSUME NEW c \in setup.keys, PressKey(c) \/ ReleaseKey(c)
      PROVE  ListInv(io', user', strayed')
  BY <1>1, PressKeyList, ReleaseKeyList
<1>2. ASSUME (\E f \in {"canvas", "page"} : Focus(f)) \/ LockElsewhere
      PROVE  ListInv(io', user', strayed')
  <2>1. /\ user'.held = user.held /\ user'.silent = user.silent
        /\ user'.focus = "away" => user.focus = "away"
    BY <1>2 DEF Focus, LockElsewhere, UserRecords
  <2>. QED  BY <1>2, <2>1, SameListInv DEF Focus, LockElsewhere
<1>3. ASSUME HandleLedEvent \/ SendWindowsKey \/ WinKeyUp \/ SendCtrlAltDel
      PROVE  ListInv(io', user', strayed')
  <2>1. user' = user /\ strayed' = strayed
    BY <1>3 DEF HandleLedEvent, SendWindowsKey, WinKeyUp, SendCtrlAltDel
  <2>2. KeyboardStep /\ io'.list = io.list /\ io'.armed = io.armed
    BY <1>3, LedFacts, SendWindowsKeyFacts, WinKeyUpFacts, SendCtrlAltDelFacts
  <2>. QED  BY <2>1, <2>2, SameListInv DEF KeyboardStep
<1>4. AltGrTimeout => ListInv(io', user', strayed')
  BY AltGrTimeoutList DEF UserRecords
<1>5. Blur => ListInv(io', user', strayed')
  BY BlurList
<1>. QED  BY <1>1, <1>2, <1>3, <1>4, <1>5 DEF Keyboard

LEMMA SetViewOnlyList ==
  ASSUME user \in UserRecords, KeyInv, ListInv(io, user, strayed), NEW on \in BOOLEAN,
         SetViewOnly(on)
  PROVE  ListInv(io', user', strayed')
<1>1. user' = user /\ strayed' = (strayed /\ ~on)
  BY DEF SetViewOnly
<1>2. io'.viewOnly = on /\ (on => AllUp(io')) /\ (~on => io'.list = io.list /\ io'.armed = io.armed)
  BY SetViewOnlyFacts
<1>3. CASE on
  BY <1>1, <1>2, <1>3, AllUpInv DEF ListInv, SilentUp, UserRecords
<1>4. CASE ~on
  <2>1. Quiet(io', user')
    BY <1>1, <1>2, <1>4 DEF ListInv, Quiet, AllUp
  <2>. QED  BY <1>1, <1>2, <1>4, <2>1 DEF ListInv, SilentUp, HeldList
<1>. QED  BY <1>3, <1>4

\* The mouse and the screen to touch are not about the keys.
LEMMA PointersLeaveKeys ==
  ASSUME user \in UserRecords, Mouse \/ Touch
  PROVE  user'.held = user.held /\ user'.silent = user.silent /\ user'.focus = user.focus
<1>1. ASSUME NEW v, \/ user' = [user EXCEPT !.buttons = v] \/ user' = [user EXCEPT !.at = v]
                    \/ user' = [user EXCEPT !.fingers = v] \/ user' = user
      PROVE  user'.held = user.held /\ user'.silent = user.silent /\ user'.focus = user.focus
  BY <1>1 DEF UserRecords
<1>2. ASSUME NEW b, MouseDown(b) \/ MouseUp(b)
      PROVE  \E v : user' = [user EXCEPT !.buttons = v]
  BY <1>2, Zenon DEF MouseDown, MouseUp
<1>3. ASSUME NEW pos, MouseMove(pos)
      PROVE  \E v : user' = [user EXCEPT !.at = v]
  BY <1>3, Zenon DEF MouseMove
<1>4. ASSUME NEW id, TouchStart(id) \/ \E pos \in setup.positions : TouchEnd(id, pos)
      PROVE  \E v : user' = [user EXCEPT !.fingers = v]
  BY <1>4, Zenon DEF TouchStart, TouchEnd
<1>5. ASSUME (\E delta \in {-1, 1} : Wheel(delta)) \/ HandleDelayedMouseMove \/ CoolDown
      PROVE  user' = user
  BY <1>5 DEF Wheel, HandleDelayedMouseMove, CoolDown
<1>6. ASSUME NEW id, NEW far, NEW apart, NEW pos, NEW scroll, TouchMove(id, far, apart, pos, scroll)
      PROVE  user' = user
  BY <1>6 DEF TouchMove
<1>7. ASSUME NEW kind, NEW pos, NEW scroll,
             LongpressTimeout(pos) \/ TwoTouchTimeout(kind, pos, scroll) \/ TouchAges \/ ReleaseAges
      PROVE  user' = user
  BY <1>7 DEF LongpressTimeout, TwoTouchTimeout, TouchAges, ReleaseAges
<1>8. CASE Mouse
  BY <1>1, <1>2, <1>3, <1>5, <1>8 DEF Mouse
<1>9. CASE Touch
  BY <1>1, <1>4, <1>6, <1>7, <1>9 DEF Touch
<1>. QED  BY <1>8, <1>9

LEMMA ListInvStep ==
  ASSUME NamedLang, TouchInv, InputInv, ListInv(io, user, strayed), [Next]_vars
  PROVE  ListInv(io, user, strayed)'
<1>1. setup' = setup /\ user' \in UserRecords /\ setup \in Setups /\ user \in UserRecords
  BY UserTypes DEF TouchInv
<1>2. ListInv(io', user', strayed')
  <2>1. CASE Keyboard
    BY <1>1, <2>1, KeyboardList DEF InputInv
  <2>2. ASSUME NEW on \in BOOLEAN, SetViewOnly(on) PROVE ListInv(io', user', strayed')
    BY <1>1, <2>2, SetViewOnlyList DEF InputInv
  <2>3. CASE Mouse
    <3>1. MouseStep
      BY <1>1, <2>3, MouseFacts DEF InputInv, TouchInv
    <3>2. io'.list = io.list /\ io'.armed = io.armed /\ io'.viewOnly = io.viewOnly /\ strayed' = strayed
      BY <3>1 DEF MouseStep, PointerStep, SameKeys
    <3>. QED  BY <1>1, <2>3, <3>2, PointersLeaveKeys, SameListInv
  <2>4. CASE Touch
    <3>1. TouchAction
      BY <2>4, TouchFacts DEF InputInv, KeyInv
    <3>2. io'.list = io.list /\ io'.armed = io.armed /\ io'.viewOnly = io.viewOnly /\ strayed' = strayed
      BY <3>1 DEF TouchAction, TouchStep
    <3>. QED  BY <1>1, <2>4, <3>2, PointersLeaveKeys, SameListInv
  <2>5. CASE UNCHANGED vars
    BY <2>5, SameListInv DEF vars
  <2>. QED  BY <2>1, <2>2, <2>3, <2>4, <2>5 DEF Next
<1>. QED  BY <1>1, <1>2 DEF ListInv, Quiet, SilentUp, HeldList, Holder, AllUp, Named, Windows, CodeFor

(***************************************************************************)
(* When the user holds no key none is in the list of keys, or withheld for *)
(* AltGr, whatever releases the system leaves unreported - but for keys    *)
(* let go of while the page had the focus (keyboard.js _handleKeyDown,     *)
(* _handleKeyUp, _allKeysUp).  An old browser of Windows gives a Japanese  *)
(* key no name, so that the key the system never releases stays listed.    *)
(***************************************************************************)
THEOREM NoKeyStaysForgotten ==
  ASSUME NamedLang
  PROVE  Spec => []NoKeyForgotten
<1>1. Init => ListInv(io, user, strayed)
  <2>. SUFFICES ASSUME Init PROVE ListInv(io, user, strayed)
    OBVIOUS
  <2>1. AllUp(io) /\ user.held = {} /\ user.silent = {}
    BY DEF Init, AllUp
  <2>. QED  BY <2>1, AllUpInv
<1>2. TouchInv /\ InputInv /\ ListInv(io, user, strayed) /\ [Next]_vars => ListInv(io, user, strayed)'
  BY ListInvStep
<1>3. ListInv(io, user, strayed) => NoKeyForgotten
  BY DEF ListInv, HeldList, Holder, NoKeyForgotten
<1>. QED  BY <1>1, <1>2, <1>3, TouchInvHolds, InputInvHolds, PTL DEF Spec
=============================================================================
