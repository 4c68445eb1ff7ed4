-------------------------- MODULE RfbStreamProofs ---------------------------
(***************************************************************************)
(* What RfbStream promises for every server that follows the protocol, in  *)
(* whatever pieces its bytes arrive: the client is always at the field the *)
(* server has written there, handles every message and rectangle once and  *)
(* in order, and draws every piece of picture in that order.               *)
(***************************************************************************)
EXTENDS RfbDecodeProofs

-----------------------------------------------------------------------------
(***************************************************************************)
(* The three streams: the bytes still to be read, the messages and         *)
(* rectangles still to be handled and the pieces still to be drawn.        *)
(***************************************************************************)
QueuePlaced == IsSeq(rQ) /\ rQi \in 0 .. Len(rQ) /\ IsSeq(wire)
Coming(B) == QueuePlaced /\ IsSeq(B) /\ Glue(Unread, wire) = B

Done(h) == [i \in DOMAIN h |-> h[i].of]
Handles(P) == IsSeq(handled) /\ IsSeq(P) /\ meant = Glue(Done(handled), P)

Missing(Q) == IsSeq(Q) /\ ScreenOK(display) /\ due = Glue(Shown(display), Q)

\* n bytes are read, the whole of f.
LEMMA BytesRead ==
  ASSUME NEW f, IsSeq(f), NEW n \in Nat, Len(f) = n, NEW b, IsSeq(b), Coming(Glue(f, b)),
         Have(rQi, n), rQi' = rQi + n, UNCHANGED <<rQ, wire>>
  PROVE  Coming(b)'
<1>1. PICK l \in Nat, i \in Nat : l = Len(rQ) /\ i = rQi /\ i \in 0 .. l
  <2>1. Len(rQ) \in Nat
    BY SeqFacts DEF Coming, QueuePlaced
  <2>. QED  BY <2>1 DEF Coming, QueuePlaced
<1>2. IsSeq(rQ) /\ IsSeq(wire) /\ Glue(SubSeq(rQ, i + 1, l), wire) = Glue(f, b)
  BY <1>1 DEF Coming, QueuePlaced, Unread
<1>3. l - i >= n
  BY <1>1 DEF Have
<1>4. Len(rQ) = l
  BY <1>1
<1>5. i + n \in 0 .. l /\ Glue(SubSeq(rQ, i + n + 1, l), wire) = b
  BY <1>2, <1>3, <1>4, ReadOff
<1>6. rQ' = rQ /\ wire' = wire /\ rQi' = i + n
  BY <1>1
<1>. QED  BY <1>2, <1>4, <1>5, <1>6 DEF Coming, QueuePlaced, Unread

\* The next byte is the first of f.
LEMMA NextByte ==
  ASSUME NEW f, IsSeq(f), Len(f) > 0, NEW b, IsSeq(b), Coming(Glue(f, b)), Have(rQi, 1)
  PROVE  rQ[rQi + 1] = f[1]
<1>1. PICK l \in Nat, i \in Nat : l = Len(rQ) /\ i = rQi /\ i \in 0 .. l
  <2>1. Len(rQ) \in Nat
    BY SeqFacts DEF Coming, QueuePlaced
  <2>. QED  BY <2>1 DEF Coming, QueuePlaced
<1>2. IsSeq(rQ) /\ IsSeq(wire) /\ Glue(SubSeq(rQ, i + 1, l), wire) = Glue(f, b)
  BY <1>1 DEF Coming, QueuePlaced, Unread
<1>3. i < l
  BY <1>1 DEF Have
<1>4. PICK n \in Nat : n = Len(f) /\ n > 0
  BY SeqFacts
<1>5. Len(rQ) = l /\ Len(f) = n
  BY <1>1, <1>4
<1>6. rQ[i + 1] = f[1]
  BY <1>2, <1>3, <1>4, <1>5, FirstCell
<1>. QED  BY <1>1, <1>6

\* k bytes arrive.
LEMMA BytesArrive ==
  ASSUME NEW B, Coming(B), NEW k \in 1 .. Len(wire),
         rQ' = Unread \o SubSeq(wire, 1, k), rQi' = 0, wire' = SubSeq(wire, k + 1, Len(wire))
  PROVE  Coming(B)' /\ rQi' < Len(rQ)'
<1>0. PICK n \in Nat : n = Len(wire)
  BY SeqFacts DEF Coming, QueuePlaced
<1>1. PICK l \in Nat, i \in Nat : l = Len(rQ) /\ i = rQi /\ i \in 0 .. l
  <2>1. Len(rQ) \in Nat
    BY SeqFacts DEF Coming, QueuePlaced
  <2>. QED  BY <2>1 DEF Coming, QueuePlaced
<1>2. PICK u : u = Unread /\ IsSeq(u)
  <2>1. i \in 0 .. Len(rQ) /\ l \in i .. Len(rQ) /\ IsSeq(rQ)
    BY <1>1 DEF Coming, QueuePlaced
  <2>2. IsSeq(SubSeq(rQ, i + 1, l))
    BY <2>1, Cut
  <2>. QED  BY <1>1, <2>2 DEF Unread
<1>3. IsSeq(wire) /\ Len(wire) = n /\ k \in 1 .. n /\ Glue(u, wire) = B /\ IsSeq(B)
  BY <1>0, <1>2 DEF Coming, QueuePlaced
<1>4. LET q == u \o SubSeq(wire, 1, k)
          v == SubSeq(wire, k + 1, n)
      IN /\ IsSeq(q) /\ Len(q) > 0 /\ Len(q) \in Nat /\ IsSeq(v)
         /\ Glue(SubSeq(q, 0 + 1, Len(q)), v) = Glue(u, wire)
  BY <1>2, <1>3, Moved
<1>5. PICK q, v : q = u \o SubSeq(wire, 1, k) /\ v = SubSeq(wire, k + 1, n)
  OBVIOUS
<1>6. /\ IsSeq(q) /\ Len(q) > 0 /\ Len(q) \in Nat /\ IsSeq(v)
      /\ Glue(SubSeq(q, 0 + 1, Len(q)), v) = B
  BY <1>3, <1>4, <1>5
<1>7. rQ' = q /\ wire' = v /\ rQi' = 0
  BY <1>0, <1>2, <1>5
<1>8. Unread' = SubSeq(q, 0 + 1, Len(q)) /\ rQi' \in 0 .. Len(rQ') /\ rQi' < Len(rQ')
  <2>1. Unread' = SubSeq(q, 0 + 1, Len(q))
    <3>1. Unread' = SubSeq(rQ', rQi' + 1, Len(rQ'))
      BY DEF Unread
    <3>. QED  BY <1>7, <3>1, Zenon
  <2>2. 0 \in 0 .. Len(q) /\ 0 < Len(q)
    BY <1>6
  <2>. QED  BY <1>7, <2>1, <2>2, Zenon
<1>. QED  BY <1>3, <1>6, <1>7, <1>8 DEF Coming, QueuePlaced

\* The server sends b.
LEMMA BytesSent ==
  ASSUME NEW B, Coming(B), NEW b, IsSeq(b), wire' = wire \o b, UNCHANGED <<rQ, rQi>>
  PROVE  Coming(Glue(B, b))'
<1>1. PICK l \in Nat, i \in Nat : l = Len(rQ) /\ i = rQi /\ i \in 0 .. l
  <2>1. Len(rQ) \in Nat
    BY SeqFacts DEF Coming, QueuePlaced
  <2>. QED  BY <2>1 DEF Coming, QueuePlaced
<1>2. PICK u : u = Unread /\ IsSeq(u)
  <2>1. i \in 0 .. Len(rQ) /\ l \in i .. Len(rQ) /\ IsSeq(rQ)
    BY <1>1 DEF Coming, QueuePlaced
  <2>2. IsSeq(SubSeq(rQ, i + 1, l))
    BY <2>1, Cut
  <2>. QED  BY <1>1, <2>2 DEF Unread
<1>3. PICK w : w = Glue(wire, b)
  OBVIOUS
<1>4. IsSeq(wire) /\ IsSeq(B) /\ Glue(u, wire) = B
  BY <1>2 DEF Coming, QueuePlaced
<1>5. Glue(u, w) = Glue(B, b) /\ IsSeq(w) /\ IsSeq(Glue(B, b))
  BY <1>2, <1>3, <1>4, JoinAssoc, Joined
<1>6. wire' = w /\ rQ' = rQ /\ rQi' = rQi
  BY <1>3 DEF Glue
<1>7. Unread' = u
  BY <1>2, <1>6 DEF Unread
<1>. QED  BY <1>5, <1>6, <1>7 DEF Coming, QueuePlaced

LEMMA BytesStay ==
  ASSUME NEW B, Coming(B), UNCHANGED <<rQ, rQi, wire>>
  PROVE  Coming(B)'
BY DEF Coming, QueuePlaced, Unread

LEMMA DoneAppend ==
  ASSUME NEW h, IsSeq(h), NEW of, NEW did
  PROVE  Done(Append(h, [of |-> of, did |-> did])) = Glue(Done(h), <<of>>) /\ IsSeq(Done(h))
<1>1a. PICK n \in Nat : n = Len(h)
  BY SeqFacts
<1>1. PICK e, g : n = Len(h) /\ e = [of |-> of, did |-> did] /\ g = Append(h, e)
  BY <1>1a
<1>2. DOMAIN h = 1 .. n
  BY <1>1, SeqFacts
<1>3. IsSeq(g) /\ Len(g) = n + 1 /\ g[n + 1] = e /\ \A i \in 1 .. n : g[i] = h[i]
  <2>1. Len(h) = n
    BY <1>1
  <2>. QED  BY <1>1, <2>1, AppendedTo
<1>4. DOMAIN g = 1 .. n + 1
  BY <1>3, SeqFacts
<1>5. PICK s, t : s = Done(h) /\ t = Done(g)
  OBVIOUS
<1>6. s = [i \in 1 .. n |-> s[i]] /\ \A i \in 1 .. n : s[i] = h[i].of
  BY <1>2, <1>5 DEF Done
<1>7. t = [i \in 1 .. n + 1 |-> t[i]] /\ \A i \in 1 .. n + 1 : t[i] = g[i].of
  BY <1>4, <1>5 DEF Done
<1>8. IsSeq(s) /\ Len(s) = n
  BY <1>6, FunIsSeq
<1>9. IsSeq(t) /\ Len(t) = n + 1
  <2>1. n + 1 \in Nat
    OBVIOUS
  <2>. QED  BY <1>7, <2>1, FunIsSeq
<1>10. PICK u, v : v = <<of>> /\ u = Glue(s, v)
  OBVIOUS
<1>11. /\ IsSeq(u) /\ Len(u) = n + 1
       /\ \A i \in 1 .. n : u[i] = s[i]
       /\ u[n + 1] = of
  <2>1. IsSeq(v) /\ Len(v) = 1 /\ v[1] = of
    BY <1>10, One
  <2>2. Joint(u, s, n, v, 1)
    BY <1>8, <1>10, <2>1, GlueAt
  <2>3. 1 \in 1 .. 1
    OBVIOUS
  <2>. QED  BY <2>1, <2>2, <2>3 DEF Joint
<1>12. \A i \in 1 .. n + 1 : t[i] = u[i]
  <2>1. TAKE i \in 1 .. n + 1
  <2>2. CASE i \in 1 .. n
    BY <1>3, <1>6, <1>7, <1>11, <2>2
  <2>3. CASE i = n + 1
    BY <1>1, <1>3, <1>7, <1>11, <2>3
  <2>. QED  BY <2>2, <2>3
<1>13. t = u
  BY <1>9, <1>11, <1>12, SameSeq
<1>. QED  BY <1>1, <1>5, <1>8, <1>10, <1>13

LEMMA OneHandled ==
  ASSUME NEW of, NEW P, IsSeq(P), Handles(Glue(<<of>>, P)), NEW did, Handle(of, did), meant' = meant
  PROVE  Handles(P)'
<1>1. PICK h : h = Append(handled, [of |-> of, did |-> did])
  OBVIOUS
<1>2. IsSeq(h)
  BY <1>1, Appended DEF Handles
<1>3. Done(h) = Glue(Done(handled), <<of>>) /\ IsSeq(Done(handled))
  BY <1>1, DoneAppend DEF Handles
<1>4. IsSeq(<<of>>)
  BY One
<1>5. Glue(Glue(Done(handled), <<of>>), P) = Glue(Done(handled), Glue(<<of>>, P))
  BY <1>3, <1>4, JoinAssoc
<1>6. meant = Glue(Done(h), P)
  BY <1>3, <1>5 DEF Handles
<1>7. handled' = h
  BY <1>1 DEF Handle
<1>. QED  BY <1>2, <1>6, <1>7 DEF Handles

LEMMA NoneHandled ==
  ASSUME NEW P, Handles(P), UNCHANGED <<meant, handled>>
  PROVE  Handles(P)'
BY DEF Handles

LEMMA PartsSent ==
  ASSUME NEW P, Handles(P), NEW p, IsSeq(p), meant' = meant \o p, handled' = handled
  PROVE  Handles(Glue(P, p))'
<1>1. IsSeq(Done(handled))
  BY DoneAppend DEF Handles
<1>2. meant' = Glue(Glue(Done(handled), P), p)
  BY DEF Handles, Glue
<1>3. Glue(Glue(Done(handled), P), p) = Glue(Done(handled), Glue(P, p)) /\ IsSeq(Glue(P, p))
  BY <1>1, JoinAssoc, Joined DEF Handles
<1>. QED  BY <1>2, <1>3 DEF Handles

LEMMA PiecesDrawn ==
  ASSUME NEW p, IsSeq(p), NEW Q, IsSeq(Q), Missing(Glue(p, Q)), due' = due,
         Draws(display, display', p)
  PROVE  Missing(Q)'
<1>1. PICK a, b : a = Shown(display) /\ b = Shown(display')
  OBVIOUS
<1>2. b = Glue(a, p) /\ IsSeq(a) /\ ScreenOK(display')
  BY <1>1, ShownIsSeq DEF Draws, Missing
<1>3. Glue(Glue(a, p), Q) = Glue(a, Glue(p, Q))
  BY <1>2, JoinAssoc
<1>. QED  BY <1>1, <1>2, <1>3 DEF Missing

LEMMA NothingMore ==
  ASSUME NEW Q, Missing(Q), due' = due, Draws(display, display', <<>>)
  PROVE  Missing(Q)'
<1>1. Glue(<<>>, Q) = Q /\ IsSeq(<<>>) /\ IsSeq(Q)
  BY EmptyIsSeq, JoinEmpty DEF Missing
<1>. QED  BY <1>1, PiecesDrawn

LEMMA SameScreen ==
  ASSUME NEW Q, Missing(Q), UNCHANGED <<due, display>>
  PROVE  Missing(Q)'
BY DEF Missing

LEMMA PiecesSent ==
  ASSUME NEW Q, Missing(Q), NEW q, IsSeq(q), due' = due \o q, display' = display
  PROVE  Missing(Glue(Q, q))'
<1>1. IsSeq(Shown(display))
  BY ShownIsSeq DEF Missing
<1>2. due' = Glue(Glue(Shown(display), Q), q)
  BY DEF Missing, Glue
<1>3. Glue(Glue(Shown(display), Q), q) = Glue(Shown(display), Glue(Q, q)) /\ IsSeq(Glue(Q, q))
  BY <1>1, JoinAssoc, Joined DEF Missing
<1>. QED  BY <1>2, <1>3 DEF Missing

-----------------------------------------------------------------------------
(***************************************************************************)
(* The updates: how many were sent, and how many are over.                 *)
(***************************************************************************)
Over == {"update", "dropped"}
AskedBy(s, c) == Cardinality({i \in 1 .. c : s[i] = "update"})
Answered(h) == Cardinality({i \in DOMAIN h : h[i].did \in Over})

LEMMA AskedNumber ==
  ASSUME NEW s, NEW c \in Nat
  PROVE  AskedBy(s, c) \in 0 .. c /\ IsFiniteSet({i \in 1 .. c : s[i] = "update"})
<1>1. IsFiniteSet(1 .. c) /\ Cardinality(1 .. c) = c
  BY FS_Interval
<1>2. {i \in 1 .. c : s[i] = "update"} \subseteq 1 .. c
  OBVIOUS
<1>3. /\ IsFiniteSet({i \in 1 .. c : s[i] = "update"})
      /\ Cardinality({i \in 1 .. c : s[i] = "update"}) <= Cardinality(1 .. c)
  BY <1>1, <1>2, FS_Subset
<1>4. Cardinality({i \in 1 .. c : s[i] = "update"}) \in Nat
  BY <1>3, FS_CardinalityType
<1>. QED  BY <1>1, <1>3, <1>4 DEF AskedBy

LEMMA AskedNext ==
  ASSUME NEW s, NEW c \in Nat
  PROVE  AskedBy(s, c + 1) = AskedBy(s, c) + IF s[c + 1] = "update" THEN 1 ELSE 0
<1>1. PICK a, b : a = {i \in 1 .. c : s[i] = "update"} /\ b = {i \in 1 .. c + 1 : s[i] = "update"}
  OBVIOUS
<1>2. IsFiniteSet(a) /\ c + 1 \notin a /\ Cardinality(a) \in Nat
  <2>1. IsFiniteSet(a) /\ Cardinality(a) \in 0 .. c
    BY <1>1, AskedNumber DEF AskedBy
  <2>. QED  BY <1>1, <2>1
<1>3. CASE s[c + 1] = "update"
  <2>1. b = a \cup {c + 1}
    BY <1>1, <1>3
  <2>2. Cardinality(b) = Cardinality(a) + 1
    BY <1>2, <2>1, FS_AddElement
  <2>. QED  BY <1>1, <1>3, <2>2 DEF AskedBy
<1>4. CASE s[c + 1] # "update"
  <2>1. b = a
    BY <1>1, <1>4
  <2>. QED  BY <1>1, <1>2, <1>4, <2>1 DEF AskedBy
<1>. QED  BY <1>3, <1>4

LEMMA AskedMore ==
  ASSUME NEW s, NEW c \in Nat, NEW d \in Nat, c <= d
  PROVE  AskedBy(s, c) <= AskedBy(s, d)
<1>1. PICK a, b : a = {i \in 1 .. c : s[i] = "update"} /\ b = {i \in 1 .. d : s[i] = "update"}
  OBVIOUS
<1>2. IsFiniteSet(b) /\ a \subseteq b
  <2>1. IsFiniteSet({i \in 1 .. d : s[i] = "update"})
    BY AskedNumber
  <2>. QED  BY <1>1, <2>1
<1>3. Cardinality(a) <= Cardinality(b)
  BY <1>2, FS_Subset
<1>. QED  BY <1>1, <1>3 DEF AskedBy

LEMMA AskedAlike ==
  ASSUME NEW s, NEW t, NEW c \in Nat, \A i \in 1 .. c : s[i] = t[i]
  PROVE  AskedBy(s, c) = AskedBy(t, c)
<1>1. {i \in 1 .. c : s[i] = "update"} = {i \in 1 .. c : t[i] = "update"}
  OBVIOUS
<1>. QED  BY <1>1 DEF AskedBy

LEMMA AnsweredNext ==
  ASSUME NEW h, IsSeq(h), NEW of, NEW did
  PROVE  /\ Answered(h) \in Nat
         /\ Answered(Append(h, [of |-> of, did |-> did]))
              = Answered(h) + IF did \in Over THEN 1 ELSE 0
<1>1a. PICK n \in Nat : n = Len(h)
  BY SeqFacts
<1>1. PICK e, g : n = Len(h) /\ e = [of |-> of, did |-> did] /\ g = Append(h, e)
  BY <1>1a
<1>2. DOMAIN h = 1 .. n
  BY <1>1, SeqFacts
<1>3. IsSeq(g) /\ Len(g) = n + 1 /\ g[n + 1] = e /\ \A i \in 1 .. n : g[i] = h[i]
  <2>1. Len(h) = n
    BY <1>1
  <2>. QED  BY <1>1, <2>1, AppendedTo
<1>4. DOMAIN g = 1 .. n + 1
  BY <1>3, SeqFacts
<1>5. PICK a, b : a = {i \in 1 .. n : h[i].did \in Over} /\ b = {i \in 1 .. n + 1 : g[i].did \in Over}
  OBVIOUS
<1>6. IsFiniteSet(a) /\ Cardinality(a) \in Nat /\ n + 1 \notin a
  <2>1. IsFiniteSet(1 .. n)
    BY FS_Interval
  <2>2. a \subseteq 1 .. n
    BY <1>5
  <2>3. IsFiniteSet(a)
    BY <2>1, <2>2, FS_Subset
  <2>. QED  BY <2>2, <2>3, FS_CardinalityType
<1>7. Answered(h) = Cardinality(a) /\ Answered(g) = Cardinality(b)
  BY <1>2, <1>4, <1>5 DEF Answered
<1>8. CASE did \in Over
  <2>1. b = a \cup {n + 1}
    BY <1>1, <1>3, <1>5, <1>8
  <2>2. Cardinality(b) = Cardinality(a) + 1
    BY <1>6, <2>1, FS_AddElement
  <2>. QED  BY <1>1, <1>6, <1>7, <1>8, <2>2
<1>9. CASE did \notin Over
  <2>1. b = a
    BY <1>1, <1>3, <1>5, <1>9
  <2>. QED  BY <1>1, <1>6, <1>7, <1>9, <2>1
<1>. QED  BY <1>8, <1>9

\* c messages are handled, and open more updates, none or one, begun.
Balance(c, open) ==
  /\ IsSeq(sent) /\ IsSeq(handled) /\ c \in 0 .. Len(sent)
  /\ Answered(handled) + open = AskedBy(sent, c)
  /\ owed \in Nat /\ owed <= Answered(handled) + 1
  /\ ~rfb.canContinue =>
       owed + AskedBy(sent, Len(sent)) - Answered(handled) = IF rfb.hollow THEN 0 ELSE 1

LEMMA BalanceStays ==
  ASSUME NEW c, NEW open, Balance(c, open), UNCHANGED <<sent, handled, owed>>,
         rfb'.hollow = rfb.hollow, rfb'.canContinue = rfb.canContinue
  PROVE  Balance(c, open)'
BY DEF Balance

LEMMA BalanceKept ==
  ASSUME NEW c, NEW open, Balance(c, open), UNCHANGED <<sent, owed>>,
         NEW of, NEW did, Handle(of, did), did \notin Over,
         rfb'.hollow = rfb.hollow, rfb'.canContinue = rfb.canContinue
  PROVE  Balance(c, open)'
<1>1. PICK h : h = Append(handled, [of |-> of, did |-> did]) /\ handled' = h
  BY DEF Handle
<1>2. IsSeq(h)
  BY <1>1, Appended DEF Balance
<1>3. Answered(h) = Answered(handled)
  BY <1>1, AnsweredNext DEF Balance
<1>. QED  BY <1>1, <1>2, <1>3 DEF Balance

\* A message other than an update is handled.
LEMMA BalanceNext ==
  ASSUME NEW c, Balance(c, 0), c # Len(sent), sent[c + 1] # "update", UNCHANGED <<sent, owed>>,
         NEW of, NEW did, Handle(of, did), did \notin Over,
         rfb'.hollow = rfb.hollow,
         ~rfb'.canContinue => ~rfb.canContinue
  PROVE  Balance(c + 1, 0)'
<1>1. PICK h : h = Append(handled, [of |-> of, did |-> did]) /\ handled' = h
  BY DEF Handle
<1>2. IsSeq(h)
  BY <1>1, Appended DEF Balance
<1>3. Answered(h) = Answered(handled)
  BY <1>1, AnsweredNext DEF Balance
<1>4. Len(sent) \in Nat /\ c \in Nat
  BY SeqFacts DEF Balance
<1>5. AskedBy(sent, c + 1) = AskedBy(sent, c)
  <2>1. AskedBy(sent, c) \in 0 .. c
    BY <1>4, AskedNumber
  <2>2. AskedBy(sent, c + 1) = AskedBy(sent, c) + IF sent[c + 1] = "update" THEN 1 ELSE 0
    BY <1>4, AskedNext
  <2>. QED  BY <2>1, <2>2
<1>6. c + 1 \in 0 .. Len(sent)
  BY <1>4 DEF Balance
<1>. QED  BY <1>1, <1>2, <1>3, <1>5, <1>6 DEF Balance

\* An update is begun.
LEMMA BalanceOpens ==
  ASSUME NEW c, Balance(c, 0), c # Len(sent), sent[c + 1] = "update",
         UNCHANGED <<sent, owed, handled>>,
         rfb'.hollow = rfb.hollow, rfb'.canContinue = rfb.canContinue
  PROVE  Balance(c + 1, 1)'
<1>1. Len(sent) \in Nat /\ c \in Nat
  BY SeqFacts DEF Balance
<1>2. AskedBy(sent, c + 1) = AskedBy(sent, c) + 1
  BY <1>1, AskedNext
<1>3. AskedBy(sent, c) \in 0 .. c
  BY <1>1, AskedNumber
<1>4. Answered(handled) \in Nat
  BY AnsweredNext DEF Balance
<1>5. c + 1 \in 0 .. Len(sent)
  BY <1>1 DEF Balance
<1>6. Answered(handled) + 1 = AskedBy(sent, c + 1)
  BY <1>2, <1>3, <1>4 DEF Balance
<1>. QED  BY <1>5, <1>6 DEF Balance

\* It comes without rectangles while the screen is being drawn.
LEMMA BalanceDrops ==
  ASSUME NEW c, Balance(c, 0), c # Len(sent), sent[c + 1] = "update", UNCHANGED <<sent, owed>>,
         NEW of, Handle(of, "dropped"),
         rfb'.hollow = TRUE, rfb'.canContinue = rfb.canContinue
  PROVE  Balance(c + 1, 0)'
<1>1. PICK h : h = Append(handled, [of |-> of, did |-> "dropped"]) /\ handled' = h
  BY DEF Handle
<1>2. IsSeq(h)
  BY <1>1, Appended DEF Balance
<1>3. Answered(h) = Answered(handled) + 1 /\ Answered(handled) \in Nat
  BY <1>1, AnsweredNext DEF Balance, Over
<1>4. Len(sent) \in Nat /\ c \in Nat
  BY SeqFacts DEF Balance
<1>5. AskedBy(sent, c + 1) = AskedBy(sent, c) + 1
  BY <1>4, AskedNext
<1>6. AskedBy(sent, c) \in 0 .. c /\ AskedBy(sent, Len(sent)) \in 0 .. Len(sent)
  BY <1>4, AskedNumber
<1>7. c + 1 \in 0 .. Len(sent) /\ c + 1 <= Len(sent) /\ c + 1 \in Nat
  BY <1>4 DEF Balance
<1>8. AskedBy(sent, c + 1) <= AskedBy(sent, Len(sent))
  BY <1>4, <1>7, AskedMore
<1>9. PICK k \in Nat, m \in Nat, x \in Nat, y \in Nat :
        k = Answered(handled) /\ m = AskedBy(sent, c) /\ x = AskedBy(sent, Len(sent)) /\ y = owed
  BY <1>3, <1>6 DEF Balance
<1>10. k = m /\ m + 1 <= x /\ y <= k + 1
  BY <1>5, <1>8, <1>9 DEF Balance
<1>11. ~rfb.canContinue => y + x - k = IF rfb.hollow THEN 0 ELSE 1
  BY <1>9 DEF Balance
<1>12. ~rfb.canContinue => y + x - (k + 1) = 0
  BY <1>10, <1>11
<1>. QED  BY <1>1, <1>2, <1>3, <1>5, <1>7, <1>9, <1>10, <1>12 DEF Balance

\* An update is over, and the next one is asked for.
LEMMA BalanceCloses ==
  ASSUME NEW c, Balance(c, 1), UNCHANGED sent, NEW of, Handle(of, "update"),
         rfb.continuous => rfb.canContinue,
         owed' = IF rfb.continuous THEN owed ELSE owed + 1,
         rfb'.hollow = rfb.hollow, rfb'.canContinue = rfb.canContinue
  PROVE  Balance(c, 0)'
<1>1. PICK h : h = Append(handled, [of |-> of, did |-> "update"]) /\ handled' = h
  BY DEF Handle
<1>2. IsSeq(h)
  BY <1>1, Appended DEF Balance
<1>3. Answered(h) = Answered(handled) + 1 /\ Answered(handled) \in Nat
  BY <1>1, AnsweredNext DEF Balance, Over
<1>4. Len(sent) \in Nat /\ c \in Nat
  BY SeqFacts DEF Balance
<1>5. AskedBy(sent, c) \in 0 .. c /\ AskedBy(sent, Len(sent)) \in 0 .. Len(sent)
  BY <1>4, AskedNumber
<1>6. PICK k \in Nat, m \in Nat, x \in Nat, y \in Nat :
        k = Answered(handled) /\ m = AskedBy(sent, c) /\ x = AskedBy(sent, Len(sent)) /\ y = owed
  BY <1>3, <1>5 DEF Balance
<1>7. /\ k + 1 = m /\ y <= k + 1
      /\ ~rfb.canContinue => y + x - k = IF rfb.hollow THEN 0 ELSE 1
  BY <1>6 DEF Balance
<1>8. /\ owed' \in Nat /\ owed' <= k + 2
      /\ ~rfb.canContinue => owed' + x - (k + 1) = IF rfb.hollow THEN 0 ELSE 1
  <2>1. CASE rfb.continuous
    BY <1>6, <1>7, <2>1
  <2>2. CASE ~rfb.continuous
    <3>1. owed' = y + 1
      BY <1>6, <2>2
    <3>2. (y + 1) + x - (k + 1) = y + x - k
      OBVIOUS
    <3>. QED  BY <1>7, <3>1, <3>2
  <2>. QED  BY <2>1, <2>2
<1>9. Answered(handled') = k + 1
  BY <1>1, <1>3, <1>6
<1>. QED  BY <1>1, <1>2, <1>6, <1>7, <1>8, <1>9 DEF Balance

\* A message is sent.
LEMMA BalanceSends ==
  ASSUME NEW c, NEW open, Balance(c, open), NEW type, sent' = Append(sent, type),
         UNCHANGED handled, type = "update" => owed > 0 \/ rfb.continuous,
         rfb.continuous => rfb.canContinue,
         owed' = IF type = "update" /\ owed > 0 THEN owed - 1 ELSE owed,
         rfb'.hollow = rfb.hollow, rfb'.canContinue = rfb.canContinue
  PROVE  Balance(c, open)'
<1>1a. PICK n \in Nat : n = Len(sent)
  BY SeqFacts DEF Balance
<1>1. PICK s : n = Len(sent) /\ s = Append(sent, type)
  BY <1>1a
<1>2. Len(sent) = n /\ IsSeq(sent)
  BY <1>1 DEF Balance
<1>3. IsSeq(s) /\ Len(s) = n + 1 /\ s[n + 1] = type /\ \A i \in 1 .. n : s[i] = sent[i]
  BY <1>1, <1>2, AppendedTo
<1>4. c \in 0 .. n /\ c \in Nat /\ c \in 0 .. n + 1
  BY <1>1 DEF Balance
<1>5. AskedBy(s, c) = AskedBy(sent, c)
  <2>1. \A i \in 1 .. c : s[i] = sent[i]
    BY <1>3, <1>4
  <2>. QED  BY <1>4, <2>1, AskedAlike
<1>6. AskedBy(s, n) = AskedBy(sent, n)
  BY <1>3, AskedAlike
<1>7. AskedBy(s, n + 1) = AskedBy(s, n) + IF type = "update" THEN 1 ELSE 0
  BY <1>3, AskedNext
<1>8. AskedBy(sent, n) \in 0 .. n
  BY AskedNumber
<1>9. Answered(handled) \in Nat
  BY AnsweredNext DEF Balance
<1>10. PICK k \in Nat, x \in Nat, y \in Nat :
         k = Answered(handled) /\ x = AskedBy(sent, n) /\ y = owed
  BY <1>8, <1>9 DEF Balance
<1>11. /\ y <= k + 1
       /\ ~rfb.canContinue => y + x - k = IF rfb.hollow THEN 0 ELSE 1
  BY <1>1, <1>10 DEF Balance
<1>12. PICK z \in Nat : z = AskedBy(s, n + 1) /\ z = x + IF type = "update" THEN 1 ELSE 0
  BY <1>6, <1>7, <1>10
<1>13. /\ owed' \in Nat /\ owed' <= k + 1
       /\ ~rfb.canContinue => owed' + z - k = IF rfb.hollow THEN 0 ELSE 1
  <2>1. CASE type # "update"
    BY <1>10, <1>11, <1>12, <2>1
  <2>2. CASE type = "update" /\ owed > 0
    <3>1. owed' = y - 1 /\ y > 0 /\ z = x + 1
      BY <1>10, <1>12, <2>2
    <3>2. (y - 1) + z - k = y + x - k
      BY <3>1
    <3>. QED  BY <1>11, <3>1, <3>2
  <2>3. CASE type = "update" /\ ~(owed > 0)
    <3>1. owed' = y /\ rfb.canContinue
      BY <1>10, <2>3
    <3>. QED  BY <1>11, <3>1
  <2>. QED  BY <2>1, <2>2, <2>3
<1>14. sent' = s /\ handled' = handled
  BY <1>1
<1>. QED  BY <1>3, <1>4, <1>5, <1>10, <1>12, <1>13, <1>14 DEF Balance

\* In the words of the property.
LEMMA BalanceMeans ==
  ASSUME NEW c, NEW open \in Nat, Balance(c, open)
  PROVE  /\ OneUpdateUnderWay
         /\ owed \in 0 .. Len(sent) + 1
<1>1. PICK n \in Nat : n = Len(sent) /\ DOMAIN sent = 1 .. n
  BY SeqFacts DEF Balance
<1>2. c \in 0 .. n /\ c \in Nat /\ c <= n
  BY <1>1 DEF Balance
<1>3. AskedBy(sent, c) \in 0 .. c
  BY <1>2, AskedNumber
<1>4. Answered(handled) \in Nat
  BY AnsweredNext DEF Balance
<1>5. owed \in 0 .. n + 1
  BY <1>2, <1>3, <1>4 DEF Balance
<1>6. OneUpdateUnderWay
  BY <1>1 DEF Balance, OneUpdateUnderWay, AskedBy, Answered, Over
<1>. QED  BY <1>1, <1>5, <1>6

-----------------------------------------------------------------------------
(***************************************************************************)
(* The messages of a server, and how they are laid out.                    *)
(***************************************************************************)
HeadCell(n, m) == [kind |-> "message", n |-> n, m |-> m]
RectCell(of, r) == [kind |-> "rect", of |-> of, r |-> r]
RectFields(n, m) == [j \in 1 .. Len(m.rects) |-> RectBytes(<<n, j>>, m.rects[j])]
RectPieces(n, m) ==
  [j \in 1 .. Len(m.rects) |-> [p \in 1 .. PieceCount(m.rects[j]) |-> <<n, j, p>>]]
PartsLeft(n, m, j) == Glue([k \in 1 .. Len(m.rects) - j |-> <<n, j + k>>], << <<n, 0>> >>)

LEMMA RectBytesAre ==
  ASSUME NEW of, NEW r, RectOK(r)
  PROVE  /\ RectBytes(of, r) = Glue(Field(RectCell(of, r), 12), Body(r))
         /\ IsSeq(RectBytes(of, r)) /\ IsSeq(Body(r))
         /\ IsSeq(Field(RectCell(of, r), 12)) /\ Len(Field(RectCell(of, r), 12)) = 12
         /\ Field(RectCell(of, r), 12)[1] = RectCell(of, r)
<1>1. RectBytes(of, r) = Glue(Field(RectCell(of, r), 12), Body(r))
  BY DEF RectBytes, RectCell, Glue
<1>2. PICK cell, f : cell = RectCell(of, r) /\ f = Field(cell, 12)
  OBVIOUS
<1>3. IsSeq(f) /\ Len(f) = 12 /\ f[1] = cell
  <2>1. PICK n \in Nat : n = 12
    OBVIOUS
  <2>2. n > 0
    BY <2>1
  <2>3. IsSeq(Field(cell, n)) /\ Len(Field(cell, n)) = n /\ Field(cell, n)[1] = cell
    BY <2>2, FieldFacts
  <2>. QED  BY <1>2, <2>1, <2>3
<1>4. IsSeq(Body(r))
  BY BodyIsSeq
<1>5. IsSeq(Glue(f, Body(r)))
  BY <1>3, <1>4, Joined
<1>. QED  BY <1>1, <1>2, <1>3, <1>4, <1>5

LEMMA RectFieldsAreSeqs ==
  ASSUME NEW n, NEW m, UpdateOK(m)
  PROVE  /\ Len(m.rects) \in Nat /\ IsSeq(m.rects)
         /\ Seqs(RectFields(n, m)) /\ Len(RectFields(n, m)) = Len(m.rects)
         /\ Seqs(RectPieces(n, m)) /\ Len(RectPieces(n, m)) = Len(m.rects)
         /\ \A j \in 1 .. Len(m.rects) :
              /\ RectOK(m.rects[j])
              /\ RectFields(n, m)[j] = RectBytes(<<n, j>>, m.rects[j])
              /\ RectPieces(n, m)[j] = Run(<<n, j>>, 0, PieceCount(m.rects[j]))
<1>1. IsSeq(m.rects) /\ \A j \in 1 .. Len(m.rects) : RectOK(m.rects[j])
  BY DEF UpdateOK, IsSeq
<1>2a. PICK l \in Nat : l = Len(m.rects)
  BY <1>1, SeqFacts
<1>2. PICK f, g : l = Len(m.rects) /\ f = RectFields(n, m) /\ g = RectPieces(n, m)
  BY <1>2a
<1>3. f = [j \in 1 .. l |-> f[j]] /\ \A j \in 1 .. l : f[j] = RectBytes(<<n, j>>, m.rects[j])
  BY <1>2 DEF RectFields
<1>4. /\ g = [j \in 1 .. l |-> g[j]]
      /\ \A j \in 1 .. l : g[j] = [p \in 1 .. PieceCount(m.rects[j]) |-> <<n, j, p>>]
  BY <1>2 DEF RectPieces
<1>5. \A j \in 1 .. l : g[j] = Run(<<n, j>>, 0, PieceCount(m.rects[j])) /\ IsSeq(g[j])
  <2>1. TAKE j \in 1 .. l
  <2>2. PICK c \in Nat : c = PieceCount(m.rects[j])
    BY <1>1, <1>2, PieceCounts
  <2>3. \A p \in 1 .. c : <<n, j, p>> = Append(<<n, j>>, 0 + p)
    OBVIOUS
  <2>4. g[j] = [p \in 1 .. c |-> <<n, j, p>>]
    BY <1>4, <2>2
  <2>5. g[j] = Run(<<n, j>>, 0, c)
    BY <2>3, <2>4 DEF Run
  <2>6. IsSeq(Run(<<n, j>>, 0, c))
    BY RunFacts
  <2>. QED  BY <2>2, <2>5, <2>6
<1>6. IsSeq(f) /\ Len(f) = l
  BY <1>3, FunIsSeq
<1>7. IsSeq(g) /\ Len(g) = l
  BY <1>4, FunIsSeq
<1>8. \A j \in 1 .. l : IsSeq(f[j])
  <2>1. TAKE j \in 1 .. l
  <2>2. PICK of, r : of = <<n, j>> /\ r = m.rects[j]
    OBVIOUS
  <2>3. RectOK(r) /\ f[j] = RectBytes(of, r)
    BY <1>1, <1>2, <1>3, <2>2
  <2>. QED  BY <2>3, RectBytesAre
<1>. QED  BY <1>1, <1>2, <1>3, <1>5, <1>6, <1>7, <1>8 DEF Seqs

LEMMA PartsLeftAre ==
  ASSUME NEW n, NEW m, UpdateOK(m), NEW j \in 0 .. Len(m.rects)
  PROVE  /\ IsSeq(PartsLeft(n, m, j))
         /\ j = Len(m.rects) => PartsLeft(n, m, j) = << <<n, 0>> >>
         /\ j # Len(m.rects) => PartsLeft(n, m, j) = Glue(<< <<n, j + 1>> >>, PartsLeft(n, m, j + 1))
<1>1a. PICK l \in Nat : l = Len(m.rects)
  BY RectFieldsAreSeqs
<1>1. PICK e : l = Len(m.rects) /\ e = << <<n, 0>> >>
  BY <1>1a
<1>2. IsSeq(e)
  BY <1>1, One
<1>3. \A i \in 0 .. l : PartsLeft(n, m, i) = Glue(Run(<<n>>, i, l - i), e)
  <2>1. TAKE i \in 0 .. l
  <2>2. \A k \in 1 .. l - i : <<n, i + k>> = Append(<<n>>, i + k)
    OBVIOUS
  <2>3. [k \in 1 .. l - i |-> <<n, i + k>>] = Run(<<n>>, i, l - i)
    BY <2>2 DEF Run
  <2>. QED  BY <1>1, <2>3 DEF PartsLeft
<1>4. j \in Nat /\ j \in 0 .. l /\ l - j \in Nat
  BY <1>1
<1>5. IsSeq(Run(<<n>>, j, l - j))
  BY <1>4, RunFacts
<1>6. IsSeq(PartsLeft(n, m, j))
  BY <1>2, <1>3, <1>4, <1>5, Joined
<1>7. ASSUME j = l PROVE PartsLeft(n, m, j) = e
  <2>1. l - j = 0
    BY <1>7
  <2>2. Run(<<n>>, j, 0) = <<>>
    BY <1>4, RunFacts
  <2>. QED  BY <1>2, <1>3, <1>4, <2>1, <2>2, JoinEmpty
<1>8. ASSUME j # l PROVE PartsLeft(n, m, j) = Glue(<< <<n, j + 1>> >>, PartsLeft(n, m, j + 1))
  <2>1. PICK c \in Nat, i \in Nat : c = l - j /\ c # 0 /\ i = j + 1 /\ i \in 0 .. l /\ c - 1 = l - i
    BY <1>4, <1>8
  <2>2. Run(<<n>>, j, c) = Glue(<<Append(<<n>>, j + 1)>>, Run(<<n>>, j + 1, c - 1))
    BY <1>4, <2>1, RunFirst
  <2>3. Append(<<n>>, j + 1) = <<n, j + 1>>
    <3>1. \A x \in Nat : <<n, x>> = Append(<<n>>, x)
      OBVIOUS
    <3>2. j + 1 \in Nat
      BY <1>4
    <3>. QED  BY <3>1, <3>2, Zenon
  <2>4. PICK a, b : a = << <<n, j + 1>> >> /\ b = Run(<<n>>, i, l - i)
    OBVIOUS
  <2>5. Run(<<n>>, j, l - j) = Glue(a, b)
    BY <2>1, <2>2, <2>3, <2>4
  <2>6. l - i \in Nat
    BY <2>1
  <2>7. IsSeq(a) /\ IsSeq(b)
    BY <2>4, <2>6, One, RunFacts
  <2>8. Glue(Glue(a, b), e) = Glue(a, Glue(b, e))
    BY <1>2, <2>7, JoinAssoc
  <2>9. PartsLeft(n, m, i) = Glue(b, e)
    BY <1>3, <2>1, <2>4
  <2>10. PartsLeft(n, m, j) = Glue(Glue(a, b), e)
    BY <1>3, <1>4, <2>5
  <2>. QED  BY <2>1, <2>4, <2>8, <2>9, <2>10
<1>. QED  BY <1>1, <1>6, <1>7, <1>8

\* What the bytes of a message are after its first field.
HeadSize(m) ==
  IF m.type = "update" THEN 4 ELSE IF m.type = "cut" THEN 8 ELSE IF m.type = "fence" THEN 9
  ELSE IF m.type = "xvp" THEN 4 ELSE 1
AfterHead(n, m) ==
  IF m.type = "update" THEN From(RectFields(n, m), 0)
  ELSE IF m.type = "cut" THEN Plain("text", m.len)
  ELSE IF m.type = "fence" THEN Plain("payload", m.len)
  ELSE <<>>

LEMMA HeadsAre ==
  ASSUME NEW n, NEW m
  PROVE  LET f == Field(HeadCell(n, m), HeadSize(m))
         IN HeadSize(m) \in Nat /\ IsSeq(f) /\ Len(f) = HeadSize(m) /\ Len(f) > 0 /\ f[1] = HeadCell(n, m)
<1>1. PICK k \in Nat : k = HeadSize(m) /\ k > 0
  BY DEF HeadSize
<1>2. PICK cell : cell = HeadCell(n, m)
  OBVIOUS
<1>. QED  BY <1>1, <1>2, FieldFacts

LEMMA BytesAre ==
  ASSUME NEW n, NEW m, MessageOK(m)
  PROVE  /\ Bytes(n, m) = Glue(Field(HeadCell(n, m), HeadSize(m)), AfterHead(n, m))
         /\ IsSeq(Bytes(n, m)) /\ IsSeq(AfterHead(n, m))
<1>. DEFINE f == Field(HeadCell(n, m), HeadSize(m))
<1>1. IsSeq(f)
  BY HeadsAre
<1>2. CASE m.type = "update"
  <2>1. Seqs(RectFields(n, m))
    BY <1>2, RectFieldsAreSeqs DEF MessageOK
  <2>2. From(RectFields(n, m), 0) = FlattenSeq(RectFields(n, m)) /\ IsSeq(FlattenSeq(RectFields(n, m)))
    BY <2>1, FromAll, FlattenIsSeq
  <2>3. Bytes(n, m) = Glue(f, FlattenSeq(RectFields(n, m)))
    BY <1>2 DEF Bytes, Glue, HeadCell, HeadSize, RectFields
  <2>4. AfterHead(n, m) = FlattenSeq(RectFields(n, m))
    BY <1>2, <2>2 DEF AfterHead
  <2>. HIDE DEF f
  <2>. QED  BY <1>1, <2>2, <2>3, <2>4, Joined DEF f
<1>3. CASE m.type = "cut"
  <2>1. m.len \in Nat
    BY <1>3 DEF MessageOK, CutOK
  <2>2. Bytes(n, m) = Glue(f, Plain("text", m.len))
    BY <1>3 DEF Bytes, Glue, HeadCell, HeadSize
  <2>3. AfterHead(n, m) = Plain("text", m.len) /\ IsSeq(Plain("text", m.len))
    BY <1>3, <2>1, PlainSize DEF AfterHead
  <2>. HIDE DEF f
  <2>. QED  BY <1>1, <2>2, <2>3, Joined DEF f
<1>4. CASE m.type = "fence"
  <2>1. m.len \in Nat
    BY <1>4 DEF MessageOK
  <2>2. Bytes(n, m) = Glue(f, Plain("payload", m.len))
    BY <1>4 DEF Bytes, Glue, HeadCell, HeadSize
  <2>3. AfterHead(n, m) = Plain("payload", m.len) /\ IsSeq(Plain("payload", m.len))
    BY <1>4, <2>1, PlainSize DEF AfterHead
  <2>. HIDE DEF f
  <2>. QED  BY <1>1, <2>2, <2>3, Joined DEF f
<1>5. CASE m.type \notin {"update", "cut", "fence"}
  <2>1. Bytes(n, m) = f
    BY <1>5 DEF Bytes, HeadCell, HeadSize
  <2>2. AfterHead(n, m) = <<>>
    BY <1>5 DEF AfterHead
  <2>. HIDE DEF f
  <2>. QED  BY <1>1, <2>1, <2>2, EmptyIsSeq, JoinEmpty DEF f
<1>. QED  BY <1>2, <1>3, <1>4, <1>5

LEMMA PartsAre ==
  ASSUME NEW n, NEW m, MessageOK(m)
  PROVE  /\ m.type = "update" =>
              Parts(n, m) = PartsLeft(n, m, 0) /\ Pieces(n, m) = From(RectPieces(n, m), 0)
         /\ m.type # "update" => Parts(n, m) = << <<n, 0>> >> /\ Pieces(n, m) = <<>>
         /\ IsSeq(Parts(n, m)) /\ IsSeq(Pieces(n, m))
<1>1. CASE m.type = "update"
  <2>1. UpdateOK(m)
    BY <1>1 DEF MessageOK
  <2>2. PICK l \in Nat : l = Len(m.rects)
    BY <2>1, RectFieldsAreSeqs
  <2>3. [k \in 1 .. l - 0 |-> <<n, 0 + k>>] = [j \in 1 .. l |-> <<n, j>>]
    OBVIOUS
  <2>4. Parts(n, m) = PartsLeft(n, m, 0)
    BY <1>1, <2>2, <2>3 DEF Parts, PartsLeft, Glue
  <2>5. 0 \in 0 .. Len(m.rects)
    BY <2>2
  <2>6. IsSeq(PartsLeft(n, m, 0))
    BY <2>1, <2>5, PartsLeftAre
  <2>7. Seqs(RectPieces(n, m))
    BY <2>1, RectFieldsAreSeqs
  <2>8. Pieces(n, m) = FlattenSeq(RectPieces(n, m))
    BY <1>1 DEF Pieces, RectPieces
  <2>9. From(RectPieces(n, m), 0) = FlattenSeq(RectPieces(n, m)) /\ IsSeq(FlattenSeq(RectPieces(n, m)))
    BY <2>7, FromAll, FlattenIsSeq
  <2>. QED  BY <1>1, <2>4, <2>6, <2>8, <2>9
<1>2. CASE m.type # "update"
  BY <1>2, One, EmptyIsSeq DEF Parts, Pieces
<1>. QED  BY <1>1, <1>2

\* All the messages a server has sent, and what is left of them after the
\* first c, or within number c after j rectangles.
BytesOf(msgs) == [i \in 1 .. Len(msgs) |-> Bytes(i, msgs[i])]
PartsOf(msgs) == [i \in 1 .. Len(msgs) |-> Parts(i, msgs[i])]
PiecesOf(msgs) == [i \in 1 .. Len(msgs) |-> Pieces(i, msgs[i])]

BytesAfter(msgs, c) == From(BytesOf(msgs), c)
PartsAfter(msgs, c) == From(PartsOf(msgs), c)
PiecesAfter(msgs, c) == From(PiecesOf(msgs), c)

BytesIn(msgs, c, j) == Glue(From(RectFields(c, msgs[c]), j), BytesAfter(msgs, c))
PartsIn(msgs, c, j) == Glue(PartsLeft(c, msgs[c], j), PartsAfter(msgs, c))
PiecesIn(msgs, c, j) == Glue(From(RectPieces(c, msgs[c]), j), PiecesAfter(msgs, c))

MessagesOK(msgs) == IsSeq(msgs) /\ \A i \in 1 .. Len(msgs) : MessageOK(msgs[i])

\* Message c is an update of at least j rectangles.
UpdateAt(msgs, c, j) ==
  /\ MessagesOK(msgs)
  /\ c \in 1 .. Len(msgs) /\ msgs[c].type = "update" /\ UpdateOK(msgs[c])
  /\ j \in 0 .. Len(msgs[c].rects)

LEMMA StreamsAreSeqs ==
  ASSUME NEW msgs, MessagesOK(msgs)
  PROVE  /\ Len(msgs) \in Nat
         /\ Seqs(BytesOf(msgs)) /\ Len(BytesOf(msgs)) = Len(msgs)
         /\ Seqs(PartsOf(msgs)) /\ Len(PartsOf(msgs)) = Len(msgs)
         /\ Seqs(PiecesOf(msgs)) /\ Len(PiecesOf(msgs)) = Len(msgs)
         /\ \A i \in 1 .. Len(msgs) : /\ BytesOf(msgs)[i] = Bytes(i, msgs[i])
                                      /\ PartsOf(msgs)[i] = Parts(i, msgs[i])
                                      /\ PiecesOf(msgs)[i] = Pieces(i, msgs[i])
<1>1. PICK n \in Nat : n = Len(msgs)
  BY SeqFacts DEF MessagesOK
<1>2. PICK b, p, q : b = BytesOf(msgs) /\ p = PartsOf(msgs) /\ q = PiecesOf(msgs)
  OBVIOUS
<1>3. b = [i \in 1 .. n |-> b[i]] /\ \A i \in 1 .. n : b[i] = Bytes(i, msgs[i])
  BY <1>1, <1>2 DEF BytesOf
<1>4. p = [i \in 1 .. n |-> p[i]] /\ \A i \in 1 .. n : p[i] = Parts(i, msgs[i])
  BY <1>1, <1>2 DEF PartsOf
<1>5. q = [i \in 1 .. n |-> q[i]] /\ \A i \in 1 .. n : q[i] = Pieces(i, msgs[i])
  BY <1>1, <1>2 DEF PiecesOf
<1>6. IsSeq(b) /\ Len(b) = n
  BY <1>3, FunIsSeq
<1>7. IsSeq(p) /\ Len(p) = n
  BY <1>4, FunIsSeq
<1>8. IsSeq(q) /\ Len(q) = n
  BY <1>5, FunIsSeq
<1>9. \A i \in 1 .. n : IsSeq(b[i]) /\ IsSeq(p[i]) /\ IsSeq(q[i])
  <2>1. TAKE i \in 1 .. n
  <2>2. PICK m : m = msgs[i] /\ MessageOK(m)
    BY <1>1 DEF MessagesOK
  <2>3. b[i] = Bytes(i, m) /\ p[i] = Parts(i, m) /\ q[i] = Pieces(i, m)
    BY <1>3, <1>4, <1>5, <2>2
  <2>. QED  BY <2>2, <2>3, BytesAre, PartsAre
<1>. QED  BY <1>1, <1>2, <1>3, <1>4, <1>5, <1>6, <1>7, <1>8, <1>9 DEF Seqs

LEMMA AfterIsSeq ==
  ASSUME NEW msgs, MessagesOK(msgs), NEW c \in 0 .. Len(msgs)
  PROVE  IsSeq(BytesAfter(msgs, c)) /\ IsSeq(PartsAfter(msgs, c)) /\ IsSeq(PiecesAfter(msgs, c))
<1>1. c \in 0 .. Len(BytesOf(msgs)) /\ c \in 0 .. Len(PartsOf(msgs)) /\ c \in 0 .. Len(PiecesOf(msgs))
  BY StreamsAreSeqs
<1>. QED  BY <1>1, StreamsAreSeqs, FromIsSeq DEF BytesAfter, PartsAfter, PiecesAfter

LEMMA AfterNext ==
  ASSUME NEW msgs, MessagesOK(msgs), NEW c \in 0 .. Len(msgs), c # Len(msgs),
         NEW n, n = c + 1, NEW m, m = msgs[n]
  PROVE  /\ n \in 1 .. Len(msgs) /\ n \in 0 .. Len(msgs) /\ MessageOK(m)
         /\ BytesAfter(msgs, c) = Glue(Bytes(n, m), BytesAfter(msgs, n))
         /\ PartsAfter(msgs, c) = Glue(Parts(n, m), PartsAfter(msgs, n))
         /\ PiecesAfter(msgs, c) = Glue(Pieces(n, m), PiecesAfter(msgs, n))
<1>1. n \in 1 .. Len(msgs) /\ n \in 0 .. Len(msgs)
  BY StreamsAreSeqs
<1>2. MessageOK(m)
  BY <1>1 DEF MessagesOK
<1>3. PICK b, p, q : b = BytesOf(msgs) /\ p = PartsOf(msgs) /\ q = PiecesOf(msgs)
  OBVIOUS
<1>4. /\ Seqs(b) /\ Len(b) = Len(msgs) /\ Seqs(p) /\ Len(p) = Len(msgs) /\ Seqs(q) /\ Len(q) = Len(msgs)
  BY <1>3, StreamsAreSeqs
<1>5. b[n] = Bytes(n, m) /\ p[n] = Parts(n, m) /\ q[n] = Pieces(n, m)
  BY <1>1, <1>3, StreamsAreSeqs
<1>6. c \in 0 .. Len(b) /\ c # Len(b) /\ c \in 0 .. Len(p) /\ c # Len(p) /\ c \in 0 .. Len(q) /\ c # Len(q)
  BY <1>4
<1>7. From(b, c) = Glue(b[c + 1], From(b, c + 1))
  BY <1>4, <1>6, FromStep
<1>8. From(p, c) = Glue(p[c + 1], From(p, c + 1))
  BY <1>4, <1>6, FromStep
<1>9. From(q, c) = Glue(q[c + 1], From(q, c + 1))
  BY <1>4, <1>6, FromStep
<1>. QED
  BY <1>1, <1>2, <1>3, <1>5, <1>7, <1>8, <1>9 DEF BytesAfter, PartsAfter, PiecesAfter

\* "more" is msgs and one message m after them, number n.
OneMore(more, msgs, n, m) ==
  /\ MessagesOK(more) /\ Len(more) = n /\ more[n] = m /\ \A i \in 1 .. Len(msgs) : more[i] = msgs[i]

AfterGrows(more, msgs, n, m, c) ==
  /\ BytesAfter(more, c) = Glue(BytesAfter(msgs, c), Bytes(n, m))
  /\ PartsAfter(more, c) = Glue(PartsAfter(msgs, c), Parts(n, m))
  /\ PiecesAfter(more, c) = Glue(PiecesAfter(msgs, c), Pieces(n, m))

LEMMA AfterMore ==
  ASSUME NEW msgs, MessagesOK(msgs), NEW c \in 0 .. Len(msgs), NEW m, MessageOK(m),
         NEW more, more = Append(msgs, m), NEW n, n = Len(msgs) + 1
  PROVE  OneMore(more, msgs, n, m) /\ AfterGrows(more, msgs, n, m, c)
<1>1. PICK l \in Nat : l = Len(msgs)
  BY StreamsAreSeqs
<1>2. IsSeq(more) /\ Len(more) = l + 1 /\ more[l + 1] = m /\ \A i \in 1 .. l : more[i] = msgs[i]
  <2>1. IsSeq(msgs) /\ Len(msgs) = l
    BY <1>1 DEF MessagesOK
  <2>. QED  BY <2>1, AppendedTo
<1>3. MessagesOK(more)
  <2>1. ASSUME NEW i \in 1 .. l + 1 PROVE MessageOK(more[i])
    <3>1. i \in 1 .. l \/ i = l + 1
      OBVIOUS
    <3>2. CASE i \in 1 .. l
      BY <1>1, <1>2, <3>2 DEF MessagesOK
    <3>3. CASE i = l + 1
      BY <1>2, <3>3
    <3>. QED  BY <3>1, <3>2, <3>3
  <2>. QED  BY <1>2, <2>1 DEF MessagesOK
<1>4. PICK b, p, q : b = BytesOf(msgs) /\ p = PartsOf(msgs) /\ q = PiecesOf(msgs)
  OBVIOUS
<1>5. PICK x, y, z : x = Bytes(n, m) /\ y = Parts(n, m) /\ z = Pieces(n, m)
  OBVIOUS
<1>6. IsSeq(x) /\ IsSeq(y) /\ IsSeq(z)
  BY <1>5, BytesAre, PartsAre
<1>7. Seqs(b) /\ Len(b) = l /\ Seqs(p) /\ Len(p) = l /\ Seqs(q) /\ Len(q) = l
  BY <1>1, <1>4, StreamsAreSeqs
<1>8. BytesOf(more) = Append(b, x)
  <2>1. \A i \in 1 .. l : BytesOf(more)[i] = b[i]
    <3>1. TAKE i \in 1 .. l
    <3>2. i \in 1 .. Len(more) /\ more[i] = msgs[i]
      BY <1>2
    <3>3. BytesOf(more)[i] = Bytes(i, more[i])
      BY <1>3, <3>2, StreamsAreSeqs
    <3>4. b[i] = Bytes(i, msgs[i])
      BY <1>1, <1>4, StreamsAreSeqs
    <3>. QED  BY <3>2, <3>3, <3>4
  <2>2. BytesOf(more)[l + 1] = x /\ IsSeq(BytesOf(more)) /\ Len(BytesOf(more)) = l + 1
    <3>1. l + 1 \in 1 .. Len(more)
      BY <1>2
    <3>. QED  BY <1>1, <1>2, <1>3, <1>5, <3>1, StreamsAreSeqs DEF Seqs
  <2>3. /\ IsSeq(Append(b, x)) /\ Len(Append(b, x)) = l + 1 /\ Append(b, x)[l + 1] = x
        /\ \A i \in 1 .. l : Append(b, x)[i] = b[i]
    BY <1>7, AppendedTo DEF Seqs
  <2>4. \A i \in 1 .. l + 1 : BytesOf(more)[i] = Append(b, x)[i]
    <3>1. TAKE i \in 1 .. l + 1
    <3>2. i \in 1 .. l \/ i = l + 1
      OBVIOUS
    <3>. QED  BY <2>1, <2>2, <2>3, <3>2
  <2>. QED  BY <2>2, <2>3, <2>4, SameSeq
<1>9. PartsOf(more) = Append(p, y)
  <2>1. \A i \in 1 .. l : PartsOf(more)[i] = p[i]
    <3>1. TAKE i \in 1 .. l
    <3>2. i \in 1 .. Len(more) /\ more[i] = msgs[i]
      BY <1>2
    <3>3. PartsOf(more)[i] = Parts(i, more[i])
      BY <1>3, <3>2, StreamsAreSeqs
    <3>4. p[i] = Parts(i, msgs[i])
      BY <1>1, <1>4, StreamsAreSeqs
    <3>. QED  BY <3>2, <3>3, <3>4
  <2>2. PartsOf(more)[l + 1] = y /\ IsSeq(PartsOf(more)) /\ Len(PartsOf(more)) = l + 1
    <3>1. l + 1 \in 1 .. Len(more)
      BY <1>2
    <3>. QED  BY <1>1, <1>2, <1>3, <1>5, <3>1, StreamsAreSeqs DEF Seqs
  <2>3. /\ IsSeq(Append(p, y)) /\ Len(Append(p, y)) = l + 1 /\ Append(p, y)[l + 1] = y
        /\ \A i \in 1 .. l : Append(p, y)[i] = p[i]
    BY <1>7, AppendedTo DEF Seqs
  <2>4. \A i \in 1 .. l + 1 : PartsOf(more)[i] = Append(p, y)[i]
    <3>1. TAKE i \in 1 .. l + 1
    <3>2. i \in 1 .. l \/ i = l + 1
      OBVIOUS
    <3>. QED  BY <2>1, <2>2, <2>3, <3>2
  <2>. QED  BY <2>2, <2>3, <2>4, SameSeq
<1>10. PiecesOf(more) = Append(q, z)
  <2>1. \A i \in 1 .. l : PiecesOf(more)[i] = q[i]
    <3>1. TAKE i \in 1 .. l
    <3>2. i \in 1 .. Len(more) /\ more[i] = msgs[i]
      BY <1>2
    <3>3. PiecesOf(more)[i] = Pieces(i, more[i])
      BY <1>3, <3>2, StreamsAreSeqs
    <3>4. q[i] = Pieces(i, msgs[i])
      BY <1>1, <1>4, StreamsAreSeqs
    <3>. QED  BY <3>2, <3>3, <3>4
  <2>2. PiecesOf(more)[l + 1] = z /\ IsSeq(PiecesOf(more)) /\ Len(PiecesOf(more)) = l + 1
    <3>1. l + 1 \in 1 .. Len(more)
      BY <1>2
    <3>. QED  BY <1>1, <1>2, <1>3, <1>5, <3>1, StreamsAreSeqs DEF Seqs
  <2>3. /\ IsSeq(Append(q, z)) /\ Len(Append(q, z)) = l + 1 /\ Append(q, z)[l + 1] = z
        /\ \A i \in 1 .. l : Append(q, z)[i] = q[i]
    BY <1>7, AppendedTo DEF Seqs
  <2>4. \A i \in 1 .. l + 1 : PiecesOf(more)[i] = Append(q, z)[i]
    <3>1. TAKE i \in 1 .. l + 1
    <3>2. i \in 1 .. l \/ i = l + 1
      OBVIOUS
    <3>. QED  BY <2>1, <2>2, <2>3, <3>2
  <2>. QED  BY <2>2, <2>3, <2>4, SameSeq
<1>11. c \in 0 .. Len(b) /\ c \in 0 .. Len(p) /\ c \in 0 .. Len(q)
  BY <1>1, <1>7
<1>12. From(Append(b, x), c) = Glue(From(b, c), x)
  BY <1>6, <1>7, <1>11, FromAppend
<1>13. From(Append(p, y), c) = Glue(From(p, c), y)
  BY <1>6, <1>7, <1>11, FromAppend
<1>14. From(Append(q, z), c) = Glue(From(q, c), z)
  BY <1>6, <1>7, <1>11, FromAppend
<1>15. OneMore(more, msgs, n, m)
  BY <1>1, <1>2, <1>3 DEF OneMore
<1>. QED
  BY <1>4, <1>5, <1>8, <1>9, <1>10, <1>12, <1>13, <1>14, <1>15
     DEF BytesAfter, PartsAfter, PiecesAfter, AfterGrows

LEMMA InIsSeq ==
  ASSUME NEW msgs, NEW c, NEW j, UpdateAt(msgs, c, j)
  PROVE  /\ Len(msgs[c].rects) \in Nat /\ j \in Nat /\ c \in 0 .. Len(msgs)
         /\ IsSeq(From(RectFields(c, msgs[c]), j)) /\ IsSeq(BytesAfter(msgs, c))
         /\ IsSeq(PartsLeft(c, msgs[c], j)) /\ IsSeq(PartsAfter(msgs, c))
         /\ IsSeq(From(RectPieces(c, msgs[c]), j)) /\ IsSeq(PiecesAfter(msgs, c))
         /\ IsSeq(BytesIn(msgs, c, j)) /\ IsSeq(PartsIn(msgs, c, j)) /\ IsSeq(PiecesIn(msgs, c, j))
<1>1. MessagesOK(msgs) /\ c \in 1 .. Len(msgs) /\ UpdateOK(msgs[c]) /\ j \in 0 .. Len(msgs[c].rects)
  BY DEF UpdateAt
<1>2. c \in 0 .. Len(msgs)
  BY <1>1, StreamsAreSeqs
<1>3. PICK m : m = msgs[c] /\ UpdateOK(m) /\ j \in 0 .. Len(m.rects)
  BY <1>1
<1>4. IsSeq(BytesAfter(msgs, c)) /\ IsSeq(PartsAfter(msgs, c)) /\ IsSeq(PiecesAfter(msgs, c))
  BY <1>1, <1>2, AfterIsSeq
<1>5. Len(m.rects) \in Nat /\ Seqs(RectFields(c, m)) /\ Len(RectFields(c, m)) = Len(m.rects)
      /\ Seqs(RectPieces(c, m)) /\ Len(RectPieces(c, m)) = Len(m.rects)
  BY <1>3, RectFieldsAreSeqs
<1>6. j \in 0 .. Len(RectFields(c, m)) /\ j \in 0 .. Len(RectPieces(c, m))
  BY <1>3, <1>5
<1>7. IsSeq(From(RectFields(c, m), j)) /\ IsSeq(From(RectPieces(c, m), j))
  BY <1>5, <1>6, FromIsSeq
<1>8. IsSeq(PartsLeft(c, m, j))
  BY <1>3, PartsLeftAre
<1>9. j \in Nat
  BY <1>3, <1>5
<1>. QED  BY <1>2, <1>3, <1>4, <1>5, <1>7, <1>8, <1>9, Joined DEF BytesIn, PartsIn, PiecesIn

\* An update is its header and its rectangles.
LEMMA InFirst ==
  ASSUME NEW msgs, MessagesOK(msgs), NEW c \in 0 .. Len(msgs), c # Len(msgs),
         NEW n, n = c + 1, NEW m, m = msgs[n], m.type = "update"
  PROVE  /\ UpdateAt(msgs, n, 0)
         /\ BytesAfter(msgs, c) = Glue(Field(HeadCell(n, m), 4), BytesIn(msgs, n, 0))
         /\ PartsAfter(msgs, c) = PartsIn(msgs, n, 0)
         /\ PiecesAfter(msgs, c) = PiecesIn(msgs, n, 0)
<1>1. /\ n \in 1 .. Len(msgs) /\ n \in 0 .. Len(msgs) /\ MessageOK(m)
      /\ BytesAfter(msgs, c) = Glue(Bytes(n, m), BytesAfter(msgs, n))
      /\ PartsAfter(msgs, c) = Glue(Parts(n, m), PartsAfter(msgs, n))
      /\ PiecesAfter(msgs, c) = Glue(Pieces(n, m), PiecesAfter(msgs, n))
  BY AfterNext
<1>2. UpdateOK(m)
  BY <1>1 DEF MessageOK
<1>3. 0 \in 0 .. Len(m.rects)
  BY <1>2, RectFieldsAreSeqs
<1>4. UpdateAt(msgs, n, 0)
  BY <1>1, <1>2, <1>3 DEF UpdateAt
<1>5. PICK f, x, y : f = Field(HeadCell(n, m), 4) /\ x = AfterHead(n, m) /\ y = BytesAfter(msgs, n)
  OBVIOUS
<1>6. HeadSize(m) = 4 /\ x = From(RectFields(n, m), 0)
  BY <1>5 DEF HeadSize, AfterHead
<1>7. Bytes(n, m) = Glue(f, x) /\ IsSeq(x)
  BY <1>1, <1>5, <1>6, BytesAre
<1>8. IsSeq(f) /\ IsSeq(y)
  BY <1>4, <1>5, <1>6, HeadsAre, InIsSeq
<1>9. Glue(Glue(f, x), y) = Glue(f, Glue(x, y))
  BY <1>7, <1>8, JoinAssoc
<1>10. BytesIn(msgs, n, 0) = Glue(x, y)
  BY <1>5, <1>6 DEF BytesIn
<1>11. Parts(n, m) = PartsLeft(n, m, 0) /\ Pieces(n, m) = From(RectPieces(n, m), 0)
  BY <1>1, PartsAre
<1>. QED  BY <1>1, <1>4, <1>5, <1>7, <1>9, <1>10, <1>11 DEF PartsIn, PiecesIn

\* The next rectangle of an update.
LEMMA InNext ==
  ASSUME NEW msgs, NEW c, NEW j, UpdateAt(msgs, c, j), j # Len(msgs[c].rects),
         NEW k, k = j + 1, NEW r, r = msgs[c].rects[k]
  PROVE  /\ UpdateAt(msgs, c, k) /\ k \in 1 .. Len(msgs[c].rects) /\ RectOK(r)
         /\ BytesIn(msgs, c, j) = Glue(Field(RectCell(<<c, k>>, r), 12), Glue(Body(r), BytesIn(msgs, c, k)))
         /\ PartsIn(msgs, c, j) = Glue(<< <<c, k>> >>, PartsIn(msgs, c, k))
         /\ PiecesIn(msgs, c, j) = Glue(Run(<<c, k>>, 0, PieceCount(r)), PiecesIn(msgs, c, k))
<1>1. PICK m : m = msgs[c] /\ UpdateOK(m) /\ j \in 0 .. Len(m.rects) /\ j # Len(m.rects) /\ r = m.rects[k]
  BY DEF UpdateAt
<1>2. Len(m.rects) \in Nat /\ Seqs(RectFields(c, m)) /\ Len(RectFields(c, m)) = Len(m.rects)
      /\ Seqs(RectPieces(c, m)) /\ Len(RectPieces(c, m)) = Len(m.rects)
  BY <1>1, RectFieldsAreSeqs
<1>3. k \in 1 .. Len(m.rects) /\ k \in 0 .. Len(m.rects)
  BY <1>1, <1>2
<1>4. UpdateAt(msgs, c, k)
  BY <1>1, <1>3 DEF UpdateAt
<1>5. RectOK(r) /\ RectFields(c, m)[k] = RectBytes(<<c, k>>, r)
      /\ RectPieces(c, m)[k] = Run(<<c, k>>, 0, PieceCount(r))
  <2>1. \A i \in 1 .. Len(m.rects) :
          /\ RectOK(m.rects[i])
          /\ RectFields(c, m)[i] = RectBytes(<<c, i>>, m.rects[i])
          /\ RectPieces(c, m)[i] = Run(<<c, i>>, 0, PieceCount(m.rects[i]))
    BY <1>1, RectFieldsAreSeqs
  <2>. QED  BY <1>1, <1>3, <2>1
<1>6. PICK f, g : f = RectFields(c, m) /\ g = RectPieces(c, m)
  OBVIOUS
<1>7. j \in 0 .. Len(f) /\ j # Len(f) /\ j \in 0 .. Len(g) /\ j # Len(g)
  BY <1>1, <1>2, <1>6
<1>8. From(f, j) = Glue(f[j + 1], From(f, j + 1)) /\ IsSeq(f[j + 1])
  BY <1>2, <1>6, <1>7, FromStep
<1>9. From(g, j) = Glue(g[j + 1], From(g, j + 1)) /\ IsSeq(g[j + 1])
  BY <1>2, <1>6, <1>7, FromStep
<1>10. PICK x, y, z, b : x = Field(RectCell(<<c, k>>, r), 12) /\ y = Body(r) /\ z = From(f, k)
                         /\ b = BytesAfter(msgs, c)
  OBVIOUS
<1>11. IsSeq(x) /\ IsSeq(y) /\ RectBytes(<<c, k>>, r) = Glue(x, y)
  <2>1. PICK of : of = <<c, k>>
    OBVIOUS
  <2>. QED  BY <1>5, <1>10, <2>1, RectBytesAre
<1>12. IsSeq(z) /\ IsSeq(b)
  BY <1>1, <1>4, <1>6, <1>10, InIsSeq
<1>13. BytesIn(msgs, c, j) = Glue(Glue(Glue(x, y), z), b)
  BY <1>1, <1>5, <1>6, <1>8, <1>10, <1>11 DEF BytesIn
<1>14. Glue(Glue(x, y), z) = Glue(x, Glue(y, z)) /\ IsSeq(Glue(y, z))
  BY <1>11, <1>12, JoinAssoc, Joined
<1>15. Glue(Glue(x, Glue(y, z)), b) = Glue(x, Glue(Glue(y, z), b))
  BY <1>11, <1>12, <1>14, JoinAssoc
<1>16. Glue(Glue(y, z), b) = Glue(y, Glue(z, b))
  BY <1>11, <1>12, JoinAssoc
<1>17. BytesIn(msgs, c, k) = Glue(z, b)
  BY <1>1, <1>6, <1>10 DEF BytesIn
<1>18. BytesIn(msgs, c, j) = Glue(x, Glue(y, BytesIn(msgs, c, k)))
  BY <1>13, <1>14, <1>15, <1>16, <1>17
<1>19. PICK e, p, q : e = << <<c, k>> >> /\ p = PartsLeft(c, m, k) /\ q = PartsAfter(msgs, c)
  OBVIOUS
<1>20. IsSeq(e) /\ IsSeq(p) /\ IsSeq(q)
  BY <1>1, <1>4, <1>19, One, InIsSeq
<1>21. PartsLeft(c, m, j) = Glue(e, p)
  BY <1>1, <1>19, PartsLeftAre
<1>22. Glue(Glue(e, p), q) = Glue(e, Glue(p, q))
  BY <1>20, JoinAssoc
<1>23. PartsIn(msgs, c, j) = Glue(e, PartsIn(msgs, c, k))
  BY <1>1, <1>19, <1>21, <1>22 DEF PartsIn
<1>24. PICK s, t, u : s = Run(<<c, k>>, 0, PieceCount(r)) /\ t = From(g, k) /\ u = PiecesAfter(msgs, c)
  OBVIOUS
<1>25. IsSeq(s) /\ IsSeq(t) /\ IsSeq(u)
  BY <1>1, <1>4, <1>5, <1>6, <1>9, <1>24, InIsSeq
<1>26. Glue(Glue(s, t), u) = Glue(s, Glue(t, u))
  BY <1>25, JoinAssoc
<1>27. PiecesIn(msgs, c, j) = Glue(s, PiecesIn(msgs, c, k))
  BY <1>1, <1>5, <1>6, <1>9, <1>24, <1>26 DEF PiecesIn
<1>. QED  BY <1>1, <1>3, <1>4, <1>5, <1>10, <1>18, <1>19, <1>23, <1>24, <1>27

\* After its last rectangle an update only has its end.
LEMMA InLast ==
  ASSUME NEW msgs, NEW c, NEW j, UpdateAt(msgs, c, j), j = Len(msgs[c].rects)
  PROVE  /\ BytesIn(msgs, c, j) = BytesAfter(msgs, c)
         /\ PartsIn(msgs, c, j) = Glue(<< <<c, 0>> >>, PartsAfter(msgs, c))
         /\ PiecesIn(msgs, c, j) = PiecesAfter(msgs, c)
<1>1. PICK m : m = msgs[c] /\ UpdateOK(m) /\ j \in 0 .. Len(m.rects) /\ j = Len(m.rects)
  BY DEF UpdateAt
<1>2. Seqs(RectFields(c, m)) /\ Len(RectFields(c, m)) = j /\ Seqs(RectPieces(c, m)) /\ Len(RectPieces(c, m)) = j
  BY <1>1, RectFieldsAreSeqs
<1>3. From(RectFields(c, m), j) = <<>> /\ From(RectPieces(c, m), j) = <<>>
  BY <1>2, FromNone
<1>4. PartsLeft(c, m, j) = << <<c, 0>> >>
  BY <1>1, PartsLeftAre
<1>5. IsSeq(BytesAfter(msgs, c)) /\ IsSeq(PiecesAfter(msgs, c))
  BY InIsSeq
<1>. QED  BY <1>1, <1>3, <1>4, <1>5, JoinEmpty DEF BytesIn, PartsIn, PiecesIn

InGrows(more, msgs, n, m, c, j) ==
  /\ UpdateAt(more, c, j) /\ more[c] = msgs[c]
  /\ BytesIn(more, c, j) = Glue(BytesIn(msgs, c, j), Bytes(n, m))
  /\ PartsIn(more, c, j) = Glue(PartsIn(msgs, c, j), Parts(n, m))
  /\ PiecesIn(more, c, j) = Glue(PiecesIn(msgs, c, j), Pieces(n, m))

LEMMA InMore ==
  ASSUME NEW msgs, NEW c, NEW j, UpdateAt(msgs, c, j), NEW m, MessageOK(m),
         NEW more, more = Append(msgs, m), NEW n, n = Len(msgs) + 1
  PROVE  InGrows(more, msgs, n, m, c, j)
<1>1. MessagesOK(msgs) /\ c \in 1 .. Len(msgs) /\ c \in 0 .. Len(msgs)
  BY InIsSeq DEF UpdateAt
<1>2. /\ MessagesOK(more) /\ Len(more) = n /\ more[c] = msgs[c]
      /\ BytesAfter(more, c) = Glue(BytesAfter(msgs, c), Bytes(n, m))
      /\ PartsAfter(more, c) = Glue(PartsAfter(msgs, c), Parts(n, m))
      /\ PiecesAfter(more, c) = Glue(PiecesAfter(msgs, c), Pieces(n, m))
  <2>1. OneMore(more, msgs, n, m) /\ AfterGrows(more, msgs, n, m, c)
    BY <1>1, AfterMore
  <2>. QED  BY <1>1, <2>1 DEF OneMore, AfterGrows
<1>3. c \in 1 .. n
  BY <1>1, StreamsAreSeqs
<1>4. UpdateAt(more, c, j)
  BY <1>2, <1>3 DEF UpdateAt
<1>5. PICK a, b, x : a = From(RectFields(c, msgs[c]), j) /\ b = BytesAfter(msgs, c) /\ x = Bytes(n, m)
  OBVIOUS
<1>6. PICK d, e, y : d = PartsLeft(c, msgs[c], j) /\ e = PartsAfter(msgs, c) /\ y = Parts(n, m)
  OBVIOUS
<1>7. PICK f, g, z : f = From(RectPieces(c, msgs[c]), j) /\ g = PiecesAfter(msgs, c) /\ z = Pieces(n, m)
  OBVIOUS
<1>8. IsSeq(x) /\ IsSeq(y) /\ IsSeq(z)
  BY <1>5, <1>6, <1>7, BytesAre, PartsAre
<1>9. IsSeq(a) /\ IsSeq(b) /\ IsSeq(d) /\ IsSeq(e) /\ IsSeq(f) /\ IsSeq(g)
  BY <1>5, <1>6, <1>7, InIsSeq
<1>10. Glue(Glue(a, b), x) = Glue(a, Glue(b, x)) /\ Glue(Glue(d, e), y) = Glue(d, Glue(e, y))
       /\ Glue(Glue(f, g), z) = Glue(f, Glue(g, z))
  BY <1>8, <1>9, JoinAssoc
<1>. QED  BY <1>2, <1>4, <1>5, <1>6, <1>7, <1>10 DEF BytesIn, PartsIn, PiecesIn, InGrows

-----------------------------------------------------------------------------
(* The session: what holds of its record whatever it is reading.            *)

SessionFields == {"pc", "state", "rects", "rect", "update", "canContinue", "continuous", "actions",
                  "skipped", "hollow", "dec"}

\* Only after bytes were left behind is a field taken for another, and updates
\* are continuous only when the server can.
SessionOK(z) ==
  /\ DOMAIN z = SessionFields
  /\ z.pc \in {"idle", "message", "rects", "rect"}
  /\ z.state \in {"connected", "failed", "lost"}
  /\ z.rects \in 0 .. AnyNumber
  /\ z.state = "lost" => z.skipped
  /\ z.continuous => z.canContinue
  /\ z.hollow \in BOOLEAN

Base ==
  /\ server \in DOMAIN Servers
  /\ SessionOK(rfb)
  /\ rfb.pc = "message" => rQi < Len(rQ)
  /\ display.flushing => Pending(display)

\* What a step changes at most while it reads a rectangle.
Kept(y, z) ==
  /\ y.update = z.update /\ y.state = z.state /\ y.skipped = z.skipped
  /\ y.canContinue = z.canContinue /\ y.continuous = z.continuous /\ y.hollow = z.hollow

(* A rectangle r named "of" is being read, the decoder at d; after it the   *)
(* bytes B, the parts P and the pieces Q are to come.                       *)
Within(of, r, d, B, P, Q) ==
  /\ RectOK(r) /\ DecOK(r, d)
  /\ IsSeq(BodyLeft(r, d)) /\ IsSeq(B) /\ IsSeq(P) /\ IsSeq(Q)
  /\ Coming(Glue(BodyLeft(r, d), B))
  /\ Handles(Glue(<<of>>, P))
  /\ Missing(Glue(PiecesLeft(of, r, d), Q))

Ready(of, r, d, B, P, Q, c, open) ==
  /\ Base /\ rfb.pc = "rect" /\ rfb.rects > 0
  /\ Of = of /\ R = r /\ dec = d
  /\ Within(of, r, d, B, P, Q)
  /\ Balance(c, open)

(* A step of a decoder goes on or waits, ends the rectangle, or fails.      *)
GoesOn(of, r, B, P, Q, c, open) ==
  /\ Base' /\ Balance(c, open)' /\ Kept(rfb', rfb) /\ UNCHANGED sent
  /\ rfb'.rect = rfb.rect /\ rfb'.rects = rfb.rects /\ rfb'.pc \in {"rect", "idle"}
  /\ \E e : rfb'.dec = e /\ Within(of, r, e, B, P, Q)'

Ends(r, B, P, Q, c, open) ==
  /\ Base' /\ Balance(c, open)' /\ Kept(rfb', rfb) /\ UNCHANGED sent
  /\ rfb'.pc = "rects" /\ rfb'.rect = NoRect /\ Fresh(rfb'.dec)
  /\ rfb'.rects = IF r.enc = "lastrect" THEN 0 ELSE rfb.rects - 1
  /\ Coming(B)' /\ Handles(P)' /\ Missing(Q)'

Fails ==
  /\ rfb' = [rfb EXCEPT !.pc = "idle", !.state = "failed"]
  /\ UNCHANGED <<outside, rQi, display, handled, owed>>

Outcome(of, r, B, P, Q, c, open) ==
  \/ GoesOn(of, r, B, P, Q, c, open)
  \/ Ends(r, B, P, Q, c, open)
  \/ Fails

\* The field the decoder takes the next bytes for is there.
LEMMA InPlace ==
  ASSUME NEW of, NEW r, NEW d, NEW B, NEW P, NEW Q, NEW c, NEW open,
         Ready(of, r, d, B, P, Q, c, open), NEW kind, Starts(BodyLeft(r, d), kind), Have(rQi, 1)
  PROVE  At(rQi, kind) /\ rQ[rQi + 1] = BodyLeft(r, d)[1]
<1>1. PICK f : f = BodyLeft(r, d)
  OBVIOUS
<1>2. Coming(Glue(f, B)) /\ IsSeq(B)
  BY <1>1 DEF Ready, Within
<1>3. IsSeq(f) /\ Len(f) > 0 /\ f[1].kind = kind
  BY <1>1 DEF Starts
<1>4. rQ[rQi + 1] = f[1]
  BY <1>2, <1>3, NextByte
<1>. QED  BY <1>1, <1>3, <1>4 DEF At

LEMMA HaveOne ==
  ASSUME NEW of, NEW r, NEW d, NEW B, NEW P, NEW Q, NEW c, NEW open,
         Ready(of, r, d, B, P, Q, c, open), NEW n \in Nat, n > 0, Have(rQi, n)
  PROVE  Have(rQi, 1)
<1>1. rQi \in Nat /\ Len(rQ) \in Nat
  BY SeqFacts DEF Ready, Within, Coming, QueuePlaced
<1>. QED  BY <1>1 DEF Have

LEMMA ReadyMeans ==
  ASSUME NEW of, NEW r, NEW d, NEW B, NEW P, NEW Q, NEW c, NEW open,
         Ready(of, r, d, B, P, Q, c, open)
  PROVE  /\ Base /\ rfb.pc = "rect" /\ DOMAIN rfb = SessionFields /\ rfb.rects \in Nat
         /\ Of = of /\ R = r /\ dec = d /\ RectOK(r) /\ DecOK(r, d) /\ ScreenOK(display)
         /\ rQi \in Nat /\ Len(rQ) \in Nat
<1>1. rQi \in Nat /\ Len(rQ) \in Nat
  BY SeqFacts DEF Ready, Within, Coming, QueuePlaced
<1>. QED  BY <1>1 DEF Ready, Within, Base, SessionOK, Missing

\* Take: n bytes of the rectangle are read and the pieces p drawn.
LEMMA Taken ==
  ASSUME NEW of, NEW r, NEW d, NEW B, NEW P, NEW Q, NEW c, NEW open,
         Ready(of, r, d, B, P, Q, c, open),
         NEW n \in Nat, NEW p, NEW e, NEW screen, Progress(of, r, d, n, p, e),
         Adds(display, screen, p), Have(rQi, n), Take(n, e, screen)
  PROVE  GoesOn(of, r, B, P, Q, c, open)
<1>1. /\ Base /\ rfb.pc = "rect" /\ Within(of, r, d, B, P, Q) /\ Balance(c, open)
      /\ DOMAIN rfb = SessionFields
  BY DEF Ready, Base, SessionOK
<1>2. /\ rQi' = rQi + n /\ rfb' = [rfb EXCEPT !.dec = e] /\ display' = screen
      /\ UNCHANGED <<server, wire, sent, meant, due, rQ, handled, owed>>
  BY DEF Take, outside, net
<1>3. /\ rfb'.dec = e /\ rfb'.pc = rfb.pc /\ rfb'.state = rfb.state /\ rfb'.rects = rfb.rects
      /\ rfb'.rect = rfb.rect /\ DOMAIN rfb' = SessionFields
      /\ Kept(rfb', rfb)
  BY <1>1, <1>2 DEF SessionFields, Kept
<1>4. display'.flushing => Pending(display')
  BY <1>1, <1>2 DEF Adds, Draws, Base
<1>5. Base'
  <2>1. SessionOK(rfb')
    BY <1>1, <1>3 DEF SessionOK, Kept, Base
  <2>. QED  BY <1>1, <1>2, <1>3, <1>4, <2>1 DEF Base
<1>6. Balance(c, open)'
  BY <1>1, <1>2, <1>3, BalanceStays DEF Kept
<1>7. PICK f, b, x : /\ IsSeq(f) /\ Len(f) = n /\ b = BodyLeft(r, e) /\ x = PiecesLeft(of, r, e)
                     /\ BodyLeft(r, d) = Glue(f, b) /\ IsSeq(b)
                     /\ PiecesLeft(of, r, d) = Glue(p, x) /\ IsSeq(p) /\ DecOK(r, e)
  BY DEF Progress
<1>8. /\ IsSeq(B) /\ IsSeq(P) /\ IsSeq(Q) /\ RectOK(r)
      /\ Coming(Glue(Glue(f, b), B)) /\ Handles(Glue(<<of>>, P)) /\ Missing(Glue(Glue(p, x), Q))
  BY <1>1, <1>7 DEF Within
<1>9. IsSeq(x)
  BY <1>7, <1>8, PiecesLeftIsSeq
<1>10. Coming(Glue(f, Glue(b, B))) /\ IsSeq(Glue(b, B))
  BY <1>7, <1>8, JoinAssoc, Joined
<1>11. Missing(Glue(p, Glue(x, Q))) /\ IsSeq(Glue(x, Q))
  BY <1>7, <1>8, <1>9, JoinAssoc, Joined
<1>12. PICK y, z : y = Glue(b, B) /\ z = Glue(x, Q)
  OBVIOUS
<1>13. Coming(y)'
  <2>1. UNCHANGED <<rQ, wire>>
    BY <1>2
  <2>. QED  BY <1>2, <1>7, <1>10, <1>12, <2>1, BytesRead
<1>14. Handles(Glue(<<of>>, P))'
  BY <1>2, <1>8, NoneHandled
<1>15. Missing(z)'
  <2>1. Draws(display, display', p)
    BY <1>2 DEF Adds
  <2>. QED  BY <1>2, <1>7, <1>11, <1>12, <2>1, PiecesDrawn
<1>16. Within(of, r, e, B, P, Q)'
  BY <1>7, <1>8, <1>12, <1>13, <1>14, <1>15 DEF Within
<1>. QED  BY <1>1, <1>2, <1>3, <1>5, <1>6, <1>16 DEF GoesOn

\* Pause, at the place where the decoder began.
LEMMA Paused ==
  ASSUME NEW of, NEW r, NEW d, NEW B, NEW P, NEW Q, NEW c, NEW open,
         Ready(of, r, d, B, P, Q, c, open),
         NEW i, i = rQi, NEW e, Same(of, r, d, e), Pause(i, e)
  PROVE  GoesOn(of, r, B, P, Q, c, open)
<1>1. /\ Base /\ rfb.pc = "rect" /\ Within(of, r, d, B, P, Q) /\ Balance(c, open)
      /\ DOMAIN rfb = SessionFields
  BY DEF Ready, Base, SessionOK
<1>2. /\ rQi' = rQi /\ rfb' = [rfb EXCEPT !.pc = "idle", !.dec = e]
      /\ UNCHANGED <<server, wire, sent, meant, due, rQ, handled, owed, display>>
  BY DEF Pause, outside, net
<1>3. /\ rfb'.dec = e /\ rfb'.pc = "idle" /\ rfb'.state = rfb.state /\ rfb'.rects = rfb.rects
      /\ rfb'.rect = rfb.rect /\ DOMAIN rfb' = SessionFields
      /\ Kept(rfb', rfb)
  BY <1>1, <1>2 DEF SessionFields, Kept
<1>4. Base'
  <2>1. SessionOK(rfb')
    BY <1>1, <1>3 DEF SessionOK, Kept, Base
  <2>. QED  BY <1>1, <1>2, <1>3, <2>1 DEF Base
<1>5. Balance(c, open)'
  BY <1>1, <1>2, <1>3, BalanceStays DEF Kept
<1>6. PICK y, z : y = Glue(BodyLeft(r, d), B) /\ z = Glue(PiecesLeft(of, r, d), Q)
  OBVIOUS
<1>7. Coming(y) /\ Handles(Glue(<<of>>, P)) /\ Missing(z)
  BY <1>1, <1>6 DEF Within
<1>8. Coming(y)' /\ Handles(Glue(<<of>>, P))' /\ Missing(z)'
  BY <1>2, <1>7, BytesStay, NoneHandled, SameScreen
<1>9. y = Glue(BodyLeft(r, e), B) /\ z = Glue(PiecesLeft(of, r, e), Q) /\ DecOK(r, e)
      /\ IsSeq(BodyLeft(r, e))
  BY <1>1, <1>6 DEF Same, Within
<1>10. Within(of, r, e, B, P, Q)'
  BY <1>1, <1>8, <1>9 DEF Within
<1>. QED  BY <1>1, <1>2, <1>3, <1>4, <1>5, <1>10 DEF GoesOn

\* EndRect: the last n bytes are read.
LEMMA Ended ==
  ASSUME NEW of, NEW r, NEW d, NEW B, NEW P, NEW Q, NEW c, NEW open,
         Ready(of, r, d, B, P, Q, c, open),
         NEW n \in Nat, NEW p, NEW next, NEW did, NEW screen,
         Finish(of, r, d, n, p), Adds(display, screen, p), Have(rQi, n),
         DOMAIN next = SessionFields, Kept(next, rfb), Fresh(next.dec),
         next.rects = IF r.enc = "lastrect" THEN 1 ELSE rfb.rects,
         did \notin Over, EndRectWith(n, did, next, screen)
  PROVE  Ends(r, B, P, Q, c, open)
<1>1. /\ Base /\ rfb.pc = "rect" /\ Within(of, r, d, B, P, Q) /\ Balance(c, open)
      /\ SessionOK(rfb) /\ Of = of
  BY DEF Ready, Base
<1>2. /\ rQi' = rQi + n /\ rfb' = [next EXCEPT !.pc = "rects", !.rects = @ - 1, !.rect = NoRect]
      /\ display' = screen /\ Handle(of, did)
      /\ UNCHANGED <<server, wire, sent, meant, due, rQ, owed>>
  BY <1>1 DEF EndRectWith, outside, net
<1>3. /\ rfb'.dec = next.dec /\ rfb'.pc = "rects" /\ rfb'.rects = next.rects - 1
      /\ rfb'.rect = NoRect /\ DOMAIN rfb' = SessionFields
      /\ Kept(rfb', next)
  BY <1>2 DEF SessionFields, Kept
<1>4. Kept(rfb', rfb)
  BY <1>3 DEF Kept
<1>5. rfb'.rects = IF r.enc = "lastrect" THEN 0 ELSE rfb.rects - 1
  BY <1>3
<1>6. Base'
  <2>1. rfb'.rects \in 0 .. AnyNumber
    <3>1. PICK N : N = AnyNumber /\ N \in Nat
      BY DEF AnyNumber
    <3>2. rfb.rects \in 0 .. N /\ rfb.rects > 0
      BY <1>1, <3>1 DEF SessionOK, Ready
    <3>3. rfb'.rects = 0 \/ rfb'.rects = rfb.rects - 1
      BY <1>5
    <3>4. rfb'.rects \in 0 .. N
      BY <3>1, <3>2, <3>3
    <3>. QED  BY <3>1, <3>4
  <2>2. SessionOK(rfb')
    BY <1>1, <1>3, <1>4, <2>1 DEF SessionOK, Kept
  <2>3. display'.flushing => Pending(display')
    BY <1>1, <1>2 DEF Adds, Draws, Base
  <2>. QED  BY <1>1, <1>2, <1>3, <2>2, <2>3 DEF Base
<1>7. Balance(c, open)'
  <2>1. rfb'.hollow = rfb.hollow /\ rfb'.canContinue = rfb.canContinue
    BY <1>4 DEF Kept
  <2>. QED  BY <1>1, <1>2, <2>1, BalanceKept
<1>8. PICK f : f = BodyLeft(r, d) /\ IsSeq(f) /\ Len(f) = n /\ p = PiecesLeft(of, r, d)
  BY DEF Finish
<1>9. /\ IsSeq(B) /\ IsSeq(P) /\ IsSeq(Q) /\ RectOK(r) /\ DecOK(r, d)
      /\ Coming(Glue(f, B)) /\ Handles(Glue(<<of>>, P)) /\ Missing(Glue(p, Q))
  BY <1>1, <1>8 DEF Within
<1>10. IsSeq(p)
  BY <1>8, <1>9, PiecesLeftIsSeq
<1>11. Coming(B)'
  <2>1. UNCHANGED <<rQ, wire>>
    BY <1>2
  <2>. QED  BY <1>2, <1>8, <1>9, <2>1, BytesRead
<1>12. Handles(P)'
  BY <1>2, <1>9, OneHandled
<1>13. Missing(Q)'
  <2>1. Draws(display, display', p)
    BY <1>2 DEF Adds
  <2>. QED  BY <1>2, <1>9, <1>10, <2>1, PiecesDrawn
<1>. QED  BY <1>2, <1>3, <1>4, <1>5, <1>6, <1>7, <1>11, <1>12, <1>13 DEF Ends

LEMMA Drawn ==
  ASSUME NEW of, NEW r, NEW d, NEW B, NEW P, NEW Q, NEW c, NEW open,
         Ready(of, r, d, B, P, Q, c, open), r.enc # "lastrect",
         NEW n \in Nat, NEW p, NEW e, NEW screen,
         Finish(of, r, d, n, p), Adds(display, screen, p), Have(rQi, n), Fresh(e),
         EndRect(n, e, screen)
  PROVE  Outcome(of, r, B, P, Q, c, open)
<1>1. DOMAIN rfb = SessionFields
  BY ReadyMeans
<1>2. PICK next : next = [rfb EXCEPT !.dec = e]
  OBVIOUS
<1>3. /\ DOMAIN next = SessionFields /\ Kept(next, rfb) /\ next.dec = e /\ next.rects = rfb.rects
  BY <1>1, <1>2 DEF SessionFields, Kept
<1>4. EndRectWith(n, "drawn", next, screen)
  BY <1>2 DEF EndRect
<1>5. PICK did : did = "drawn" /\ did \notin Over
  BY DEF Over
<1>6. Ends(r, B, P, Q, c, open)
  BY <1>3, <1>4, <1>5, Ended
<1>. QED  BY <1>6 DEF Outcome

LEMMA Failed ==
  ASSUME NEW of, NEW r, NEW B, NEW P, NEW Q, NEW c, NEW open, Fail
  PROVE  Outcome(of, r, B, P, Q, c, open)
BY DEF Fail, Fails, Outcome

\* Nothing there yet.
LEMMA Waited ==
  ASSUME NEW of, NEW r, NEW d, NEW B, NEW P, NEW Q, NEW c, NEW open,
         Ready(of, r, d, B, P, Q, c, open), NEW i, i = rQi, Pause(i, d)
  PROVE  Outcome(of, r, B, P, Q, c, open)
<1>1. Same(of, r, d, d)
  BY ReadyMeans DEF Same
<1>. QED  BY <1>1, Paused DEF Outcome

LEMMA Placed ==
  ASSUME NEW of, NEW r, NEW d, NEW B, NEW P, NEW Q, NEW c, NEW open,
         Ready(of, r, d, B, P, Q, c, open), NEW kind, Starts(BodyLeft(r, d), kind),
         NEW n \in Nat, n > 0, Have(rQi, n)
  PROVE  At(rQi, kind) /\ rQ[rQi + 1] = BodyLeft(r, d)[1]
BY HaveOne, InPlace

LEMMA HaveNothing ==
  ASSUME NEW of, NEW r, NEW d, NEW B, NEW P, NEW Q, NEW c, NEW open,
         Ready(of, r, d, B, P, Q, c, open)
  PROVE  Have(rQi, 0)
BY ReadyMeans DEF Ready, Within, Coming, QueuePlaced, Have

(* One lemma for every decoder. *)
LEMMA RawStep ==
  ASSUME NEW of, NEW r, NEW d, NEW B, NEW P, NEW Q, NEW c, NEW open,
         Ready(of, r, d, B, P, Q, c, open), Raw
  PROVE  Outcome(of, r, B, P, Q, c, open)
<1>1. /\ Of = of /\ R = r /\ dec = d /\ RectOK(r) /\ DecOK(r, d) /\ ScreenOK(display)
      /\ r.enc = "raw"
  BY ReadyMeans DEF Raw, Decoding
<1>2. PICK l, e, w, n, x : /\ l = Lines(r, d) /\ e = [d EXCEPT !.lines = l - 1]
                           /\ w = [d EXCEPT !.lines = l]
                           /\ n = 4 * r.w /\ x = Append(of, r.h - l + 1)
  OBVIOUS
<1>3. IF r.w * r.h = 0 THEN EndRect(0, d, display)
      ELSE IF ~Have(rQi, n) THEN Pause(rQi, w)
      ELSE IF ~At(rQi, "line") THEN Derail
      ELSE IF l = 1 THEN EndRect(n, e, Blit(display, x, TRUE)) ELSE Take(n, e, Blit(display, x, TRUE))
  BY <1>1, <1>2 DEF Raw, Empty, Piece, Lines
<1>4. CASE r.w * r.h = 0
  <2>1. Finish(of, r, d, 0, <<>>) /\ Fresh(d) /\ Adds(display, display, <<>>)
    BY <1>1, <1>4, RawEmpty, NothingDrawn
  <2>2. Have(rQi, 0)
    BY ReadyMeans DEF Ready, Within, Coming, QueuePlaced, Have
  <2>3. PICK z \in Nat : z = 0
    OBVIOUS
  <2>. QED  BY <1>1, <1>3, <1>4, <2>1, <2>2, <2>3, Drawn
<1>5. CASE r.w * r.h # 0
  <2>1. /\ n \in Nat /\ n > 0 /\ Starts(BodyLeft(r, d), "line")
        /\ l = 1 => Finish(of, r, d, n, <<x>>) /\ Fresh(e)
        /\ l # 1 => Progress(of, r, d, n, <<x>>, e)
    <3>1. /\ r.w \in Nat /\ r.w > 0 /\ Starts(BodyLeft(r, d), "line")
          /\ l = 1 => Finish(of, r, d, 4 * r.w, <<Append(of, r.h - l + 1)>>) /\ Fresh(e)
          /\ l # 1 => Progress(of, r, d, 4 * r.w, <<Append(of, r.h - l + 1)>>, e)
      BY <1>1, <1>2, <1>5, RawLine
    <3>2. 4 * r.w \in Nat /\ 4 * r.w > 0
      BY <3>1
    <3>. QED  BY <1>2, <3>1, <3>2, Zenon
  <2>2. Adds(display, Blit(display, x, TRUE), <<x>>)
    BY <1>1, BlitDraws
  <2>3. CASE ~Have(rQi, n)
    <3>1. Same(of, r, d, w)
      BY <1>1, <1>2, <1>5, RawWaits
    <3>2. Pause(rQi, w)
      BY <1>3, <1>5, <2>3
    <3>. QED  BY <3>1, <3>2, Paused DEF Outcome
  <2>4. CASE Have(rQi, n)
    <3>1. At(rQi, "line")
      BY <2>1, <2>4, HaveOne, InPlace
    <3>2. CASE l = 1
      BY <1>1, <1>3, <1>5, <2>1, <2>2, <2>4, <3>1, <3>2, Drawn
    <3>3. CASE l # 1
      BY <1>3, <1>5, <2>1, <2>2, <2>4, <3>1, <3>3, Taken DEF Outcome
    <3>. QED  BY <3>2, <3>3
  <2>. QED  BY <2>3, <2>4
<1>. QED  BY <1>4, <1>5

LEMMA CopyRectStep ==
  ASSUME NEW of, NEW r, NEW d, NEW B, NEW P, NEW Q, NEW c, NEW open,
         Ready(of, r, d, B, P, Q, c, open), CopyRect
  PROVE  Outcome(of, r, B, P, Q, c, open)
<1>1. /\ Of = of /\ R = r /\ dec = d /\ RectOK(r) /\ DecOK(r, d) /\ ScreenOK(display)
      /\ r.enc = "copyrect"
  BY ReadyMeans DEF CopyRect, Decoding
<1>0. PICK n \in Nat : n = 4
  OBVIOUS
<1>2. PICK x, s : /\ x = Append(of, 1)
                  /\ s = IF r.w * r.h = 0 THEN display ELSE Submit(display, Op("copy", x))
  OBVIOUS
<1>3. \/ ~Have(rQi, n) /\ Pause(rQi, d)
      \/ Have(rQi, n) /\ ~At(rQi, "source") /\ Derail
      \/ Have(rQi, n) /\ EndRect(n, d, s)
  BY <1>1, <1>0, <1>2 DEF CopyRect, Empty, Piece, Read
<1>4. Fresh(d) /\ Starts(BodyLeft(r, d), "source") /\ Finish(of, r, d, n, TightPiece(of, r))
  BY <1>1, <1>0, <1>2, CopyRectIs
<1>5. Adds(display, s, TightPiece(of, r))
  <2>1. Adds(display, display, <<>>) /\ Adds(display, Submit(display, Op("copy", x)), <<x>>)
    BY <1>1, NothingDrawn, OpDraws
  <2>. QED  BY <1>0, <1>2, <2>1 DEF TightPiece
<1>6. n > 0
  BY <1>0, <1>2
<1>7. CASE ~Have(rQi, n)
  BY <1>3, <1>7, Waited
<1>8. CASE Have(rQi, n)
  <2>1. At(rQi, "source")
    BY <1>4, <1>6, <1>8, Placed
  <2>. QED  BY <1>1, <1>3, <1>4, <1>5, <1>8, <2>1, Drawn
<1>. QED  BY <1>7, <1>8

LEMMA RreBackgroundStep ==
  ASSUME NEW of, NEW r, NEW d, NEW B, NEW P, NEW Q, NEW c, NEW open,
         Ready(of, r, d, B, P, Q, c, open), RreBackground
  PROVE  Outcome(of, r, B, P, Q, c, open)
<1>1. /\ Of = of /\ R = r /\ dec = d /\ RectOK(r) /\ DecOK(r, d) /\ ScreenOK(display)
      /\ r.enc = "rre" /\ d.subrects = 0
  BY ReadyMeans DEF RreBackground, Decoding
<1>0. PICK n \in Nat : n = 8
  OBVIOUS
<1>2. PICK x, s : x = Append(of, 1) /\ s = Submit(display, Op("fill", x))
  OBVIOUS
<1>3. PICK e : e = [d EXCEPT !.subrects = r.subrects]
  OBVIOUS
<1>4. \/ ~Have(rQi, n) /\ Pause(rQi, d)
      \/ Have(rQi, n) /\ ~At(rQi, "rre") /\ Derail
      \/ Have(rQi, n) /\ r.subrects = 0 /\ EndRect(n, d, s)
      \/ Have(rQi, n) /\ r.subrects # 0 /\ Take(n, e, s)
  BY <1>1, <1>0, <1>2, <1>3 DEF RreBackground, Piece, Read
<1>5. /\ Starts(BodyLeft(r, d), "rre")
      /\ r.subrects = 0 => Finish(of, r, d, n, <<x>>) /\ Fresh(d)
      /\ r.subrects # 0 => Progress(of, r, d, n, <<x>>, e)
  BY <1>1, <1>0, <1>2, <1>3, RreStarts
<1>6. Adds(display, s, <<x>>)
  BY <1>1, <1>0, <1>2, OpDraws
<1>7. n > 0
  BY <1>0, <1>2
<1>8. CASE ~Have(rQi, n)
  BY <1>4, <1>8, Waited
<1>9. CASE Have(rQi, n)
  <2>1. At(rQi, "rre")
    BY <1>5, <1>7, <1>9, Placed
  <2>2. CASE r.subrects = 0
    BY <1>1, <1>4, <1>5, <1>6, <1>9, <2>1, <2>2, Drawn
  <2>3. CASE r.subrects # 0
    BY <1>4, <1>5, <1>6, <1>9, <2>1, <2>3, Taken DEF Outcome
  <2>. QED  BY <2>2, <2>3
<1>. QED  BY <1>8, <1>9

LEMMA RreSubrectStep ==
  ASSUME NEW of, NEW r, NEW d, NEW B, NEW P, NEW Q, NEW c, NEW open,
         Ready(of, r, d, B, P, Q, c, open), RreSubrect
  PROVE  Outcome(of, r, B, P, Q, c, open)
<1>1. /\ Of = of /\ R = r /\ dec = d /\ RectOK(r) /\ DecOK(r, d) /\ ScreenOK(display)
      /\ r.enc = "rre" /\ d.subrects > 0
  BY ReadyMeans DEF RreSubrect, Decoding
<1>2. d.subrects # 0
  BY <1>1
<1>0. PICK n \in Nat : n = 12
  OBVIOUS
<1>3. PICK x, s : x = Append(of, r.subrects - d.subrects + 2) /\ s = Submit(display, Op("fill", x))
  OBVIOUS
<1>4. PICK e : e = [d EXCEPT !.subrects = @ - 1]
  OBVIOUS
<1>5. \/ ~Have(rQi, n) /\ Pause(rQi, d)
      \/ Have(rQi, n) /\ ~At(rQi, "subrect") /\ Derail
      \/ Have(rQi, n) /\ d.subrects = 1 /\ EndRect(n, e, s)
      \/ Have(rQi, n) /\ d.subrects # 1 /\ Take(n, e, s)
  BY <1>1, <1>0, <1>3, <1>4 DEF RreSubrect, Piece, Read
<1>6. /\ Starts(BodyLeft(r, d), "subrect")
      /\ d.subrects = 1 => Finish(of, r, d, n, <<x>>) /\ Fresh(e)
      /\ d.subrects # 1 => Progress(of, r, d, n, <<x>>, e)
  <2>1. /\ Starts(BodyLeft(r, d), "subrect")
        /\ d.subrects = 1 =>
             Finish(of, r, d, 12, <<Append(of, r.subrects - d.subrects + 2)>>) /\ Fresh(e)
        /\ d.subrects # 1 =>
             Progress(of, r, d, 12, <<Append(of, r.subrects - d.subrects + 2)>>, e)
    BY <1>1, <1>2, <1>4, RreGoesOn
  <2>. QED  BY <1>0, <1>3, <2>1, Zenon
<1>7. Adds(display, s, <<x>>)
  BY <1>1, <1>0, <1>3, OpDraws
<1>8. n > 0
  BY <1>0, <1>3
<1>9. CASE ~Have(rQi, n)
  BY <1>5, <1>9, Waited
<1>10. CASE Have(rQi, n)
  <2>1. At(rQi, "subrect")
    BY <1>6, <1>8, <1>10, Placed
  <2>2. CASE d.subrects = 1
    BY <1>1, <1>5, <1>6, <1>7, <1>10, <2>1, <2>2, Drawn
  <2>3. CASE d.subrects # 1
    BY <1>5, <1>6, <1>7, <1>10, <2>1, <2>3, Taken DEF Outcome
  <2>. QED  BY <2>2, <2>3
<1>. QED  BY <1>9, <1>10

LEMMA ZlibLengthStep ==
  ASSUME NEW of, NEW r, NEW d, NEW B, NEW P, NEW Q, NEW c, NEW open,
         Ready(of, r, d, B, P, Q, c, open), ZlibLength
  PROVE  Outcome(of, r, B, P, Q, c, open)
<1>1. /\ Of = of /\ R = r /\ dec = d /\ RectOK(r) /\ DecOK(r, d) /\ ScreenOK(display)
      /\ r.enc \in {"zlib", "zrle"} /\ d.length = 0
  BY ReadyMeans DEF ZlibLength, Decoding
<1>0. PICK n \in Nat : n = 4
  OBVIOUS
<1>2. PICK e : e = [d EXCEPT !.length = r.len]
  OBVIOUS
<1>3. /\ Starts(BodyLeft(r, d), "length") /\ Progress(of, r, d, n, <<>>, e)
      /\ r.enc = "zlib" => r.w * r.h # 0
  BY <1>1, <1>0, <1>2, ZlibStarts
<1>4. \/ ~Have(rQi, n) /\ Pause(rQi, d)
      \/ Have(rQi, n) /\ ~At(rQi, "length") /\ Derail
      \/ Have(rQi, n) /\ Take(n, e, display)
  BY <1>1, <1>0, <1>2, <1>3 DEF ZlibLength, Empty, Read
<1>5. Adds(display, display, <<>>)
  BY <1>1, NothingDrawn
<1>6. n > 0
  BY <1>0, <1>2
<1>7. CASE ~Have(rQi, n)
  BY <1>4, <1>7, Waited
<1>8. CASE Have(rQi, n)
  <2>1. At(rQi, "length")
    BY <1>3, <1>6, <1>8, Placed
  <2>. QED  BY <1>3, <1>4, <1>5, <1>8, <2>1, Taken DEF Outcome
<1>. QED  BY <1>7, <1>8

LEMMA ZlibStep ==
  ASSUME NEW of, NEW r, NEW d, NEW B, NEW P, NEW Q, NEW c, NEW open,
         Ready(of, r, d, B, P, Q, c, open), Zlib \/ Zrle
  PROVE  Outcome(of, r, B, P, Q, c, open)
<1>1. /\ Of = of /\ R = r /\ dec = d /\ RectOK(r) /\ DecOK(r, d) /\ ScreenOK(display)
      /\ r.enc \in {"zlib", "zrle"} /\ d.length > 0
  <2>1. CASE Zlib
    BY <2>1, ReadyMeans DEF Zlib, Decoding
  <2>2. CASE Zrle
    BY <2>2, ReadyMeans DEF Zrle, Decoding
  <2>. QED  BY <2>1, <2>2
<1>2. d.length # 0
  BY <1>1
<1>3. PICK n : n = d.length
  OBVIOUS
<1>4. /\ Starts(BodyLeft(r, d), "data") /\ n \in Nat /\ n > 0
      /\ r.enc = "zlib" => Finish(of, r, d, n, <<Append(of, 1)>>)
      /\ r.enc = "zrle" => Finish(of, r, d, n, Run(of, 0, r.tiles)) /\ r.tiles \in Nat
      /\ Fresh([d EXCEPT !.length = 0])
  BY <1>1, <1>2, <1>3, ZlibEnds
<1>5. PICK e, q : e = [d EXCEPT !.length = 0] /\ q = [p \in 1 .. r.tiles |-> Op("blit", Append(of, p))]
  OBVIOUS
<1>6. PICK s, t : s = Blit(display, Append(of, 1), FALSE) /\ t = FoldLeft(Submit, display, q)
  OBVIOUS
<1>7. Adds(display, s, <<Append(of, 1)>>)
  BY <1>1, <1>6, BlitDraws
<1>8. r.enc = "zrle" => Adds(display, t, Run(of, 0, r.tiles))
  BY <1>1, <1>4, <1>5, <1>6, TilesDrawn
<1>9. \/ ~Have(rQi, n) /\ Pause(rQi, d)
      \/ Have(rQi, n) /\ ~At(rQi, "data") /\ Derail
      \/ Fail
      \/ Have(rQi, n) /\ r.enc = "zlib" /\ EndRect(n, e, s)
      \/ Have(rQi, n) /\ r.enc = "zrle" /\ EndRect(n, e, t)
  <2>1. CASE Zlib
    BY <1>1, <1>3, <1>5, <1>6, <2>1 DEF Zlib, Decoding, Piece, Read
  <2>2. CASE Zrle
    <3>1. [p \in 1 .. R.tiles |-> Op("blit", Piece(p))] = q
      BY <1>1, <1>5 DEF Piece
    <3>. QED  BY <1>1, <1>3, <1>5, <1>6, <2>2, <3>1 DEF Zrle, Decoding, Read
  <2>. QED  BY <2>1, <2>2
<1>10. CASE ~Have(rQi, n)
  BY <1>9, <1>10, Waited, Failed
<1>11. CASE Have(rQi, n)
  <2>1. At(rQi, "data")
    BY <1>4, <1>11, Placed
  <2>2. CASE Fail
    BY <2>2, Failed
  <2>3. CASE r.enc = "zlib" /\ EndRect(n, e, s)
    BY <1>4, <1>5, <1>7, <1>11, <2>3, Drawn
  <2>4. CASE r.enc = "zrle" /\ EndRect(n, e, t)
    BY <1>4, <1>5, <1>8, <1>11, <2>4, Drawn
  <2>. QED  BY <1>9, <1>11, <2>1, <2>2, <2>3, <2>4
<1>. QED  BY <1>10, <1>11

LEMMA HextileStep ==
  ASSUME NEW of, NEW r, NEW d, NEW B, NEW P, NEW Q, NEW c, NEW open,
         Ready(of, r, d, B, P, Q, c, open), Hextile
  PROVE  Outcome(of, r, B, P, Q, c, open)
<1>1. /\ Of = of /\ R = r /\ dec = d /\ RectOK(r) /\ DecOK(r, d) /\ ScreenOK(display)
      /\ r.enc = "hextile"
  BY SMTT(30), ReadyMeans DEF Hextile, Decoding
<1>2. CASE TileTotal(r) = 0
  <2>1. Finish(of, r, d, 0, <<>>) /\ Fresh(d) /\ Adds(display, display, <<>>)
    BY <1>1, <1>2, HextileEmpty, NothingDrawn
  <2>2. EndRect(0, d, display)
    BY <1>1, <1>2 DEF Hextile
  <2>3. Have(rQi, 0)
    BY HaveNothing
  <2>4. PICK z \in Nat : z = 0
    OBVIOUS
  <2>. QED  BY <1>1, <2>1, <2>2, <2>3, <2>4, Drawn
<1>3. CASE TileTotal(r) # 0
  <2>1. PICK l, k : l = Tiles(r, d) /\ k = TileTotal(r) - l + 1
    OBVIOUS
  <2>2. PICK t, n, e, w : /\ t = r.tiles[k] /\ n = TileBytes(t, TileArea(r, k))
                          /\ e = [d EXCEPT !.tiles = l - 1, !.lastRaw = r.tiles[k].raw]
                          /\ w = [d EXCEPT !.tiles = l]
    OBVIOUS
  <2>3. PICK x, s :
          /\ x = Append(of, k)
          /\ s = IF ~t.raw /\ ~t.background /\ ~t.foreground /\ ~t.any
                 THEN IF d.lastRaw THEN display ELSE Submit(display, Op("fill", x))
                 ELSE Blit(display, x, t.raw)
    OBVIOUS
  <2>4. /\ n \in Nat /\ n > 0 /\ Starts(BodyLeft(r, d), "tile")
        /\ l = 1 => Finish(of, r, d, n, <<x>>) /\ Fresh(e)
        /\ l # 1 => Progress(of, r, d, n, <<x>>, e)
        /\ ~t.raw /\ ~t.background /\ ~t.foreground /\ ~t.any => ~d.lastRaw
    BY <1>1, <1>3, <2>1, <2>2, <2>3, HextileTile
  <2>5. Adds(display, s, <<x>>)
    <3>1. Adds(display, Submit(display, Op("fill", x)), <<x>>)
      BY <1>1, OpDraws
    <3>2. Adds(display, Blit(display, x, t.raw), <<x>>)
      BY <1>1, BlitDraws
    <3>. QED  BY <2>3, <2>4, <3>1, <3>2
  <2>6. \/ Pause(rQi, w)
        \/ Have(rQi, n) /\ ~At(rQi, "tile") /\ Derail
        \/ Have(rQi, n) /\ l = 1 /\ EndRect(n, e, s)
        \/ Have(rQi, n) /\ l # 1 /\ Take(n, e, s)
    <3>1. PICK colours : colours = (IF t.background THEN 4 ELSE 0) + (IF t.foreground THEN 4 ELSE 0)
                         /\ colours \in Nat
      OBVIOUS
    <3>2. PICK bytes : bytes = 1 + IF t.raw THEN TileArea(r, k) * 4
                                   ELSE colours + IF ~t.any THEN 0
                                                  ELSE 1 + t.subrects * (IF t.coloured THEN 6 ELSE 2)
      OBVIOUS
    <3>3. t.subrects \in Nat
      BY <1>1, <1>3, <2>1, <2>2, HextileTile DEF RectOK, HextileOK
    <3>4. bytes = n
      BY <2>2, <3>1, <3>2, <3>3 DEF TileBytes
    <3>5. IF \/ ~Have(rQi, 1)
             \/ ~t.raw /\ t.any /\ ~Have(rQi, 1 + colours + 1)
             \/ ~Have(rQi, bytes)
          THEN Pause(rQi, w)
          ELSE IF ~At(rQi, "tile") THEN Derail
          ELSE IF l = 1 THEN EndRect(bytes, e, s) ELSE Take(bytes, e, s)
      BY ZenonT(40), <1>1, <1>3, <2>1, <2>2, <2>3, <3>1, <3>2 DEF Hextile, Piece, Tiles
    <3>. QED  BY <3>4, <3>5
  <2>7. CASE Pause(rQi, w)
    <3>1. Same(of, r, d, w)
      BY <1>1, <1>3, <2>1, <2>2, HextileWaits
    <3>. QED  BY <2>7, <3>1, Paused DEF Outcome
  <2>8. CASE Have(rQi, n) /\ ~Pause(rQi, w)
    <3>1. At(rQi, "tile")
      BY <2>4, <2>8, Placed
    <3>2. CASE l = 1
      BY <1>1, <2>4, <2>5, <2>6, <2>8, <3>1, <3>2, Drawn
    <3>3. CASE l # 1
      BY <2>4, <2>5, <2>6, <2>8, <3>1, <3>3, Taken DEF Outcome
    <3>. QED  BY <3>2, <3>3
  <2>. QED  BY <2>6, <2>7, <2>8
<1>. QED  BY <1>2, <1>3

LEMMA TightControlStep ==
  ASSUME NEW of, NEW r, NEW d, NEW B, NEW P, NEW Q, NEW c, NEW open,
         Ready(of, r, d, B, P, Q, c, open), TightControl
  PROVE  Outcome(of, r, B, P, Q, c, open)
<1>1. /\ Of = of /\ R = r /\ dec = d /\ RectOK(r) /\ DecOK(r, d) /\ ScreenOK(display)
      /\ IsTight(r) /\ d.control = None
  BY ReadyMeans DEF TightControl, Tight, Decoding, IsTight
<1>2. PICK n \in Nat : n = 1
  OBVIOUS
<1>3. PICK e : e = [d EXCEPT !.control = r.control]
  OBVIOUS
<1>4. \/ ~Have(rQi, n) /\ Pause(rQi, d)
      \/ Have(rQi, n) /\ ~At(rQi, "control") /\ Derail
      \/ Have(rQi, n) /\ Take(n, e, display)
  BY <1>1, <1>2, <1>3 DEF TightControl, Read
<1>5. Starts(BodyLeft(r, d), "control") /\ Progress(of, r, d, n, <<>>, e)
  BY <1>1, <1>2, <1>3, TightControls
<1>6. Adds(display, display, <<>>)
  BY <1>1, NothingDrawn
<1>7. n > 0
  BY <1>2
<1>8. CASE ~Have(rQi, n)
  BY <1>4, <1>8, Waited
<1>9. CASE Have(rQi, n)
  <2>1. At(rQi, "control")
    BY <1>5, <1>7, <1>9, Placed
  <2>. QED  BY <1>4, <1>5, <1>6, <1>9, <2>1, Taken DEF Outcome
<1>. QED  BY <1>8, <1>9

LEMMA TightFillStep ==
  ASSUME NEW of, NEW r, NEW d, NEW B, NEW P, NEW Q, NEW c, NEW open,
         Ready(of, r, d, B, P, Q, c, open), TightFill
  PROVE  Outcome(of, r, B, P, Q, c, open)
<1>1. /\ Of = of /\ R = r /\ dec = d /\ RectOK(r) /\ DecOK(r, d) /\ ScreenOK(display)
      /\ IsTight(r) /\ d.control = "fill" /\ r.enc # "lastrect"
  BY ReadyMeans DEF TightFill, Tight, Decoding, IsTight
<1>2. PICK n \in Nat : n = 3
  OBVIOUS
<1>3. PICK e, s : /\ e = [d EXCEPT !.control = None, !.filter = None]
                  /\ s = Submit(display, Op("fill", Append(of, 1)))
  OBVIOUS
<1>4. \/ ~Have(rQi, n) /\ Pause(rQi, d)
      \/ Have(rQi, n) /\ ~At(rQi, "colour") /\ Derail
      \/ Have(rQi, n) /\ EndRect(n, e, s)
  BY <1>1, <1>2, <1>3 DEF TightFill, Read, EndTight, Piece
<1>5. /\ Starts(BodyLeft(r, d), "colour") /\ Finish(of, r, d, n, <<Append(of, 1)>>)
      /\ Fresh(e)
  BY <1>1, <1>2, <1>3, TightFills
<1>6. Adds(display, s, <<Append(of, 1)>>)
  BY <1>1, <1>3, OpDraws
<1>7. n > 0
  BY <1>2
<1>8. CASE ~Have(rQi, n)
  BY <1>4, <1>8, Waited
<1>9. CASE Have(rQi, n)
  <2>1. At(rQi, "colour")
    BY <1>5, <1>7, <1>9, Placed
  <2>. QED  BY <1>1, <1>4, <1>5, <1>6, <1>9, <2>1, Drawn
<1>. QED  BY <1>8, <1>9

LEMMA TightFilterStep ==
  ASSUME NEW of, NEW r, NEW d, NEW B, NEW P, NEW Q, NEW c, NEW open,
         Ready(of, r, d, B, P, Q, c, open), TightFilter
  PROVE  Outcome(of, r, B, P, Q, c, open)
<1>1. /\ Of = of /\ R = r /\ dec = d /\ RectOK(r) /\ DecOK(r, d) /\ ScreenOK(display)
      /\ IsTight(r) /\ d.control = "basic" /\ d.filter = None
  BY ReadyMeans DEF TightFilter, Tight, Decoding, IsTight
<1>2. PICK n \in Nat : n = 1
  OBVIOUS
<1>3. PICK z \in Nat : z = 0
  OBVIOUS
<1>4. PICK e : e = [d EXCEPT !.filter = r.filter]
  OBVIOUS
<1>5. /\ r.explicit => Starts(BodyLeft(r, d), "filter") /\ Progress(of, r, d, n, <<>>, e)
      /\ ~r.explicit => r.filter = "copy" /\ Progress(of, r, d, z, <<>>, e)
  BY <1>1, <1>2, <1>3, <1>4, TightFilters
<1>6. \/ r.explicit /\ ~Have(rQi, n) /\ Pause(rQi, d)
      \/ r.explicit /\ Have(rQi, n) /\ ~At(rQi, "filter") /\ Derail
      \/ r.explicit /\ Have(rQi, n) /\ Take(n, e, display)
      \/ ~r.explicit /\ Take(z, e, display)
  <2>1. CASE r.explicit
    BY <1>1, <1>2, <1>4, <2>1 DEF TightFilter, Read
  <2>2. CASE ~r.explicit
    <3>1. e = [d EXCEPT !.filter = "copy"]
      BY <1>4, <1>5, <2>2
    <3>. QED  BY <1>1, <1>3, <2>2, <3>1 DEF TightFilter
  <2>. QED  BY <2>1, <2>2
<1>7. Adds(display, display, <<>>)
  BY <1>1, NothingDrawn
<1>8. n > 0
  BY <1>2
<1>9. CASE ~r.explicit
  <2>1. Have(rQi, z)
    BY <1>3, HaveNothing
  <2>. QED  BY <1>5, <1>6, <1>7, <1>9, <2>1, Taken DEF Outcome
<1>10. CASE r.explicit /\ ~Have(rQi, n)
  BY <1>6, <1>10, Waited
<1>11. CASE r.explicit /\ Have(rQi, n)
  <2>1. At(rQi, "filter")
    BY <1>5, <1>8, <1>11, Placed
  <2>. QED  BY <1>5, <1>6, <1>7, <1>11, <2>1, Taken DEF Outcome
<1>. QED  BY <1>9, <1>10, <1>11

LEMMA TightPaletteStep ==
  ASSUME NEW of, NEW r, NEW d, NEW B, NEW P, NEW Q, NEW c, NEW open,
         Ready(of, r, d, B, P, Q, c, open), TightPalette
  PROVE  Outcome(of, r, B, P, Q, c, open)
<1>1. /\ Of = of /\ R = r /\ dec = d /\ RectOK(r) /\ DecOK(r, d) /\ ScreenOK(display)
      /\ IsTight(r) /\ d.control = "basic" /\ d.filter = "palette" /\ d.colours = 0
  BY ReadyMeans DEF TightPalette, Tight, Decoding, IsTight
<1>2. PICK n, e : n = 1 + 3 * r.colours /\ e = [d EXCEPT !.colours = r.colours]
  OBVIOUS
<1>3. /\ n \in Nat /\ r.colours \in Nat /\ Starts(BodyLeft(r, d), "palette")
      /\ Progress(of, r, d, n, <<>>, e)
  BY <1>1, <1>2, TightPalettes
<1>4. n > 0
  BY <1>2, <1>3
<1>5. \/ Pause(rQi, d)
      \/ Have(rQi, n) /\ ~At(rQi, "palette") /\ Derail
      \/ Have(rQi, n) /\ Take(n, e, display)
  BY <1>1, <1>2 DEF TightPalette, Read
<1>6. Adds(display, display, <<>>)
  BY <1>1, NothingDrawn
<1>7. CASE Pause(rQi, d)
  BY <1>7, Waited
<1>8. CASE Have(rQi, n) /\ ~Pause(rQi, d)
  <2>1. At(rQi, "palette")
    BY <1>3, <1>4, <1>8, Placed
  <2>. QED  BY <1>3, <1>5, <1>6, <1>8, <2>1, Taken DEF Outcome
<1>. QED  BY <1>5, <1>7, <1>8

LEMMA TightLengthStep ==
  ASSUME NEW of, NEW r, NEW d, NEW B, NEW P, NEW Q, NEW c, NEW open,
         Ready(of, r, d, B, P, Q, c, open), IsTight(r), CompressedNext(r, d), TightLength(TRUE)
  PROVE  Outcome(of, r, B, P, Q, c, open)
<1>1. /\ Of = of /\ R = r /\ dec = d /\ RectOK(r) /\ DecOK(r, d) /\ ScreenOK(display)
      /\ rQi \in Nat /\ Len(rQ) \in Nat
  BY ReadyMeans
<1>2. PICK n, e : n = r.lenBytes /\ e = [d EXCEPT !.len = r.len]
  OBVIOUS
<1>3. n \in 1 .. 3 /\ Starts(BodyLeft(r, d), "length") /\ Progress(of, r, d, n, <<>>, e)
  BY <1>1, <1>2, TightLengths
<1>4. n \in Nat /\ n > 0
  BY <1>3
<1>5. \/ ~Have(rQi, 3) /\ Pause(rQi, d)
      \/ ~Have(rQi, n) /\ Pause(rQi, d)
      \/ Have(rQi, n) /\ ~At(rQi, "length") /\ Derail
      \/ Have(rQi, n) /\ Take(n, e, display)
  BY <1>1, <1>2 DEF TightLength, Read
<1>6. Adds(display, display, <<>>)
  BY <1>1, NothingDrawn
<1>7. CASE Pause(rQi, d)
  BY <1>7, Waited
<1>8. CASE Have(rQi, n) /\ ~Pause(rQi, d)
  <2>1. At(rQi, "length")
    BY <1>3, <1>4, <1>8, Placed
  <2>. QED  BY <1>3, <1>4, <1>5, <1>6, <1>8, <2>1, Taken DEF Outcome
<1>. QED  BY <1>5, <1>7, <1>8

LEMMA TightPictureStep ==
  ASSUME NEW of, NEW r, NEW d, NEW B, NEW P, NEW Q, NEW c, NEW open,
         Ready(of, r, d, B, P, Q, c, open), TightPicture
  PROVE  Outcome(of, r, B, P, Q, c, open)
<1>1. /\ Of = of /\ R = r /\ dec = d /\ RectOK(r) /\ DecOK(r, d) /\ ScreenOK(display)
      /\ IsTight(r) /\ d.control \in {"jpeg", "png"} /\ r.enc # "lastrect"
  BY ReadyMeans DEF TightPicture, Tight, Decoding, IsTight
<1>2. CASE TightLength(TRUE)
  <2>1. CompressedNext(r, d)
    BY <1>1, <1>2 DEF TightLength, CompressedNext
  <2>. QED  BY <1>1, <1>2, <2>1, TightLengthStep
<1>3. CASE ~TightLength(TRUE)
  <2>1. PICK n, e, s : /\ n = d.len
                       /\ e = [[d EXCEPT !.len = 0] EXCEPT !.control = None, !.filter = None]
                       /\ s = ImageRect(display, Append(of, 1), r.w * r.h = 0, r.good)
    OBVIOUS
  <2>2. /\ n > 0
        /\ \/ ~Have(rQi, n) /\ Pause(rQi, d)
           \/ Have(rQi, n) /\ ~At(rQi, "data") /\ Derail
           \/ Have(rQi, n) /\ EndRect(n, e, s)
    BY <1>1, <1>3, <2>1 DEF TightPicture, Read, EndTight, Piece, Empty
  <2>3. d.len # 0
    BY <2>1, <2>2
  <2>4. /\ n \in Nat /\ Starts(BodyLeft(r, d), "data") /\ Finish(of, r, d, n, TightPiece(of, r))
        /\ Fresh(e)
    BY <1>1, <2>1, <2>3, TightCompressed
  <2>5. Adds(display, s, TightPiece(of, r))
    <3>1. CASE r.w * r.h = 0
      BY <1>1, <2>1, <3>1, PictureDraws DEF TightPiece
    <3>2. CASE r.w * r.h # 0
      BY <1>1, <2>1, <3>2, PictureDraws DEF TightPiece
    <3>. QED  BY <3>1, <3>2
  <2>6. CASE ~Have(rQi, n)
    BY <2>2, <2>6, Waited
  <2>7. CASE Have(rQi, n)
    <3>1. At(rQi, "data")
      BY <2>2, <2>4, <2>7, Placed
    <3>. QED  BY <1>1, <2>2, <2>4, <2>5, <2>7, <3>1, Drawn
  <2>. QED  BY <2>6, <2>7
<1>. QED  BY <1>2, <1>3

LEMMA TightPixelsStep ==
  ASSUME NEW of, NEW r, NEW d, NEW B, NEW P, NEW Q, NEW c, NEW open,
         Ready(of, r, d, B, P, Q, c, open), TightPixels
  PROVE  Outcome(of, r, B, P, Q, c, open)
<1>1. /\ Of = of /\ R = r /\ dec = d /\ RectOK(r) /\ DecOK(r, d) /\ ScreenOK(display)
      /\ IsTight(r) /\ d.control = "basic" /\ d.filter # None /\ r.enc # "lastrect"
      /\ d.filter = "palette" => d.colours > 0
  BY ReadyMeans DEF TightPixels, Tight, Decoding, IsTight
<1>2. PICK size : size = TightSize(r)
  OBVIOUS
<1>3. PICK e, w, s : /\ e = [[d EXCEPT !.len = 0, !.colours = 0] EXCEPT !.control = None, !.filter = None]
                     /\ w = [d EXCEPT !.control = None, !.filter = None]
                     /\ s = Blit(display, Append(of, 1), FALSE)
  OBVIOUS
<1>4. /\ PixelBytes(r, d.filter, d.colours) = size /\ size \in Nat
      /\ size = 0 => Finish(of, r, d, 0, <<>>) /\ Fresh(w)
      /\ size > 0 /\ size < Small =>
           /\ Starts(BodyLeft(r, d), "data") /\ Finish(of, r, d, size, <<Append(of, 1)>>) /\ Fresh(e)
      /\ d.len > 0 => d.len # 0
      /\ size >= Small /\ d.len = 0 => CompressedNext(r, d)
  BY <1>1, <1>2, <1>3, TightCopied
<1>5. PICK n : n = d.len
  OBVIOUS
<1>6. \/ size = 0 /\ EndRect(0, w, display)
      \/ /\ size > 0 /\ size < Small
         /\ \/ ~Have(rQi, size) /\ Pause(rQi, d)
            \/ Have(rQi, size) /\ ~At(rQi, "data") /\ Derail
            \/ Have(rQi, size) /\ EndRect(size, e, s)
      \/ size >= Small /\ TightLength(TRUE)
      \/ /\ size >= Small /\ n > 0
         /\ \/ ~Have(rQi, n) /\ Pause(rQi, d)
            \/ Have(rQi, n) /\ ~At(rQi, "data") /\ Derail
            \/ Fail
            \/ Have(rQi, n) /\ EndRect(n, e, s)
  BY <1>1, <1>3, <1>4, <1>5 DEF TightPixels, Read, EndTight, Piece, TightLength
<1>7. Adds(display, s, <<Append(of, 1)>>) /\ Adds(display, display, <<>>)
  BY <1>1, <1>3, BlitDraws, NothingDrawn
<1>8. CASE size = 0 /\ EndRect(0, w, display)
  <2>1. Have(rQi, 0)
    BY HaveNothing
  <2>2. PICK z \in Nat : z = 0
    OBVIOUS
  <2>. QED  BY <1>1, <1>4, <1>7, <1>8, <2>1, <2>2, Drawn
<1>9. CASE /\ size > 0 /\ size < Small
           /\ \/ ~Have(rQi, size) /\ Pause(rQi, d)
              \/ Have(rQi, size) /\ ~At(rQi, "data") /\ Derail
              \/ Have(rQi, size) /\ EndRect(size, e, s)
  <2>1. CASE ~Have(rQi, size)
    BY <1>9, <2>1, Waited
  <2>2. CASE Have(rQi, size)
    <3>1. At(rQi, "data")
      BY <1>4, <1>9, <2>2, Placed
    <3>. QED  BY <1>1, <1>4, <1>7, <1>9, <2>2, <3>1, Drawn
  <2>. QED  BY <2>1, <2>2
<1>10. CASE size >= Small /\ TightLength(TRUE)
  <2>1. d.len = 0
    BY <1>1, <1>10 DEF TightLength
  <2>. QED  BY <1>1, <1>4, <1>10, <2>1, TightLengthStep
<1>11. CASE /\ size >= Small /\ n > 0
            /\ \/ ~Have(rQi, n) /\ Pause(rQi, d)
               \/ Have(rQi, n) /\ ~At(rQi, "data") /\ Derail
               \/ Fail
               \/ Have(rQi, n) /\ EndRect(n, e, s)
  <2>0. d.len # 0
    BY <1>4, <1>5, <1>11
  <2>1. /\ n \in Nat /\ Starts(BodyLeft(r, d), "data") /\ Finish(of, r, d, n, TightPiece(of, r))
        /\ r.control = "basic" => TightPiece(of, r) = <<Append(of, 1)>>
        /\ Fresh(e)
    BY <1>1, <1>3, <1>5, <2>0, TightCompressed
  <2>2. r.control = "basic"
    BY <1>1 DEF DecOK, TightStateOK, None
  <2>3. Finish(of, r, d, n, <<Append(of, 1)>>)
    BY <2>1, <2>2
  <2>4. CASE ~Have(rQi, n)
    BY <1>11, <2>4, Waited, Failed
  <2>5. CASE Have(rQi, n)
    <3>1. At(rQi, "data")
      BY <1>11, <2>1, <2>5, Placed
    <3>2. CASE Fail
      BY <3>2, Failed
    <3>3. CASE EndRect(n, e, s)
      BY <1>1, <1>7, <2>1, <2>3, <2>5, <3>3, Drawn
    <3>. QED  BY <1>11, <2>5, <3>1, <3>2, <3>3
  <2>. QED  BY <2>4, <2>5
<1>. QED  BY <1>6, <1>8, <1>9, <1>10, <1>11

LEMMA JpegStep ==
  ASSUME NEW of, NEW r, NEW d, NEW B, NEW P, NEW Q, NEW c, NEW open,
         Ready(of, r, d, B, P, Q, c, open), Jpeg
  PROVE  Outcome(of, r, B, P, Q, c, open)
<1>1. /\ Of = of /\ R = r /\ dec = d /\ RectOK(r) /\ DecOK(r, d) /\ ScreenOK(display)
      /\ rQi \in Nat /\ Len(rQ) \in Nat
      /\ r.enc = "jpeg"
  BY ReadyMeans DEF Jpeg, Decoding
<1>2. PICK s, n : s = AtSegment(r, d) /\ n = SegmentBytes(s)
  OBVIOUS
<1>3. /\ n \in Nat /\ n >= 2
      /\ s.type \notin Markers => /\ s.len \in Nat /\ s.len >= 2 /\ s.scan \in Nat
                                  /\ (s.type # "scan" => s.scan = 0) /\ n = 2 + s.len + s.scan
      /\ s.type \in Markers => n = 2
      /\ Starts(BodyLeft(r, d), "segment") /\ BodyLeft(r, d)[1].s = s
      /\ s.type = "end" => Finish(of, r, d, 2, TightPiece(of, r))
      /\ s.type # "end" =>
           Progress(of, r, d, n, <<>>, [d EXCEPT !.segments = Append(d.segments, s.type)])
  <2>1. SegmentIs(of, r, d, s, n)
    BY <1>1, <1>2, JpegSegment
  <2>. QED  BY <2>1 DEF SegmentIs
<1>4. CASE ~Have(rQi, 2)
  <2>1. Pause(rQi, d)
    BY <1>1, <1>4 DEF Jpeg, Read
  <2>. QED  BY <2>1, Waited
<1>5. CASE Have(rQi, 2)
  <2>1. At(rQi, "segment") /\ rQ[rQi + 1].s = s
    <3>1. PICK two \in Nat : two = 2 /\ two > 0
      OBVIOUS
    <3>. QED  BY <1>3, <1>5, <3>1, Placed
  <2>2. PICK segs, e : segs = Append(d.segments, s.type) /\ e = [d EXCEPT !.segments = segs]
    OBVIOUS
  <2>3. PICK tables : tables = (d.tables \/ "tables" \in Range(segs))
    OBVIOUS
  <2>4. PICK w, x : /\ w = [d EXCEPT !.segments = <<>>, !.tables = tables]
                    /\ x = ImageRect(display, Append(of, 1), r.w * r.h = 0, r.good /\ tables)
    OBVIOUS
  <2>5. PICK bytes : bytes = IF s.type \in Markers THEN 2 ELSE 2 + s.len + s.scan
    OBVIOUS
  <2>6. bytes = n
    BY <1>3, <2>5
  <2>7. IF s.type \notin Markers /\ ~Have(rQi + 2, 2) THEN Pause(rQi + 2 - 2, d)
        ELSE IF s.type \notin Markers /\ ~Have(rQi + 4, s.len - 2) THEN Pause(rQi + 4 - 4, d)
        ELSE IF s.type = "scan" /\ ~Have(rQi + 4, s.len - 2 + s.scan + 2)
        THEN Pause(rQi + 4 - 4, d)
        ELSE IF s.type # "end" THEN Take(bytes, e, display)
        ELSE IF "frame" \notin Range(segs) THEN Fail
        ELSE EndRect(2, w, x)
    BY <1>1, <1>5, <2>1, <2>2, <2>3, <2>4, <2>5 DEF Jpeg, Read, Piece, Empty
  <2>8. rQi + 2 - 2 = rQi /\ rQi + 4 - 4 = rQi
    BY <1>1
  <2>9. CASE Pause(rQi, d)
    BY <2>9, Waited
  <2>10. CASE ~Pause(rQi, d)
    <3>1. CASE s.type # "end"
      <4>1. Take(n, e, display)
        BY <2>6, <2>7, <2>8, <2>10, <3>1
      <4>2. Have(rQi, n)
        <5>1. CASE s.type \in Markers
          BY <1>3, <1>5, <5>1
        <5>2. CASE s.type \notin Markers
          <6>1. Have(rQi + 4, s.len - 2)
            BY <2>7, <2>8, <2>10, <5>2
          <6>2. CASE s.type = "scan"
            <7>1. Have(rQi + 4, s.len - 2 + s.scan + 2)
              BY <2>7, <2>8, <2>10, <5>2, <6>2
            <7>. QED  BY SMTT(30), <1>1, <1>3, <5>2, <7>1 DEF Have
          <6>3. CASE s.type # "scan"
            BY <1>1, <1>3, <5>2, <6>1, <6>3 DEF Have
          <6>. QED  BY <6>2, <6>3
        <5>. QED  BY <5>1, <5>2
      <4>3. Progress(of, r, d, n, <<>>, e)
        BY <1>3, <2>2, <3>1
      <4>4. Adds(display, display, <<>>)
        BY <1>1, NothingDrawn
      <4>. QED  BY <1>3, <4>1, <4>2, <4>3, <4>4, Taken DEF Outcome
    <3>2. CASE s.type = "end"
      <4>1. s.type \in Markers /\ s.type # "scan"
        BY <3>2 DEF Markers
      <4>2. Fail \/ EndRect(2, w, x)
        BY <2>7, <3>2, <4>1
      <4>3. Finish(of, r, d, 2, TightPiece(of, r))
        BY <1>3, <3>2
      <4>4. Fresh(w)
        BY <1>1, <2>4, JpegEnds
      <4>5. Adds(display, x, TightPiece(of, r))
        <5>1. CASE r.w * r.h = 0
          <6>1. x = ImageRect(display, Append(of, 1), TRUE, r.good /\ tables)
            BY <2>4, <5>1
          <6>2. PICK good : good = (r.good /\ tables)
            OBVIOUS
          <6>. QED  BY <1>1, <5>1, <6>1, <6>2, PictureDraws DEF TightPiece
        <5>2. CASE r.w * r.h # 0
          <6>1. x = ImageRect(display, Append(of, 1), FALSE, r.good /\ tables)
            BY <2>4, <5>2
          <6>2. PICK good : good = (r.good /\ tables)
            OBVIOUS
          <6>. QED  BY <1>1, <5>2, <6>1, <6>2, PictureDraws DEF TightPiece
        <5>. QED  BY <5>1, <5>2
      <4>6. PICK two \in Nat : two = 2
        OBVIOUS
      <4>. QED  BY <1>1, <1>5, <4>2, <4>3, <4>4, <4>5, <4>6, Drawn, Failed
    <3>. QED  BY <3>1, <3>2
  <2>. QED  BY <2>9, <2>10
<1>. QED  BY <1>4, <1>5

LEMMA H264Step ==
  ASSUME NEW of, NEW r, NEW d, NEW B, NEW P, NEW Q, NEW c, NEW open,
         Ready(of, r, d, B, P, Q, c, open), H264
  PROVE  Outcome(of, r, B, P, Q, c, open)
<1>1. /\ Of = of /\ R = r /\ dec = d /\ RectOK(r) /\ DecOK(r, d) /\ ScreenOK(display)
      /\ rQi \in Nat /\ Len(rQ) \in Nat
      /\ r.enc = "h264"
  BY ReadyMeans DEF H264, Decoding
<1>2. PICK kept : kept = CASE r.reset = "all" -> {}
                           [] r.reset = "this" -> d.contexts \ {r.place}
                           [] OTHER -> d.contexts
  OBVIOUS
<1>3. PICK decodes : decodes = (r.len > 0 /\ r.frames > 0 /\ (r.key \/ r.place \in kept))
  OBVIOUS
<1>4. PICK contexts : contexts = kept \cup (IF decodes THEN {r.place} ELSE {})
  OBVIOUS
<1>5. PICK e, s : /\ e = [d EXCEPT !.contexts = contexts]
                  /\ s = IF decodes THEN VideoFrame(display, Append(of, 1), r.good) ELSE display
  OBVIOUS
<1>6. PICK n : n = 8 + r.len
  OBVIOUS
<1>7. /\ r.len \in Nat /\ r.frames \in Nat /\ (r.frames > 0 => r.len > 0 /\ r.key)
      /\ Starts(BodyLeft(r, d), "h264")
      /\ r.frames > 0 => Finish(of, r, d, n, <<Append(of, 1)>>)
      /\ ~(r.frames > 0) => Finish(of, r, d, n, <<>>)
      /\ Fresh(e)
  BY <1>1, <1>5, <1>6, H264Frame
<1>8. decodes = (r.frames > 0)
  BY <1>3, <1>7
<1>9. IF ~Have(rQi, 8) THEN Pause(rQi, d)
      ELSE IF ~At(rQi, "h264") THEN Derail
      ELSE IF ~Have(rQi + 8, r.len) THEN Pause(rQi + 8 - 8, d)
      ELSE EndRect(n, e, s)
  BY <1>1, <1>2, <1>3, <1>4, <1>5, <1>6 DEF H264, Read, Piece
<1>10. rQi + 8 - 8 = rQi
  BY <1>1
<1>11. CASE ~Have(rQi, 8)
  BY <1>9, <1>11, Waited
<1>12. CASE Have(rQi, 8)
  <2>1. At(rQi, "h264")
    <3>1. PICK k \in Nat : k = 8 /\ k > 0
      OBVIOUS
    <3>. QED  BY <1>7, <1>12, <3>1, Placed
  <2>2. CASE ~Have(rQi + 8, r.len)
    BY <1>9, <1>10, <1>12, <2>1, <2>2, Waited
  <2>3. CASE Have(rQi + 8, r.len)
    <3>1. Have(rQi, n) /\ n \in Nat
      BY <1>1, <1>6, <1>7, <2>3 DEF Have
    <3>2. EndRect(n, e, s)
      BY <1>9, <1>12, <2>1, <2>3
    <3>3. CASE r.frames > 0
      <4>1. Adds(display, s, <<Append(of, 1)>>)
        BY <1>1, <1>5, <1>8, <3>3, PictureDraws
      <4>. QED  BY <1>1, <1>7, <3>1, <3>2, <3>3, <4>1, Drawn
    <3>4. CASE ~(r.frames > 0)
      <4>1. Adds(display, s, <<>>)
        BY <1>1, <1>5, <1>8, <3>4, NothingDrawn
      <4>. QED  BY <1>1, <1>7, <3>1, <3>2, <3>4, <4>1, Drawn
    <3>. QED  BY <3>3, <3>4
  <2>. QED  BY <2>2, <2>3
<1>. QED  BY <1>11, <1>12

(* Pseudo rectangles change nothing of the picture, but perhaps its size.   *)

LEMMA Told ==
  ASSUME NEW of, NEW r, NEW d, NEW B, NEW P, NEW Q, NEW c, NEW open,
         Ready(of, r, d, B, P, Q, c, open), Pseudo(r), r.enc # "lastrect",
         NEW n \in Nat, Len(Body(r)) = n, Have(rQi, n),
         NEW did, did \notin Over, NEW screen, Adds(display, screen, <<>>),
         EndRectWith(n, did, rfb, screen)
  PROVE  Outcome(of, r, B, P, Q, c, open)
<1>1. /\ rfb.dec = d /\ RectOK(r) /\ DecOK(r, d) /\ DOMAIN rfb = SessionFields
  BY ReadyMeans DEF dec
<1>2. Kept(rfb, rfb)
  BY DEF Kept
<1>3. Fresh(d) /\ Finish(of, r, d, n, <<>>)
  BY <1>1, PseudoIs
<1>4. Ends(r, B, P, Q, c, open)
  BY <1>1, <1>2, <1>3, Ended
<1>. QED  BY <1>4 DEF Outcome

LEMMA LastRectStep ==
  ASSUME NEW of, NEW r, NEW d, NEW B, NEW P, NEW Q, NEW c, NEW open,
         Ready(of, r, d, B, P, Q, c, open), LastRect
  PROVE  Outcome(of, r, B, P, Q, c, open)
<1>1. /\ DOMAIN rfb = SessionFields /\ rfb.dec = d /\ RectOK(r) /\ DecOK(r, d) /\ ScreenOK(display)
      /\ R = r
  BY ReadyMeans DEF dec
<1>2. r.enc = "lastrect" /\ Nothing(r) /\ Pseudo(r)
  BY <1>1 DEF LastRect, Decoding, Nothing, Pseudo
<1>3. PICK next : next = [rfb EXCEPT !.rects = 1]
  OBVIOUS
<1>4. DOMAIN next = SessionFields /\ Kept(next, rfb) /\ next.dec = d /\ next.rects = 1
  BY <1>1, <1>3 DEF SessionFields, Kept
<1>5. PICK n \in Nat : n = 0
  OBVIOUS
<1>6. Len(Body(r)) = n
  BY <1>1, <1>2, <1>5, PseudoSizes
<1>7. Fresh(d) /\ Finish(of, r, d, n, <<>>)
  BY <1>1, <1>2, <1>6, PseudoIs
<1>8. PICK did : did = "last" /\ did \notin Over
  BY DEF Over
<1>9. EndRectWith(n, did, next, display)
  BY <1>3, <1>5, <1>8 DEF LastRect
<1>10. Have(rQi, n) /\ Adds(display, display, <<>>)
  BY <1>1, <1>5, HaveNothing, NothingDrawn
<1>11. Ends(r, B, P, Q, c, open)
  BY <1>2, <1>4, <1>7, <1>8, <1>9, <1>10, Ended
<1>. QED  BY <1>11 DEF Outcome

LEMMA PseudoStep ==
  ASSUME NEW of, NEW r, NEW d, NEW B, NEW P, NEW Q, NEW c, NEW open,
         Ready(of, r, d, B, P, Q, c, open),
         \/ QemuKeys \/ MouseButtons \/ VMwareCursor \/ Cursor \/ DesktopName \/ LedEvent
         \/ DesktopSize \/ ExtendedDesktopSize
  PROVE  Outcome(of, r, B, P, Q, c, open)
<1>1. /\ Of = of /\ R = r /\ dec = d /\ RectOK(r) /\ DecOK(r, d) /\ ScreenOK(display)
      /\ rQi \in Nat /\ Len(rQ) \in Nat /\ rfb.pc = "rect" /\ DOMAIN rfb = SessionFields
  BY ReadyMeans
<1>2. PICK z \in Nat : z = 0
  OBVIOUS
<1>3. Have(rQi, z)
  BY <1>2, HaveNothing
<1>4. Adds(display, display, <<>>)
  BY <1>1, NothingDrawn
<1>5. CASE QemuKeys \/ MouseButtons
  <2>1. r.enc \in {"qemukeys", "mousebuttons"}
    BY <1>1, <1>5 DEF QemuKeys, MouseButtons, Decoding
  <2>2. Nothing(r) /\ Pseudo(r) /\ r.enc # "lastrect"
    BY <2>1 DEF Nothing, Pseudo
  <2>3. Len(Body(r)) = z
    BY <1>1, <1>2, <2>2, PseudoSizes
  <2>4. PICK did : did \in {"qemukeys", "mousebuttons"} /\ EndRectWith(z, did, rfb, display)
    BY <1>2, <1>5 DEF QemuKeys, MouseButtons
  <2>5. did \notin Over
    BY <2>4 DEF Over
  <2>. QED  BY <1>3, <1>4, <2>2, <2>3, <2>4, <2>5, Told
<1>6. CASE VMwareCursor
  <2>1. r.enc = "vmwarecursor" /\ Pseudo(r)
    BY <1>1, <1>6 DEF VMwareCursor, Decoding, Pseudo
  <2>2. PICK k : k = (IF r.classic THEN 8 ELSE 4) * r.w * r.h
    OBVIOUS
  <2>3. k \in Nat /\ Len(Body(r)) = 2 + k /\ Starts(Body(r), "vmware")
    BY <1>1, <2>1, <2>2, PseudoSizes
  <2>4. PICK n \in Nat : n = 2 + k
    BY <2>3
  <2>5. BodyLeft(r, d) = Body(r)
    BY <1>1, <2>1, <2>3, <2>4, PseudoIs
  <2>6. IF ~Have(rQi, 1) THEN Pause(rQi, d)
        ELSE IF ~At(rQi, "vmware") THEN Derail
        ELSE IF ~Have(rQi + 2, k) THEN Pause(rQi + 2 - 2, d)
        ELSE EndRectWith(n, "cursor", rfb, display)
    BY <1>1, <1>6, <2>2, <2>4 DEF VMwareCursor, Read
  <2>7. rQi + 2 - 2 = rQi
    BY <1>1
  <2>8. CASE ~Have(rQi, 1)
    BY <2>6, <2>8, Waited
  <2>9. CASE Have(rQi, 1)
    <3>1. At(rQi, "vmware")
      BY <2>3, <2>5, <2>9, InPlace
    <3>2. CASE ~Have(rQi + 2, k)
      BY <2>6, <2>7, <2>9, <3>1, <3>2, Waited
    <3>3. CASE Have(rQi + 2, k)
      <4>1. Have(rQi, n)
        BY <1>1, <2>3, <2>4, <3>3 DEF Have
      <4>2. PICK did : did = "cursor" /\ did \notin Over
        BY DEF Over
      <4>3. EndRectWith(n, did, rfb, display)
        BY <2>6, <2>9, <3>1, <3>3, <4>2
      <4>. QED  BY <1>4, <2>1, <2>3, <2>4, <4>1, <4>2, <4>3, Told
    <3>. QED  BY <3>2, <3>3
  <2>. QED  BY <2>8, <2>9
<1>7. CASE Cursor
  <2>1. r.enc = "cursor" /\ Pseudo(r)
    BY <1>1, <1>7 DEF Cursor, Decoding, Pseudo
  <2>2. PICK n : n = 4 * r.w * r.h + CeilDiv(r.w, 8) * r.h
    OBVIOUS
  <2>3. n \in Nat /\ Len(Body(r)) = n
    BY <1>1, <2>1, <2>2, PseudoSizes
  <2>4. IF ~Have(rQi, n) THEN Pause(rQi, d) ELSE EndRectWith(n, "cursor", rfb, display)
    BY <1>1, <1>7, <2>2 DEF Cursor
  <2>5. CASE ~Have(rQi, n)
    BY <2>4, <2>5, Waited
  <2>6. CASE Have(rQi, n)
    <3>1. PICK did : did = "cursor" /\ did \notin Over
      BY DEF Over
    <3>2. EndRectWith(n, did, rfb, display)
      BY <2>4, <2>6, <3>1
    <3>. QED  BY <1>4, <2>1, <2>3, <2>6, <3>1, <3>2, Told
  <2>. QED  BY <2>5, <2>6
<1>8. CASE DesktopName
  <2>1. r.enc = "name" /\ Pseudo(r)
    BY <1>1, <1>8 DEF DesktopName, Decoding, Pseudo
  <2>2. r.len \in Nat /\ Len(Body(r)) = 4 + r.len /\ Starts(Body(r), "length")
    BY <1>1, <2>1, PseudoSizes
  <2>3. PICK n \in Nat : n = 4 + r.len
    BY <2>2
  <2>4. BodyLeft(r, d) = Body(r)
    BY <1>1, <2>1, <2>2, <2>3, PseudoIs
  <2>5. IF ~Have(rQi, 4) THEN Pause(rQi, d)
        ELSE IF ~At(rQi, "length") THEN Derail
        ELSE IF ~Have(rQi + 4, r.len) THEN Pause(rQi + 4 - 4, d)
        ELSE EndRectWith(n, "name", rfb, display)
    BY <1>1, <1>8, <2>3 DEF DesktopName, Read
  <2>6. rQi + 4 - 4 = rQi
    BY <1>1
  <2>7. CASE ~Have(rQi, 4)
    BY <2>5, <2>7, Waited
  <2>8. CASE Have(rQi, 4)
    <3>0. PICK k \in Nat : k = 4 /\ k > 0
      OBVIOUS
    <3>1. At(rQi, "length")
      BY <2>2, <2>4, <2>8, <3>0, Placed
    <3>2. CASE ~Have(rQi + 4, r.len)
      BY <2>5, <2>6, <2>8, <3>1, <3>2, Waited
    <3>3. CASE Have(rQi + 4, r.len)
      <4>1. Have(rQi, n)
        BY <1>1, <2>2, <2>3, <3>3 DEF Have
      <4>2. PICK did : did = "name" /\ did \notin Over
        BY DEF Over
      <4>3. EndRectWith(n, did, rfb, display)
        BY <2>5, <2>8, <3>1, <3>3, <4>2
      <4>. QED  BY <1>4, <2>1, <2>2, <2>3, <4>1, <4>2, <4>3, Told
    <3>. QED  BY <3>2, <3>3
  <2>. QED  BY <2>7, <2>8
<1>9. CASE LedEvent
  <2>1. r.enc = "led" /\ Pseudo(r)
    BY <1>1, <1>9 DEF LedEvent, Decoding, Pseudo
  <2>2. PICK n \in Nat : n = 1 /\ n > 0
    OBVIOUS
  <2>3. Len(Body(r)) = n /\ Starts(Body(r), "led")
    BY <1>1, <2>1, <2>2, PseudoSizes
  <2>4. BodyLeft(r, d) = Body(r)
    BY <1>1, <2>1, <2>3, PseudoIs
  <2>5. IF ~Have(rQi, n) THEN Pause(rQi, d)
        ELSE IF ~At(rQi, "led") THEN Derail
        ELSE EndRectWith(n, "led", rfb, display)
    BY <1>1, <1>9, <2>2 DEF LedEvent, Read
  <2>6. CASE ~Have(rQi, n)
    BY <2>5, <2>6, Waited
  <2>7. CASE Have(rQi, n)
    <3>1. At(rQi, "led")
      BY <2>2, <2>3, <2>4, <2>7, Placed
    <3>2. PICK did : did = "led" /\ did \notin Over
      BY DEF Over
    <3>3. EndRectWith(n, did, rfb, display)
      BY <2>5, <2>7, <3>1, <3>2
    <3>. QED  BY <1>4, <2>1, <2>3, <2>7, <3>2, <3>3, Told
  <2>. QED  BY <2>6, <2>7
<1>10. CASE DesktopSize
  <2>1. r.enc = "size" /\ Nothing(r) /\ Pseudo(r)
    BY <1>1, <1>10 DEF DesktopSize, Decoding, Nothing, Pseudo
  <2>2. Len(Body(r)) = z
    BY <1>1, <1>2, <2>1, PseudoSizes
  <2>3. PICK screen, did : screen = Resize(display, <<r.w, r.h>>) /\ did = "size"
    OBVIOUS
  <2>4. EndRectWith(z, did, rfb, screen)
    BY <1>1, <1>2, <1>10, <2>3 DEF DesktopSize
  <2>5. did \notin Over
    BY <2>3 DEF Over
  <2>6. Adds(display, screen, <<>>)
    BY <1>1, <2>3, ResizeDraws
  <2>. QED  BY <1>3, <2>1, <2>2, <2>4, <2>5, <2>6, Told
<1>11. CASE ExtendedDesktopSize
  <2>1. r.enc = "extsize" /\ Pseudo(r)
    BY <1>1, <1>11 DEF ExtendedDesktopSize, Decoding, Pseudo
  <2>2. r.screens \in Nat /\ Len(Body(r)) = 4 + r.screens * 16 /\ Starts(Body(r), "screens")
    BY <1>1, <2>1, PseudoSizes
  <2>3. PICK n \in Nat : n = 4 + r.screens * 16
    BY <2>2
  <2>4. BodyLeft(r, d) = Body(r)
    BY <1>1, <2>1, <2>2, <2>3, PseudoIs
  <2>5. PICK screen, did :
          /\ screen = IF r.refused THEN display ELSE Resize(display, <<r.w, r.h>>)
          /\ did = "size"
    OBVIOUS
  <2>6. IF ~Have(rQi, 4) THEN Pause(rQi, d)
        ELSE IF ~At(rQi, "screens") THEN Derail
        ELSE IF ~Have(rQi, n) THEN Pause(rQi, d) ELSE EndRectWith(n, did, rfb, screen)
    BY <1>1, <1>11, <2>3, <2>5 DEF ExtendedDesktopSize, Read
  <2>7. Adds(display, screen, <<>>)
    BY <1>1, <1>4, <2>5, ResizeDraws
  <2>8. CASE ~Have(rQi, 4)
    BY <2>6, <2>8, Waited
  <2>9. CASE Have(rQi, 4)
    <3>0. PICK k \in Nat : k = 4 /\ k > 0
      OBVIOUS
    <3>1. At(rQi, "screens")
      BY <2>2, <2>4, <2>9, <3>0, Placed
    <3>2. CASE ~Have(rQi, n)
      BY <2>6, <2>9, <3>1, <3>2, Waited
    <3>3. CASE Have(rQi, n)
      <4>1. EndRectWith(n, did, rfb, screen)
        BY <2>6, <2>9, <3>1, <3>3
      <4>2. did \notin Over
        BY <2>5 DEF Over
      <4>3. r.enc # "lastrect"
        BY <2>1
      <4>4. Len(Body(r)) = n
        BY <2>2, <2>3
      <4>. QED  BY <2>1, <2>7, <3>3, <4>1, <4>2, <4>3, <4>4, Told
    <3>. QED  BY <3>2, <3>3
  <2>. QED  BY <2>8, <2>9
<1>. QED  BY <1>5, <1>6, <1>7, <1>8, <1>9, <1>10, <1>11

LEMMA RectStep ==
  ASSUME NEW of, NEW r, NEW d, NEW B, NEW P, NEW Q, NEW c, NEW open,
         Ready(of, r, d, B, P, Q, c, open), PseudoRect \/ DataRect
  PROVE  Outcome(of, r, B, P, Q, c, open)
<1>1. CASE PseudoRect
  <2>1. CASE LastRect
    BY <2>1, LastRectStep
  <2>2. CASE UnknownEncoding
    BY <2>2, Failed DEF UnknownEncoding
  <2>3. CASE \/ QemuKeys \/ MouseButtons \/ VMwareCursor \/ Cursor \/ DesktopName \/ LedEvent
             \/ DesktopSize \/ ExtendedDesktopSize
    BY <2>3, PseudoStep
  <2>. QED  BY <1>1, <2>1, <2>2, <2>3 DEF PseudoRect
<1>2. CASE DataRect
  <2>1. CASE TightIllegal
    BY <2>1, Failed DEF TightIllegal
  <2>2. CASE Raw \/ CopyRect \/ RreBackground \/ RreSubrect \/ Hextile \/ ZlibLength \/ Zlib \/ Zrle
    BY <2>2, RawStep, CopyRectStep, RreBackgroundStep, RreSubrectStep, HextileStep, ZlibLengthStep,
       ZlibStep
  <2>3. CASE TightControl \/ TightFill \/ TightFilter \/ TightPalette \/ TightPicture \/ TightPixels
    BY <2>3, TightControlStep, TightFillStep, TightFilterStep, TightPaletteStep, TightPictureStep,
       TightPixelsStep
  <2>4. CASE Jpeg \/ H264
    BY <2>4, JpegStep, H264Step
  <2>. QED  BY <1>2, <2>1, <2>2, <2>3, <2>4 DEF DataRect
<1>. QED  BY <1>1, <1>2

-----------------------------------------------------------------------------
(* The invariant.  msgs are the messages sent, and c says how many of them  *)
(* the client has begun; z is the record of the session.  What is still to  *)
(* come, the bytes B, the parts P and the pieces Q, follows from where the  *)
(* client is: between two messages, in an update after j of its rectangles, *)
(* in a rectangle, or where what it left behind of a message keeps it from  *)
(* reading any more.  "open" is 1 in an update, which is then not answered. *)

\* The rectangles the client counts after the first j of an update.
RectsLeft(m, j) == IF j = Len(m.rects) THEN 0 ELSE m.count - j

Between(z, msgs, B, P, Q, c, open) ==
  /\ c \in 0 .. Len(msgs) /\ open = 0
  /\ z.rects = 0 /\ z.rect = NoRect /\ z.state # "lost" /\ z.pc \in {"idle", "message"} /\ Fresh(z.dec)
  /\ B = BytesAfter(msgs, c) /\ P = PartsAfter(msgs, c) /\ Q = PiecesAfter(msgs, c)

Updating(z, msgs, B, P, Q, c, j, open) ==
  /\ UpdateAt(msgs, c, j) /\ open = 1
  /\ z.update = c /\ z.rects = RectsLeft(msgs[c], j) /\ z.rect = NoRect /\ z.state # "lost"
  /\ z.pc = "rects" \/ (z.rects > 0 /\ z.pc \in {"idle", "message"})
  /\ Fresh(z.dec)
  /\ B = BytesIn(msgs, c, j) /\ P = PartsIn(msgs, c, j) /\ Q = PiecesIn(msgs, c, j)

Reading(z, msgs, B, P, Q, c, j, open) ==
  /\ UpdateAt(msgs, c, j) /\ j # 0 /\ open = 1
  /\ z.update = c /\ z.rects = RectsLeft(msgs[c], j - 1) /\ z.state # "lost"
  /\ z.rect = [of |-> <<c, j>>, r |-> msgs[c].rects[j]]
  /\ z.pc \in {"rect", "idle", "message"}
  /\ DecOK(msgs[c].rects[j], z.dec) /\ IsSeq(BodyLeft(msgs[c].rects[j], z.dec))
  /\ B = Glue(BodyLeft(msgs[c].rects[j], z.dec), BytesIn(msgs, c, j))
  /\ P = Glue(<< <<c, j>> >>, PartsIn(msgs, c, j))
  /\ Q = Glue(PiecesLeft(<<c, j>>, msgs[c].rects[j], z.dec), PiecesIn(msgs, c, j))

Stuck(z, msgs, B, c, open) ==
  /\ c \in 0 .. Len(msgs) /\ open = 0
  /\ z.rects = 0 /\ z.rect = NoRect /\ z.pc \in {"idle", "message"}
  /\ z.skipped /\ Starts(B, "rest")

Gone(z, msgs, c, open) ==
  /\ c \in 0 .. Len(msgs) /\ open \in {0, 1}
  /\ z.pc = "idle" /\ z.state # "connected" /\ (z.rects = 0 => z.rect = NoRect)

Situation(z, msgs, B, P, Q, c, open) ==
  \/ Between(z, msgs, B, P, Q, c, open)
  \/ \E j : Updating(z, msgs, B, P, Q, c, j, open)
  \/ \E j : Reading(z, msgs, B, P, Q, c, j, open)
  \/ Stuck(z, msgs, B, c, open)
  \/ Gone(z, msgs, c, open)

\* What the server has sent.
Sent(msgs) == MessagesOK(msgs) /\ Len(msgs) = Len(sent) /\ \A i \in 1 .. Len(msgs) : sent[i] = msgs[i].type

Story(msgs, B, P, Q, c, open) ==
  /\ Base /\ Sent(msgs)
  /\ Coming(B) /\ Handles(P) /\ Missing(Q) /\ Balance(c, open)

Inv == \E msgs, B, P, Q, c, open :
         Story(msgs, B, P, Q, c, open) /\ Situation(rfb, msgs, B, P, Q, c, open)

Alike(y, z) ==
  /\ y.rects = z.rects /\ y.rect = z.rect /\ y.update = z.update /\ y.dec = z.dec
  /\ y.state = z.state /\ y.skipped = z.skipped

\* Outside of a handler, only whether one is to begin may change.
Settled(y, z) ==
  /\ Alike(y, z)
  /\ y.pc \in {"idle", "message"} /\ z.pc \in {"idle", "message", "rects", "rect"}
  /\ z.pc = "rects" => z.rects > 0
  /\ z.pc = "idle" /\ z.state # "connected" => y.pc = "idle"

LEMMA SettledSituation ==
  ASSUME NEW z, NEW y, NEW msgs, NEW B, NEW P, NEW Q, NEW c, NEW open,
         Situation(z, msgs, B, P, Q, c, open), Settled(y, z)
  PROVE  Situation(y, msgs, B, P, Q, c, open)
<1>1. CASE Between(z, msgs, B, P, Q, c, open)
  <2>1. Between(y, msgs, B, P, Q, c, open)
    BY <1>1 DEF Between, Settled, Alike
  <2>. QED  BY <2>1 DEF Situation
<1>2. ASSUME NEW j, Updating(z, msgs, B, P, Q, c, j, open) PROVE Situation(y, msgs, B, P, Q, c, open)
  <2>1. Updating(y, msgs, B, P, Q, c, j, open)
    BY <1>2 DEF Updating, Settled, Alike
  <2>. QED  BY <2>1 DEF Situation
<1>3. ASSUME NEW j, Reading(z, msgs, B, P, Q, c, j, open) PROVE Situation(y, msgs, B, P, Q, c, open)
  <2>1. Reading(y, msgs, B, P, Q, c, j, open)
    BY <1>3 DEF Reading, Settled, Alike
  <2>. QED  BY <2>1 DEF Situation
<1>4. CASE Stuck(z, msgs, B, c, open)
  <2>1. Stuck(y, msgs, B, c, open)
    BY <1>4 DEF Stuck, Settled, Alike
  <2>. QED  BY <2>1 DEF Situation
<1>5. CASE Gone(z, msgs, c, open)
  <2>1. Gone(y, msgs, c, open)
    BY <1>5 DEF Gone, Settled, Alike
  <2>. QED  BY <2>1 DEF Situation
<1>. QED  BY <1>1, <1>2, <1>3, <1>4, <1>5 DEF Situation

\* One more message is sent.
LEMMA SituationGrows ==
  ASSUME NEW z, NEW y, NEW msgs, NEW B, NEW P, NEW Q, NEW c, NEW open, MessagesOK(msgs),
         Situation(z, msgs, B, P, Q, c, open), Alike(y, z), y.pc = z.pc, IsSeq(B), IsSeq(P), IsSeq(Q),
         NEW m, MessageOK(m), NEW more, more = Append(msgs, m), NEW n, n = Len(msgs) + 1
  PROVE  Situation(y, more, Glue(B, Bytes(n, m)), Glue(P, Parts(n, m)), Glue(Q, Pieces(n, m)), c, open)
<1>1. PICK b, p, q : b = Bytes(n, m) /\ p = Parts(n, m) /\ q = Pieces(n, m)
  OBVIOUS
<1>2. PICK X, Y, Z : X = Glue(B, b) /\ Y = Glue(P, p) /\ Z = Glue(Q, q)
  OBVIOUS
<1>3. IsSeq(b) /\ IsSeq(p) /\ IsSeq(q)
  BY <1>1, BytesAre, PartsAre
<1>4. PICK l \in Nat : l = Len(msgs)
  BY StreamsAreSeqs
<1>5. OneMore(more, msgs, n, m)
  <2>1. 0 \in 0 .. Len(msgs)
    BY <1>4
  <2>. QED  BY <2>1, AfterMore
<1>6. c \in 0 .. Len(msgs) => c \in 0 .. Len(more)
  BY <1>4, <1>5 DEF OneMore
<1>7. CASE Between(z, msgs, B, P, Q, c, open)
  <2>1. c \in 0 .. Len(msgs) /\ B = BytesAfter(msgs, c) /\ P = PartsAfter(msgs, c) /\ Q = PiecesAfter(msgs, c)
    BY <1>7 DEF Between
  <2>2. AfterGrows(more, msgs, n, m, c)
    BY <2>1, AfterMore
  <2>3. X = BytesAfter(more, c) /\ Y = PartsAfter(more, c) /\ Z = PiecesAfter(more, c)
    BY <1>1, <1>2, <2>1, <2>2 DEF AfterGrows
  <2>4. Between(y, more, X, Y, Z, c, open)
    BY <1>6, <1>7, <2>1, <2>3 DEF Between, Alike
  <2>. QED  BY <1>1, <1>2, <2>4 DEF Situation
<1>8. ASSUME NEW j, UpdateAt(msgs, c, j)
      PROVE  /\ UpdateAt(more, c, j) /\ more[c] = msgs[c]
             /\ BytesIn(more, c, j) = Glue(BytesIn(msgs, c, j), b)
             /\ PartsIn(more, c, j) = Glue(PartsIn(msgs, c, j), p)
             /\ PiecesIn(more, c, j) = Glue(PiecesIn(msgs, c, j), q)
  <2>1. InGrows(more, msgs, n, m, c, j)
    BY <1>8, InMore
  <2>. QED  BY <1>1, <2>1 DEF InGrows
<1>9. ASSUME NEW j, Updating(z, msgs, B, P, Q, c, j, open) PROVE Situation(y, more, X, Y, Z, c, open)
  <2>1. UpdateAt(msgs, c, j)
    BY <1>9 DEF Updating
  <2>2. Updating(y, more, X, Y, Z, c, j, open)
    BY <1>2, <1>8, <1>9, <2>1 DEF Updating, Alike
  <2>. QED  BY <2>2 DEF Situation
<1>10. ASSUME NEW j, Reading(z, msgs, B, P, Q, c, j, open) PROVE Situation(y, more, X, Y, Z, c, open)
  <2>1. UpdateAt(msgs, c, j)
    BY <1>10 DEF Reading
  <2>2. PICK r, of : r = msgs[c].rects[j] /\ of = <<c, j>>
    OBVIOUS
  <2>3. PICK a, e, f : a = BodyLeft(r, z.dec) /\ e = << of >> /\ f = PiecesLeft(of, r, z.dec)
    OBVIOUS
  <2>4. PICK s, t, u : s = BytesIn(msgs, c, j) /\ t = PartsIn(msgs, c, j) /\ u = PiecesIn(msgs, c, j)
    OBVIOUS
  <2>5. B = Glue(a, s) /\ P = Glue(e, t) /\ Q = Glue(f, u) /\ DecOK(r, z.dec) /\ IsSeq(a)
    BY <1>10, <2>2, <2>3, <2>4 DEF Reading
  <2>6. IsSeq(s) /\ IsSeq(t) /\ IsSeq(u)
    BY <2>1, <2>4, InIsSeq
  <2>7. RectOK(r)
    <3>1. UpdateOK(msgs[c]) /\ j \in 0 .. Len(msgs[c].rects) /\ j # 0 /\ Len(msgs[c].rects) \in Nat
      BY <1>10, <2>1, InIsSeq DEF Reading, UpdateAt
    <3>2. j \in 1 .. Len(msgs[c].rects)
      BY <3>1
    <3>. QED  BY <2>2, <3>1, <3>2 DEF UpdateOK
  <2>8. IsSeq(a) /\ IsSeq(e) /\ IsSeq(f)
    BY <2>3, <2>5, <2>7, One, PiecesLeftIsSeq
  <2>9. X = Glue(a, Glue(s, b)) /\ Y = Glue(e, Glue(t, p)) /\ Z = Glue(f, Glue(u, q))
    BY <1>2, <1>3, <2>5, <2>6, <2>8, JoinAssoc
  <2>10. /\ X = Glue(BodyLeft(more[c].rects[j], y.dec), BytesIn(more, c, j))
         /\ Y = Glue(<< <<c, j>> >>, PartsIn(more, c, j))
         /\ Z = Glue(PiecesLeft(<<c, j>>, more[c].rects[j], y.dec), PiecesIn(more, c, j))
         /\ y.dec = z.dec
    BY <1>8, <2>1, <2>2, <2>3, <2>4, <2>9 DEF Alike
  <2>11. UpdateAt(more, c, j) /\ more[c] = msgs[c]
    BY <1>8, <2>1
  <2>12. Reading(y, more, X, Y, Z, c, j, open)
    BY <1>10, <2>10, <2>11 DEF Reading, Alike
  <2>. QED  BY <2>12 DEF Situation
<1>11. CASE Stuck(z, msgs, B, c, open)
  <2>1. Starts(B, "rest") /\ Len(B) > 0
    BY <1>11 DEF Stuck, Starts
  <2>2. IsSeq(X) /\ Len(X) > 0 /\ X[1] = B[1]
    <3>1. PICK i \in Nat, k \in Nat : i = Len(B) /\ k = Len(b)
      BY <1>3, SeqFacts
    <3>2. Joint(X, B, i, b, k)
      BY <1>2, <1>3, <3>1, GlueAt
    <3>. QED  BY <2>1, <3>1, <3>2 DEF Joint
  <2>3. Starts(X, "rest")
    BY <2>1, <2>2 DEF Starts
  <2>4. Stuck(y, more, X, c, open)
    BY <1>6, <1>11, <2>3 DEF Stuck, Alike
  <2>. QED  BY <1>1, <1>2, <2>4 DEF Situation
<1>12. CASE Gone(z, msgs, c, open)
  <2>1. Gone(y, more, c, open)
    BY <1>6, <1>12 DEF Gone, Alike
  <2>. QED  BY <2>1 DEF Situation
<1>. QED  BY <1>1, <1>2, <1>7, <1>9, <1>10, <1>11, <1>12 DEF Situation

\* The client has rectangles to count as long as some are to come.
LEMMA RectsCount ==
  ASSUME NEW msgs, NEW c, NEW j, UpdateAt(msgs, c, j), NEW m, m = msgs[c]
  PROVE  /\ RectsLeft(m, j) \in 0 .. AnyNumber
         /\ RectsLeft(m, j) = 0 <=> j = Len(m.rects)
         /\ j # 0 => /\ RectsLeft(m, j - 1) > 0
                     /\ RectsLeft(m, j) = IF m.rects[j].enc = "lastrect" THEN 0 ELSE RectsLeft(m, j - 1) - 1
<1>1. PICK l \in Nat, N \in Nat : l = Len(m.rects) /\ N = AnyNumber
  BY InIsSeq DEF AnyNumber
<1>2. PICK k : k = m.count
  OBVIOUS
<1>3. k \in l .. N /\ j \in 0 .. l
  BY <1>1, <1>2 DEF UpdateAt, UpdateOK
<1>4. k = l \/ (m.rects # <<>> /\ m.rects[l].enc = "lastrect")
  BY <1>1, <1>2 DEF UpdateAt, UpdateOK
<1>5. \A i \in 1 .. l : m.rects[i].enc = "lastrect" => i = l
  BY <1>1 DEF UpdateAt, UpdateOK
<1>6. RectsLeft(m, j) = IF j = l THEN 0 ELSE k - j
  BY <1>1, <1>2 DEF RectsLeft
<1>7. RectsLeft(m, j) \in 0 .. N /\ (RectsLeft(m, j) = 0 <=> j = l)
  BY <1>3, <1>6
<1>8. ASSUME j # 0
      PROVE  RectsLeft(m, j - 1) > 0
             /\ RectsLeft(m, j) = IF m.rects[j].enc = "lastrect" THEN 0 ELSE RectsLeft(m, j - 1) - 1
  <2>1. RectsLeft(m, j - 1) = k - (j - 1)
    BY <1>1, <1>2, <1>3, <1>8 DEF RectsLeft
  <2>2. RectsLeft(m, j - 1) > 0
    BY <1>3, <1>8, <2>1
  <2>3. CASE m.rects[j].enc = "lastrect"
    <3>1. j = l
      BY <1>3, <1>5, <1>8, <2>3
    <3>. QED  BY <1>6, <2>2, <2>3, <3>1
  <2>4. CASE m.rects[j].enc # "lastrect"
    <3>1. j = l => k = l
      BY <1>4, <2>4
    <3>. QED  BY <1>3, <1>6, <2>1, <2>2, <2>4, <3>1
  <2>. QED  BY <2>3, <2>4
<1>. QED  BY <1>1, <1>7, <1>8

-----------------------------------------------------------------------------
(* What happens outside of the handlers.                                    *)

\* The counters of updates are left alone.
Counted(y, z) ==
  /\ y.hollow = z.hollow /\ y.canContinue = z.canContinue /\ y.continuous = z.continuous
  /\ DOMAIN y = SessionFields

LEMMA StoryMeans ==
  ASSUME Inv
  PROVE  /\ Base /\ SessionOK(rfb) /\ DOMAIN rfb = SessionFields /\ ScreenOK(display) /\ QueuePlaced
         /\ rfb.continuous => rfb.canContinue
<1>1. PICK msgs, B, P, Q, c, open : Story(msgs, B, P, Q, c, open)
  BY DEF Inv
<1>. QED  BY <1>1 DEF Story, Base, SessionOK, Missing, Coming

LEMMA SettledStep ==
  ASSUME Inv, Settled(rfb', rfb), Counted(rfb', rfb), Base',
         UNCHANGED <<sent, meant, due, handled, owed>>,
         \A B : Coming(B) => Coming(B)', \A Q : Missing(Q) => Missing(Q)'
  PROVE  Inv'
<1>1. PICK msgs, B, P, Q, c, open :
         Story(msgs, B, P, Q, c, open) /\ Situation(rfb, msgs, B, P, Q, c, open)
  BY DEF Inv
<1>2. Situation(rfb', msgs, B, P, Q, c, open)
  BY <1>1, SettledSituation
<1>3. Balance(c, open)'
  BY <1>1, BalanceStays DEF Story, Counted
<1>4. Handles(P)'
  BY <1>1, NoneHandled DEF Story
<1>5. Sent(msgs)'
  BY <1>1 DEF Story, Sent
<1>6. Coming(B)' /\ Missing(Q)'
  BY <1>1 DEF Story
<1>7. Story(msgs, B, P, Q, c, open)'
  BY <1>3, <1>4, <1>5, <1>6 DEF Story
<1>. QED  BY <1>2, <1>7 DEF Inv

LEMMA Transmitted ==
  ASSUME Inv, NEW m, MessageOK(m), Transmit(m), Alike(rfb', rfb), Counted(rfb', rfb), rfb'.pc = rfb.pc
  PROVE  Inv'
<1>1. PICK msgs, B, P, Q, c, open :
         Story(msgs, B, P, Q, c, open) /\ Situation(rfb, msgs, B, P, Q, c, open)
  BY DEF Inv
<1>2. /\ Base /\ Sent(msgs) /\ Coming(B) /\ Handles(P) /\ Missing(Q) /\ Balance(c, open)
      /\ IsSeq(B) /\ IsSeq(P) /\ IsSeq(Q) /\ MessagesOK(msgs) /\ IsSeq(sent) /\ Len(sent) = Len(msgs)
  BY <1>1 DEF Story, Coming, Handles, Missing, Sent, Balance
<1>3. PICK l \in Nat : l = Len(msgs)
  BY <1>2, StreamsAreSeqs
<1>4. PICK n, more : n = Len(msgs) + 1 /\ more = Append(msgs, m)
  OBVIOUS
<1>5. /\ wire' = wire \o Bytes(n, m) /\ meant' = meant \o Parts(n, m) /\ due' = due \o Pieces(n, m)
      /\ sent' = Append(sent, m.type)
      /\ owed' = IF m.type = "update" /\ owed > 0 THEN owed - 1 ELSE owed
      /\ m.type = "update" => owed > 0 \/ rfb.continuous
      /\ UNCHANGED <<server, rQ, rQi, display, handled>>
  BY <1>2, <1>4 DEF Transmit
<1>6. PICK b, p, q : b = Bytes(n, m) /\ p = Parts(n, m) /\ q = Pieces(n, m)
  OBVIOUS
<1>7. IsSeq(b) /\ IsSeq(p) /\ IsSeq(q)
  BY <1>6, BytesAre, PartsAre
<1>8. PICK X, Y, Z : X = Glue(B, b) /\ Y = Glue(P, p) /\ Z = Glue(Q, q)
  OBVIOUS
<1>9. Situation(rfb', more, X, Y, Z, c, open)
  <2>1. Situation(rfb', more, Glue(B, Bytes(n, m)), Glue(P, Parts(n, m)), Glue(Q, Pieces(n, m)), c, open)
    BY <1>1, <1>2, <1>4, SituationGrows
  <2>. QED  BY <1>6, <1>8, <2>1
<1>10. Coming(X)'
  <2>1. wire' = wire \o b /\ UNCHANGED <<rQ, rQi>>
    BY <1>5, <1>6
  <2>. QED  BY <1>2, <1>7, <1>8, <2>1, BytesSent
<1>11. Handles(Y)'
  <2>1. meant' = meant \o p /\ handled' = handled
    BY <1>5, <1>6
  <2>. QED  BY <1>2, <1>7, <1>8, <2>1, PartsSent
<1>12. Missing(Z)'
  <2>1. due' = due \o q /\ display' = display
    BY <1>5, <1>6
  <2>. QED  BY <1>2, <1>7, <1>8, <2>1, PiecesSent
<1>13. Balance(c, open)'
  <2>1. rfb.continuous => rfb.canContinue
    BY <1>2 DEF Base, SessionOK
  <2>2. PICK type : type = m.type
    OBVIOUS
  <2>. QED  BY <1>2, <1>5, <2>1, <2>2, BalanceSends DEF Counted
<1>14. Sent(more)'
  <2>1. OneMore(more, msgs, n, m)
    <3>1. 0 \in 0 .. Len(msgs)
      BY <1>3
    <3>. QED  BY <1>2, <1>4, <3>1, AfterMore
  <2>2. PICK s, type : s = sent' /\ type = m.type
    OBVIOUS
  <2>3. IsSeq(s) /\ Len(s) = l + 1 /\ (\A i \in 1 .. l : s[i] = sent[i]) /\ s[l + 1] = type
    <3>1. s = Append(sent, type) /\ Len(sent) = l
      BY <1>2, <1>3, <1>5, <2>2
    <3>. QED  BY <1>2, <3>1, AppendedTo
  <2>4. MessagesOK(more) /\ Len(more) = l + 1 /\ more[l + 1] = m /\ \A i \in 1 .. l : more[i] = msgs[i]
    BY <1>3, <1>4, <2>1 DEF OneMore
  <2>5. \A i \in 1 .. l : sent[i] = msgs[i].type
    BY <1>2, <1>3 DEF Sent
  <2>6. \A i \in 1 .. l + 1 : s[i] = more[i].type
    <3>1. TAKE i \in 1 .. l + 1
    <3>2. i \in 1 .. l \/ i = l + 1
      OBVIOUS
    <3>. QED  BY <2>2, <2>3, <2>4, <2>5, <3>2
  <2>. QED  BY <2>2, <2>3, <2>4, <2>6 DEF Sent
<1>15. Base'
  <2>1. SessionOK(rfb')
    BY <1>2 DEF Base, SessionOK, Alike, Counted
  <2>. QED  BY <1>2, <1>5, <2>1 DEF Base
<1>16. Story(more, X, Y, Z, c, open)'
  BY <1>10, <1>11, <1>12, <1>13, <1>14, <1>15 DEF Story
<1>. QED  BY <1>9, <1>16 DEF Inv

LEMMA SendStep ==
  ASSUME Inv, NEW m \in Servers[server].menu, Send(m)
  PROVE  Inv'
<1>1. MessageOK(m)
  BY StoryMeans, ServersAssumption DEF Base
<1>2. Transmit(m) /\ rfb' = rfb
  BY DEF Send
<1>3. Alike(rfb', rfb) /\ Counted(rfb', rfb) /\ rfb'.pc = rfb.pc
  BY <1>2, StoryMeans DEF Alike, Counted
<1>. QED  BY <1>1, <1>2, <1>3, Transmitted

LEMMA ArriveStep ==
  ASSUME Inv, NEW k \in 1 .. Len(wire), Arrive(k)
  PROVE  Inv'
<1>1. /\ rfb.pc = "idle" /\ rfb.state = "connected" /\ rfb' = [rfb EXCEPT !.pc = "message"]
      /\ rQ' = Unread \o SubSeq(wire, 1, k) /\ rQi' = 0 /\ wire' = SubSeq(wire, k + 1, Len(wire))
      /\ UNCHANGED <<server, sent, meant, due, owed, display, handled>>
  BY DEF Arrive
<1>2. Settled(rfb', rfb) /\ Counted(rfb', rfb) /\ SessionOK(rfb') /\ rfb'.pc = "message"
  BY <1>1, StoryMeans DEF Settled, Alike, Counted, SessionFields, SessionOK
<1>3. \A B : Coming(B) => Coming(B)' /\ rQi' < Len(rQ)'
  BY <1>1, BytesArrive
<1>4. \A Q : Missing(Q) => Missing(Q)'
  BY <1>1, SameScreen
<1>5. \E B : Coming(B)
  BY DEF Inv, Story
<1>6. Base'
  BY <1>1, <1>2, <1>3, <1>5, StoryMeans DEF Base
<1>. QED  BY <1>1, <1>2, <1>3, <1>4, <1>6, SettledStep

LEMMA PictureStep ==
  ASSUME Inv, NEW i \in DOMAIN display.queue, PictureReady(i)
  PROVE  Inv'
<1>1. PICK screen : screen = Decoded(display, i)
  OBVIOUS
<1>2. PICK wakes : wakes = (Flushed(screen) /\ rfb.state = "connected" /\ Have(rQi, 1))
  OBVIOUS
<1>3. PICK waits : waits = (screen.flushing /\ ~Flushed(screen))
  OBVIOUS
<1>4. /\ rfb.pc = "idle" /\ display' = [screen EXCEPT !.flushing = waits]
      /\ rfb' = [rfb EXCEPT !.pc = IF wakes THEN "message" ELSE "idle"]
      /\ UNCHANGED <<server, wire, sent, meant, due, owed, rQ, rQi, handled>>
  BY <1>1, <1>2, <1>3, Zenon DEF PictureReady, net
<1>5. Draws(display, screen, <<>>)
  BY <1>1, StoryMeans, DecodedDraws
<1>6. ScreenOK(screen) /\ Shown(screen) = Glue(Shown(display), <<>>)
      /\ DOMAIN screen = {"size", "queue", "drawn", "visible", "flushing", "smeared"}
  BY <1>5 DEF Draws, ScreenOK, DrawnOK
<1>7. /\ DOMAIN display' = DOMAIN screen /\ display'.queue = screen.queue
      /\ display'.drawn = screen.drawn /\ display'.visible = screen.visible
      /\ display'.flushing = waits
  BY <1>4, <1>6
<1>8. ScreenOK(display') /\ Shown(display') = Glue(Shown(display), <<>>)
  BY <1>6, <1>7 DEF ScreenOK, DrawnOK, Shown
<1>9. Shown(display') = Shown(display)
  BY <1>8, StoryMeans, ShownIsSeq, JoinEmpty
<1>10. \A Q : Missing(Q) => Missing(Q)'
  BY <1>4, <1>8, <1>9 DEF Missing
<1>11. \A B : Coming(B) => Coming(B)'
  BY <1>4, BytesStay
<1>12. display'.flushing => Pending(display')
  BY <1>3, <1>7 DEF Flushed, Pending
<1>13. rfb'.pc = (IF wakes THEN "message" ELSE "idle") /\ DOMAIN rfb' = SessionFields
  BY <1>4, StoryMeans DEF SessionFields
<1>14. rfb'.pc \in {"idle", "message"} /\ (rfb'.pc = "message" => rfb.state = "connected" /\ Have(rQi, 1))
  BY <1>2, <1>13
<1>15. Alike(rfb', rfb) /\ Counted(rfb', rfb)
  BY <1>4, StoryMeans DEF Alike, Counted, SessionFields
<1>16. Settled(rfb', rfb) /\ SessionOK(rfb')
  BY <1>4, <1>14, <1>15, StoryMeans DEF Settled, Alike, Counted, SessionOK
<1>17. Have(rQi, 1) => rQi < Len(rQ)
  BY StoryMeans, SeqFacts DEF Have, QueuePlaced
<1>18. Base'
  BY <1>4, <1>12, <1>14, <1>16, <1>17, StoryMeans DEF Base
<1>. QED  BY <1>4, <1>10, <1>11, <1>15, <1>16, <1>18, SettledStep

\* A handler of messages finds too little and waits.
LEMMA MessageWaits ==
  ASSUME Inv, rfb.pc \in {"message", "rects"}, rfb.pc = "rects" => rfb.rects > 0,
         NEW i, i = rQi, Pause(i, dec)
  PROVE  Inv'
<1>1. /\ rfb' = [rfb EXCEPT !.pc = "idle", !.dec = rfb.dec]
      /\ UNCHANGED <<server, wire, sent, meant, due, rQ, rQi, owed, display, handled>>
  BY DEF Pause, outside, net, dec
<1>2. Settled(rfb', rfb) /\ Counted(rfb', rfb) /\ SessionOK(rfb') /\ rfb'.pc = "idle"
  BY <1>1, StoryMeans DEF Settled, Alike, Counted, SessionFields, SessionOK
<1>3. (\A B : Coming(B) => Coming(B)') /\ (\A Q : Missing(Q) => Missing(Q)')
  BY <1>1, BytesStay, SameScreen
<1>4. Base'
  BY <1>1, <1>2, StoryMeans DEF Base
<1>. QED  BY <1>1, <1>2, <1>3, <1>4, SettledStep

\* The session fails where it is.
LEMMA FailStep ==
  ASSUME Inv, Fail
  PROVE  Inv'
<1>1. /\ rfb' = [rfb EXCEPT !.pc = "idle", !.state = "failed"]
      /\ UNCHANGED <<server, wire, sent, meant, due, rQ, rQi, owed, display, handled>>
  BY DEF Fail, outside, net
<1>2. /\ rfb'.pc = "idle" /\ rfb'.state = "failed" /\ rfb'.rects = rfb.rects /\ rfb'.rect = rfb.rect
      /\ Counted(rfb', rfb)
  BY <1>1, StoryMeans DEF Counted, SessionFields
<1>3. SessionOK(rfb')
  BY <1>1, <1>2, StoryMeans DEF SessionOK, Counted
<1>4. PICK msgs, B, P, Q, c, open :
         Story(msgs, B, P, Q, c, open) /\ Situation(rfb, msgs, B, P, Q, c, open)
  BY DEF Inv
<1>5. Story(msgs, B, P, Q, c, open)'
  <2>1. Coming(B)' /\ Missing(Q)' /\ Handles(P)'
    BY <1>1, <1>4, BytesStay, SameScreen, NoneHandled DEF Story
  <2>2. Balance(c, open)'
    BY <1>1, <1>2, <1>4, BalanceStays DEF Story, Counted
  <2>3. Base'
    BY <1>1, <1>2, <1>3, StoryMeans DEF Base
  <2>4. Sent(msgs)'
    BY <1>1, <1>4 DEF Sent, Story
  <2>. QED  BY <2>1, <2>2, <2>3, <2>4 DEF Story
<1>6. /\ c \in 0 .. Len(msgs) /\ open \in {0, 1} /\ (rfb.rects = 0 => rfb.rect = NoRect)
  <2>1. CASE Between(rfb, msgs, B, P, Q, c, open)
    BY <2>1 DEF Between
  <2>2. ASSUME NEW j, Updating(rfb, msgs, B, P, Q, c, j, open)
        PROVE  c \in 0 .. Len(msgs) /\ open \in {0, 1} /\ (rfb.rects = 0 => rfb.rect = NoRect)
    BY <2>2, InIsSeq DEF Updating
  <2>3. ASSUME NEW j, Reading(rfb, msgs, B, P, Q, c, j, open)
        PROVE  c \in 0 .. Len(msgs) /\ open \in {0, 1} /\ (rfb.rects = 0 => rfb.rect = NoRect)
    BY <2>3, InIsSeq, RectsCount DEF Reading
  <2>4. CASE Stuck(rfb, msgs, B, c, open)
    BY <2>4 DEF Stuck
  <2>5. CASE Gone(rfb, msgs, c, open)
    BY <2>5 DEF Gone
  <2>. QED  BY <1>4, <2>1, <2>2, <2>3, <2>4, <2>5 DEF Situation
<1>7. Gone(rfb', msgs, c, open)
  BY <1>2, <1>6 DEF Gone
<1>. QED  BY <1>5, <1>7 DEF Inv, Situation

-----------------------------------------------------------------------------
(* Messages.  The client is at the head of message number n, m, the one     *)
(* after the first c.                                                       *)
Facing(msgs, B, P, Q, c, n, m) ==
  /\ Story(msgs, B, P, Q, c, 0) /\ Between(rfb, msgs, B, P, Q, c, 0)
  /\ c # Len(msgs) /\ n = c + 1 /\ m = msgs[n]
  /\ M = m /\ rQ[rQi + 1].n = n /\ rfb.pc = "message"

LEMMA HeadFirst ==
  ASSUME NEW B, Coming(B), rQi < Len(rQ)
  PROVE  IsSeq(B) /\ Len(B) > 0 /\ rQ[rQi + 1] = B[1]
<1>1. PICK l \in Nat, k \in Nat : l = Len(rQ) /\ k = Len(wire)
  BY SeqFacts DEF Coming, QueuePlaced
<1>2. IsSeq(rQ) /\ IsSeq(wire) /\ rQi \in 0 .. l /\ rQi < l /\ IsSeq(B)
  BY <1>1 DEF Coming, QueuePlaced
<1>3. CutAt(rQ, rQi, rQi, l)
  BY <1>1, <1>2, CutTwice
<1>4. PICK u : u = SubSeq(rQ, rQi + 1, l)
  OBVIOUS
<1>5. IsSeq(u) /\ Len(u) = l - rQi
  BY <1>3, <1>4 DEF CutAt
<1>6. B = Glue(u, wire)
  BY <1>1, <1>4 DEF Coming, Unread
<1>7. PICK n \in Nat : n = l - rQi /\ n > 0
  BY <1>2
<1>8. Joint(B, u, n, wire, k)
  BY <1>1, <1>2, <1>5, <1>6, <1>7, GlueAt
<1>9. Len(B) > 0
  BY <1>7, <1>8 DEF Joint
<1>10. B = Glue(B, <<>>) /\ Coming(Glue(B, <<>>))
  BY <1>2, JoinEmpty
<1>11. Have(rQi, 1)
  BY <1>1, <1>2 DEF Have
<1>. QED  BY <1>2, <1>9, <1>10, <1>11, EmptyIsSeq, NextByte

LEMMA BetweenFaces ==
  ASSUME NEW msgs, NEW B, NEW P, NEW Q, NEW c, Story(msgs, B, P, Q, c, 0),
         Between(rfb, msgs, B, P, Q, c, 0), rfb.pc = "message"
  PROVE  At(rQi, "message") /\ \E n, m : Facing(msgs, B, P, Q, c, n, m)
<1>1. c \in 0 .. Len(msgs) /\ B = BytesAfter(msgs, c)
  BY DEF Between
<1>2. rQi < Len(rQ) /\ Coming(B) /\ MessagesOK(msgs)
  BY DEF Story, Base, Sent
<1>3. IsSeq(B) /\ Len(B) > 0 /\ rQ[rQi + 1] = B[1]
  BY <1>2, HeadFirst
<1>4. c # Len(msgs)
  <2>1. SUFFICES ASSUME c = Len(msgs) PROVE FALSE
    OBVIOUS
  <2>2. PICK s : s = BytesOf(msgs)
    OBVIOUS
  <2>3. Seqs(s) /\ Len(s) = c /\ B = From(s, c)
    BY <1>1, <1>2, <2>1, <2>2, StreamsAreSeqs DEF BytesAfter
  <2>4. B = <<>>
    BY <2>3, FromNone
  <2>. QED  BY <1>3, <2>4
<1>5. PICK n, m : n = c + 1 /\ m = msgs[n]
  OBVIOUS
<1>6. PICK b, t : b = Bytes(n, m) /\ t = BytesAfter(msgs, n)
  OBVIOUS
<1>7. B = Glue(b, t) /\ MessageOK(m) /\ n \in 0 .. Len(msgs)
  BY <1>1, <1>2, <1>4, <1>5, <1>6, AfterNext
<1>8. PICK f, a : f = Field(HeadCell(n, m), HeadSize(m)) /\ a = AfterHead(n, m)
  OBVIOUS
<1>9. b = Glue(f, a) /\ IsSeq(a) /\ IsSeq(b) /\ IsSeq(t)
  BY <1>2, <1>6, <1>7, <1>8, BytesAre, AfterIsSeq
<1>10. IsSeq(f) /\ Len(f) > 0 /\ f[1] = HeadCell(n, m)
  BY <1>8, HeadsAre
<1>11. B = Glue(f, Glue(a, t)) /\ IsSeq(Glue(a, t))
  BY <1>7, <1>9, <1>10, JoinAssoc, Joined
<1>12. Have(rQi, 1)
  BY <1>2, SeqFacts DEF Have, Coming, QueuePlaced
<1>13. rQ[rQi + 1] = f[1]
  BY <1>2, <1>10, <1>11, <1>12, NextByte
<1>14. rQ[rQi + 1].n = n /\ M = m /\ At(rQi, "message")
  BY <1>10, <1>13 DEF HeadCell, M, At
<1>. QED  BY <1>4, <1>5, <1>14 DEF Facing

\* Without a rectangle to read, the client is between two messages, or stuck.
LEMMA NoUpdate ==
  ASSUME NEW msgs, NEW B, NEW P, NEW Q, NEW c, NEW open, Story(msgs, B, P, Q, c, open),
         Situation(rfb, msgs, B, P, Q, c, open), rfb.pc = "message", rfb.rects = 0
  PROVE  \/ Between(rfb, msgs, B, P, Q, c, open) /\ open = 0
         \/ Stuck(rfb, msgs, B, c, open)
<1>1. ~Gone(rfb, msgs, c, open)
  BY DEF Gone
<1>2. ASSUME NEW j PROVE ~Updating(rfb, msgs, B, P, Q, c, j, open)
  BY DEF Updating
<1>3. ASSUME NEW j PROVE ~Reading(rfb, msgs, B, P, Q, c, j, open)
  BY RectsCount DEF Reading
<1>4. Between(rfb, msgs, B, P, Q, c, open) => open = 0
  BY DEF Between
<1>. QED  BY <1>1, <1>2, <1>3, <1>4 DEF Situation

LEMMA MessageNext ==
  ASSUME Inv, rfb.pc = "message", rfb.rects = 0, At(rQi, "message")
  PROVE  \E msgs, B, P, Q, c, n, m : Facing(msgs, B, P, Q, c, n, m)
<1>1. PICK msgs, B, P, Q, c, open :
         Story(msgs, B, P, Q, c, open) /\ Situation(rfb, msgs, B, P, Q, c, open)
  BY DEF Inv
<1>2. rQi < Len(rQ) /\ Coming(B)
  BY <1>1 DEF Story, Base
<1>3. rQ[rQi + 1] = B[1]
  BY <1>2, HeadFirst
<1>4. ~Stuck(rfb, msgs, B, c, open)
  BY <1>3 DEF Stuck, Starts, At
<1>5. Between(rfb, msgs, B, P, Q, c, 0) /\ open = 0
  BY <1>1, <1>4, NoUpdate
<1>. QED  BY <1>1, <1>5, BetweenFaces

LEMMA FacingMeans ==
  ASSUME NEW msgs, NEW B, NEW P, NEW Q, NEW c, NEW n, NEW m, Facing(msgs, B, P, Q, c, n, m)
  PROVE  /\ MessagesOK(msgs) /\ MessageOK(m) /\ c \in 0 .. Len(msgs) /\ c \in Nat /\ n \in 0 .. Len(msgs)
         /\ c # Len(sent) /\ sent[c + 1] = m.type /\ Balance(c, 0)
         /\ Coming(Glue(Bytes(n, m), BytesAfter(msgs, n)))
         /\ Handles(Glue(Parts(n, m), PartsAfter(msgs, n)))
         /\ Missing(Glue(Pieces(n, m), PiecesAfter(msgs, n)))
         /\ IsSeq(BytesAfter(msgs, n)) /\ IsSeq(PartsAfter(msgs, n)) /\ IsSeq(PiecesAfter(msgs, n))
<1>1. /\ Story(msgs, B, P, Q, c, 0) /\ c # Len(msgs) /\ n = c + 1 /\ m = msgs[n]
      /\ c \in 0 .. Len(msgs) /\ B = BytesAfter(msgs, c) /\ P = PartsAfter(msgs, c) /\ Q = PiecesAfter(msgs, c)
  BY DEF Facing, Between
<1>2. /\ MessagesOK(msgs) /\ Len(sent) = Len(msgs) /\ \A i \in 1 .. Len(msgs) : sent[i] = msgs[i].type
  BY <1>1 DEF Story, Sent
<1>3. Coming(B) /\ Handles(P) /\ Missing(Q) /\ Balance(c, 0)
  BY <1>1 DEF Story
<1>4. /\ n \in 1 .. Len(msgs) /\ n \in 0 .. Len(msgs) /\ MessageOK(m)
      /\ B = Glue(Bytes(n, m), BytesAfter(msgs, n))
      /\ P = Glue(Parts(n, m), PartsAfter(msgs, n))
      /\ Q = Glue(Pieces(n, m), PiecesAfter(msgs, n))
  BY <1>1, <1>2, AfterNext
<1>5. c \in Nat
  BY <1>1, <1>2, StreamsAreSeqs
<1>6. sent[c + 1] = m.type
  BY <1>1, <1>2, <1>4
<1>7. IsSeq(BytesAfter(msgs, n)) /\ IsSeq(PartsAfter(msgs, n)) /\ IsSeq(PiecesAfter(msgs, n))
  BY <1>2, <1>4, AfterIsSeq
<1>. QED  BY <1>1, <1>2, <1>3, <1>4, <1>5, <1>6, <1>7

\* What a handler may make of the session when it is done with a message.
Onward(next) ==
  /\ DOMAIN next = SessionFields
  /\ next.rects = rfb.rects /\ next.rect = rfb.rect /\ next.dec = rfb.dec /\ next.hollow = rfb.hollow
  /\ next.state \in {rfb.state, "failed"}
  /\ ~next.canContinue => ~rfb.canContinue
  /\ next.continuous => next.canContinue

\* All but the bytes, when message n is handled.
LEMMA MessageDone ==
  ASSUME NEW msgs, NEW B, NEW P, NEW Q, NEW c, NEW n, NEW m, Facing(msgs, B, P, Q, c, n, m),
         m.type # "update", NEW i, NEW did, did \notin Over, NEW next, Onward(next),
         EndMessage(i, did, next), UNCHANGED owed, i \in 0 .. Len(rQ)
  PROVE  /\ Base' /\ Sent(msgs)' /\ Balance(n, 0)'
         /\ Handles(PartsAfter(msgs, n))' /\ Missing(PiecesAfter(msgs, n))'
         /\ rfb'.rects = 0 /\ rfb'.rect = NoRect /\ rfb'.state # "lost" /\ rfb'.pc \in {"idle", "message"}
         /\ Fresh(rfb'.dec) /\ rfb'.skipped = next.skipped
<1>1. /\ Base /\ SessionOK(rfb) /\ Sent(msgs) /\ n = c + 1 /\ rQ[rQi + 1].n = n
      /\ rfb.rects = 0 /\ rfb.rect = NoRect /\ rfb.state # "lost" /\ Fresh(rfb.dec)
  BY DEF Facing, Story, Between, Base
<1>2. PICK wakes : wakes = Have(i, 1)
  OBVIOUS
<1>3. /\ rQi' = i /\ rfb' = [next EXCEPT !.pc = IF wakes THEN "message" ELSE "idle"]
      /\ Handle(<<n, 0>>, did)
      /\ UNCHANGED <<server, wire, sent, meant, due, rQ, display, owed>>
  BY <1>1, <1>2 DEF EndMessage, outside, net
<1>4. rfb'.pc = (IF wakes THEN "message" ELSE "idle") /\ DOMAIN rfb' = SessionFields
  BY <1>3 DEF Onward, SessionFields
<1>5. /\ rfb'.rects = next.rects /\ rfb'.rect = next.rect /\ rfb'.dec = next.dec
      /\ rfb'.hollow = next.hollow /\ rfb'.state = next.state /\ rfb'.canContinue = next.canContinue
      /\ rfb'.continuous = next.continuous /\ rfb'.skipped = next.skipped
  BY <1>3 DEF Onward, SessionFields
<1>6. SessionOK(rfb')
  BY <1>1, <1>4, <1>5 DEF Onward, SessionOK
<1>7. rfb'.pc = "message" => rQi' < Len(rQ')
  <2>1. PICK l \in Nat : l = Len(rQ)
    BY SeqFacts DEF Facing, Story, Coming, QueuePlaced
  <2>2. wakes => i < l
    <3>1. i \in 0 .. l
      BY <2>1
    <3>2. Have(i, 1) => i < l
      BY <2>1, <3>1 DEF Have
    <3>. QED  BY <1>2, <3>2, Zenon
  <2>3. rfb'.pc = "message" => wakes
    BY <1>4
  <2>. QED  BY <1>3, <2>1, <2>2, <2>3
<1>8. Base'
  BY <1>1, <1>3, <1>6, <1>7 DEF Base
<1>9. Sent(msgs)'
  BY <1>1, <1>3 DEF Sent
<1>10. Balance(n, 0)'
  BY <1>1, <1>3, <1>5, FacingMeans, BalanceNext DEF Onward
<1>11. Handles(PartsAfter(msgs, n))'
  <2>1. Handles(Glue(<< <<n, 0>> >>, PartsAfter(msgs, n))) /\ IsSeq(PartsAfter(msgs, n))
    BY FacingMeans, PartsAre
  <2>2. PICK t, of : t = PartsAfter(msgs, n) /\ of = <<n, 0>>
    OBVIOUS
  <2>. QED  BY <1>3, <2>1, <2>2, OneHandled
<1>12. Missing(PiecesAfter(msgs, n))'
  <2>1. Missing(Glue(<<>>, PiecesAfter(msgs, n))) /\ IsSeq(PiecesAfter(msgs, n))
    BY FacingMeans, PartsAre
  <2>2. PICK t : t = PiecesAfter(msgs, n)
    OBVIOUS
  <2>. QED  BY <1>3, <2>1, <2>2, JoinEmpty, SameScreen
<1>. QED  BY <1>1, <1>4, <1>5, <1>8, <1>9, <1>10, <1>11, <1>12 DEF Onward

\* How long messages are, and which bytes are left when k of them are read.
LEMMA Lengths ==
  ASSUME NEW n, NEW m, MessageOK(m)
  PROVE  /\ m.type = "cut" => Len(Bytes(n, m)) = 8 + m.len
         /\ m.type = "fence" => Len(Bytes(n, m)) = 9 + m.len
         /\ m.type = "xvp" => Len(Bytes(n, m)) = 4
         /\ m.type \notin {"update", "cut", "fence", "xvp"} => Len(Bytes(n, m)) = 1
<1>1. PICK f, a, h : f = Field(HeadCell(n, m), HeadSize(m)) /\ a = AfterHead(n, m) /\ h = HeadSize(m)
  OBVIOUS
<1>2. h \in Nat /\ IsSeq(f) /\ Len(f) = h /\ Bytes(n, m) = Glue(f, a) /\ IsSeq(a)
  BY <1>1, HeadsAre, BytesAre
<1>3. ASSUME NEW l \in Nat, Len(a) = l PROVE Len(Bytes(n, m)) = h + l
  BY <1>2, <1>3, GlueLength
<1>4. ASSUME m.type = "cut" PROVE Len(Bytes(n, m)) = 8 + m.len
  <2>1. h = 8 /\ a = Plain("text", m.len)
    BY <1>1, <1>4 DEF HeadSize, AfterHead
  <2>2. PICK l \in Nat : l = m.len
    BY <1>4 DEF MessageOK, CutOK
  <2>3. Len(a) = l
    BY <2>1, <2>2, PlainSize
  <2>. QED  BY <1>3, <2>1, <2>2, <2>3
<1>5. ASSUME m.type = "fence" PROVE Len(Bytes(n, m)) = 9 + m.len
  <2>1. h = 9 /\ a = Plain("payload", m.len)
    BY <1>1, <1>5 DEF HeadSize, AfterHead
  <2>2. PICK l \in Nat : l = m.len
    BY <1>5 DEF MessageOK
  <2>3. Len(a) = l
    BY <2>1, <2>2, PlainSize
  <2>. QED  BY <1>3, <2>1, <2>2, <2>3
<1>6. ASSUME m.type \notin {"update", "cut", "fence"} PROVE Len(Bytes(n, m)) = h
  <2>1. a = <<>>
    BY <1>1, <1>6 DEF AfterHead
  <2>2. Len(a) = 0
    BY <2>1
  <2>. QED  BY <1>2, <1>3, <2>2
<1>7. (m.type = "xvp" => h = 4) /\ (m.type \notin {"update", "cut", "fence", "xvp"} => h = 1)
  BY <1>1 DEF HeadSize
<1>. QED  BY <1>4, <1>5, <1>6, <1>7

\* The handler has read the whole message.
LEMMA MessageWhole ==
  ASSUME NEW msgs, NEW B, NEW P, NEW Q, NEW c, NEW n, NEW m, Facing(msgs, B, P, Q, c, n, m),
         m.type # "update", NEW k \in Nat, Len(Bytes(n, m)) = k, Have(rQi, k), NEW i, i = rQi + k,
         NEW did, did \notin Over, NEW next, Onward(next), EndMessage(i, did, next), UNCHANGED owed
  PROVE  Inv'
<1>1. PICK b, t : b = Bytes(n, m) /\ t = BytesAfter(msgs, n)
  OBVIOUS
<1>2. MessagesOK(msgs) /\ MessageOK(m) /\ n \in 0 .. Len(msgs) /\ Coming(Glue(b, t)) /\ IsSeq(t)
  BY <1>1, FacingMeans
<1>3. IsSeq(b) /\ Len(b) = k
  BY <1>1, <1>2, BytesAre
<1>4. PICK l \in Nat : l = Len(rQ) /\ rQi \in 0 .. l
  BY <1>2, SeqFacts DEF Coming, QueuePlaced
<1>5. i \in 0 .. Len(rQ)
  BY <1>4 DEF Have
<1>6. rQi' = rQi + k /\ UNCHANGED <<rQ, wire>>
  BY DEF EndMessage, outside, net
<1>7. Coming(t)'
  BY <1>2, <1>3, <1>6, BytesRead
<1>8. /\ Base' /\ Sent(msgs)' /\ Balance(n, 0)'
      /\ Handles(PartsAfter(msgs, n))' /\ Missing(PiecesAfter(msgs, n))'
      /\ rfb'.rects = 0 /\ rfb'.rect = NoRect /\ rfb'.state # "lost" /\ rfb'.pc \in {"idle", "message"}
      /\ Fresh(rfb'.dec)
  BY <1>5, MessageDone
<1>9. PICK p, q : p = PartsAfter(msgs, n) /\ q = PiecesAfter(msgs, n)
  OBVIOUS
<1>10. Story(msgs, t, p, q, n, 0)'
  BY <1>7, <1>8, <1>9 DEF Story
<1>11. Between(rfb', msgs, t, p, q, n, 0)
  BY <1>1, <1>2, <1>8, <1>9 DEF Between
<1>. QED  BY <1>10, <1>11 DEF Inv, Situation

\* The handler has left some of its bytes in the queue.
LEMMA MessagePart ==
  ASSUME NEW msgs, NEW B, NEW P, NEW Q, NEW c, NEW n, NEW m, Facing(msgs, B, P, Q, c, n, m),
         m.type # "update", NEW l \in Nat, Len(Bytes(n, m)) = l, NEW k \in Nat, k < l, Have(rQi, k),
         Bytes(n, m)[k + 1].kind = "rest", NEW i, i = rQi + k,
         NEW did, did \notin Over, NEW next, Onward(next), next.skipped,
         EndMessage(i, did, next), UNCHANGED owed
  PROVE  Inv'
<1>1. PICK b, t : b = Bytes(n, m) /\ t = BytesAfter(msgs, n)
  OBVIOUS
<1>2. MessagesOK(msgs) /\ MessageOK(m) /\ n \in 0 .. Len(msgs) /\ Coming(Glue(b, t)) /\ IsSeq(t)
  BY <1>1, FacingMeans
<1>3. IsSeq(b) /\ Len(b) = l /\ b[k + 1].kind = "rest"
  BY <1>1, <1>2, BytesAre
<1>4. PICK f, u : f = SubSeq(b, 0 + 1, k) /\ u = SubSeq(b, k + 1, l)
  OBVIOUS
<1>5. b = Glue(f, u) /\ IsSeq(f) /\ Len(f) = k /\ IsSeq(u) /\ Len(u) = l - k
  <2>1. CutAt(b, 0, k, l)
    <3>1. 0 \in 0 .. l /\ k \in 0 .. l
      OBVIOUS
    <3>. QED  BY <1>3, <3>1, CutTwice
  <2>2. SubSeq(b, 0 + 1, l) = Glue(f, u) /\ IsSeq(f) /\ Len(f) = k - 0 /\ IsSeq(u) /\ Len(u) = l - k
    BY <1>4, <2>1 DEF CutAt
  <2>3. SubSeq(b, 0 + 1, l) = b
    <3>1. PICK S : b \in Seq(S)
      BY <1>3 DEF IsSeq
    <3>. QED  BY <1>3, <3>1
  <2>. QED  BY <2>2, <2>3
<1>6. PICK z \in Nat : z = l - k /\ z > 0
  OBVIOUS
<1>7. u[1] = b[k + 1]
  <2>1. Joint(b, f, k, u, z)
    BY <1>5, <1>6, GlueAt
  <2>2. \A x \in 1 .. z : b[k + x] = u[x]
    BY <2>1 DEF Joint
  <2>3. 1 \in 1 .. z
    BY <1>6
  <2>. QED  BY <2>2, <2>3
<1>8. PICK v : v = Glue(u, t)
  OBVIOUS
<1>9. IsSeq(v) /\ Len(v) > 0 /\ v[1] = u[1]
  <2>1. PICK y \in Nat : y = Len(t)
    BY <1>2, SeqFacts
  <2>2. Joint(v, u, z, t, y)
    BY <1>2, <1>5, <1>6, <1>8, <2>1, GlueAt
  <2>3. 1 \in 1 .. z
    BY <1>6
  <2>. QED  BY <1>6, <2>1, <2>2, <2>3 DEF Joint
<1>10. Starts(v, "rest")
  BY <1>3, <1>7, <1>9 DEF Starts
<1>11. Coming(Glue(f, v))
  BY <1>2, <1>5, <1>8, JoinAssoc
<1>12. PICK s \in Nat : s = Len(rQ) /\ rQi \in 0 .. s
  BY <1>2, SeqFacts DEF Coming, QueuePlaced
<1>13. i \in 0 .. Len(rQ)
  BY <1>12 DEF Have
<1>14. rQi' = rQi + k /\ UNCHANGED <<rQ, wire>>
  BY DEF EndMessage, outside, net
<1>15. Coming(v)'
  BY <1>5, <1>9, <1>11, <1>14, BytesRead
<1>16. /\ Base' /\ Sent(msgs)' /\ Balance(n, 0)'
       /\ Handles(PartsAfter(msgs, n))' /\ Missing(PiecesAfter(msgs, n))'
       /\ rfb'.rects = 0 /\ rfb'.rect = NoRect /\ rfb'.pc \in {"idle", "message"} /\ rfb'.skipped
  BY <1>13, MessageDone
<1>17. PICK p, q : p = PartsAfter(msgs, n) /\ q = PiecesAfter(msgs, n)
  OBVIOUS
<1>18. Story(msgs, v, p, q, n, 0)'
  BY <1>15, <1>16, <1>17 DEF Story
<1>19. Stuck(rfb', msgs, v, n, 0)
  BY <1>2, <1>10, <1>16 DEF Stuck
<1>. QED  BY <1>18, <1>19 DEF Inv, Situation

\* Past its first field a message has only the rest of another.
LEMMA RestOf ==
  ASSUME NEW n, NEW m, MessageOK(m), m.type \in {"cut", "fence"},
         NEW h \in Nat, h = HeadSize(m), NEW l \in Nat, l = m.len, NEW k \in 1 .. l, k < l
  PROVE  Bytes(n, m)[h + k + 1].kind = "rest"
<1>1. PICK f, a, kind : /\ f = Field(HeadCell(n, m), HeadSize(m)) /\ a = Plain(kind, l)
                        /\ a = AfterHead(n, m)
  BY DEF AfterHead
<1>2. IsSeq(f) /\ Len(f) = h /\ Bytes(n, m) = Glue(f, a)
  BY <1>1, HeadsAre, BytesAre
<1>3. IsSeq(a) /\ Len(a) = l /\ \A x \in 2 .. l : a[x].kind = "rest"
  <2>1. IsSeq(Plain(kind, l)) /\ Len(Plain(kind, l)) = l
    BY PlainSize
  <2>2. \A x \in 2 .. l : Plain(kind, l)[x].kind = "rest"
    BY PlainFacts
  <2>. QED  BY <1>1, <2>1, <2>2
<1>4. PICK g : g = Bytes(n, m)
  OBVIOUS
<1>5. Joint(g, f, h, a, l)
  BY <1>2, <1>3, <1>4, GlueAt
<1>6. PICK x \in Nat : x = k + 1
  OBVIOUS
<1>7. g[h + x] = a[x]
  <2>1. x \in 1 .. l
    BY <1>6
  <2>. QED  BY <1>5, <2>1 DEF Joint
<1>8. a[x].kind = "rest"
  <2>1. x \in 2 .. l
    BY <1>6
  <2>. QED  BY <1>3, <2>1
<1>9. h + k + 1 = h + x
  BY <1>6
<1>. QED  BY <1>4, <1>7, <1>8, <1>9

LEMMA OnwardIs ==
  ASSUME SessionOK(rfb), NEW x
  PROVE  /\ Onward(rfb) /\ Onward([rfb EXCEPT !.actions = x]) /\ Onward([rfb EXCEPT !.skipped = x])
         /\ [rfb EXCEPT !.skipped = x].skipped = x
         /\ x \in {rfb.state, "failed"} => Onward([rfb EXCEPT !.state = x])
         /\ x \in BOOLEAN => Onward([rfb EXCEPT !.canContinue = TRUE, !.continuous = x])
BY DEF Onward, SessionOK, SessionFields

LEMMA Faces ==
  ASSUME Inv, NEW type, AtMessage(type)
  PROVE  /\ \E msgs, B, P, Q, c, n, m : Facing(msgs, B, P, Q, c, n, m) /\ m.type = type /\ M = m
         /\ rfb.pc = "message" /\ SessionOK(rfb) /\ rQi \in Nat /\ Len(rQ) \in Nat /\ Have(rQi, 1)
<1>1. rfb.pc = "message" /\ rfb.rects = 0 /\ At(rQi, "message") /\ M.type = type
  BY DEF AtMessage, M
<1>2. PICK msgs, B, P, Q, c, n, m : Facing(msgs, B, P, Q, c, n, m)
  BY <1>1, MessageNext
<1>3. M = m
  BY <1>2 DEF Facing
<1>4. rQi \in Nat /\ Len(rQ) \in Nat /\ rQi < Len(rQ)
  BY <1>1, StoryMeans, SeqFacts DEF QueuePlaced, Base
<1>. QED  BY <1>1, <1>2, <1>3, <1>4, StoryMeans DEF Have

\* The short messages.
LEMMA ShortStep ==
  ASSUME Inv, Bell \/ Unknown \/ EndOfContinuousUpdates \/ Xvp
  PROVE  Inv'
<1>1. ASSUME NEW type, AtMessage(type), type \notin {"update", "cut", "fence", "xvp"},
             NEW did, did \notin Over, NEW next, Onward(next), EndMessage(rQi + 1, did, next),
             UNCHANGED owed
      PROVE  Inv'
  <2>1. PICK msgs, B, P, Q, c, n, m : Facing(msgs, B, P, Q, c, n, m) /\ m.type = type
    BY <1>1, Faces
  <2>2. Len(Bytes(n, m)) = 1 /\ Have(rQi, 1) /\ m.type # "update"
    BY <1>1, <2>1, Faces, FacingMeans, Lengths
  <2>3a. PICK k \in Nat : k = 1
    OBVIOUS
  <2>3. PICK i : k = 1 /\ i = rQi + k
    BY <2>3a
  <2>. QED  BY <1>1, <2>1, <2>2, <2>3, MessageWhole
<1>2. CASE Bell
  <2>1. AtMessage("bell") /\ EndMessage(rQi + 1, "bell", rfb) /\ UNCHANGED owed
    BY <1>2 DEF Bell
  <2>2. Onward(rfb) /\ "bell" \notin Over
    BY StoryMeans, OnwardIs DEF Over
  <2>. QED  BY <1>1, <2>1, <2>2
<1>3. CASE Unknown
  <2>1. PICK next : next = [rfb EXCEPT !.state = "failed"]
    OBVIOUS
  <2>2. AtMessage("unknown") /\ EndMessage(rQi + 1, "quiet", next) /\ UNCHANGED owed
    BY <1>3, <2>1 DEF Unknown
  <2>3. Onward(next) /\ "quiet" \notin Over
    BY <2>1, StoryMeans, OnwardIs DEF Over
  <2>. QED  BY <1>1, <2>2, <2>3
<1>4. CASE EndOfContinuousUpdates
  <2>1. PICK on \in BOOLEAN : on = ~rfb.canContinue
    OBVIOUS
  <2>2. PICK next : next = [rfb EXCEPT !.canContinue = TRUE, !.continuous = on]
    OBVIOUS
  <2>3. AtMessage("endofcontinuous") /\ EndMessage(rQi + 1, "updates", next) /\ UNCHANGED owed
    BY <1>4, <2>1, <2>2, Zenon DEF EndOfContinuousUpdates
  <2>4. Onward(next) /\ "updates" \notin Over
    BY <2>2, StoryMeans, OnwardIs DEF Over
  <2>. QED  BY <1>1, <2>3, <2>4
<1>5. CASE Xvp
  <2>1. AtMessage("xvp")
    BY <1>5 DEF Xvp
  <2>2. CASE ~Have(rQi + 1, 3)
    <3>1. Pause(rQi + 1 - 1, dec)
      BY <1>5, <2>2 DEF Xvp
    <3>2. PICK i : i = rQi + 1 - 1
      OBVIOUS
    <3>3. i = rQi /\ rfb.pc = "message"
      BY <2>1, <3>2, Faces
    <3>. QED  BY <3>1, <3>2, <3>3, MessageWaits
  <2>3. CASE Have(rQi + 1, 3)
    <3>1. PICK did, to : /\ did = (IF M.op = "init" THEN "power" ELSE "quiet")
                         /\ to = (IF M.op \in {"fail", "init"} THEN rfb.state ELSE "failed")
      OBVIOUS
    <3>2. PICK next : next = [rfb EXCEPT !.state = to]
      OBVIOUS
    <3>3. EndMessage(rQi + 4, did, next) /\ UNCHANGED owed
      BY <1>5, <2>3, <3>1, <3>2 DEF Xvp
    <3>4. Onward(next) /\ did \notin Over
      <4>1. to \in {rfb.state, "failed"} /\ did \in {"power", "quiet"}
        BY <3>1
      <4>. QED  BY <3>2, <4>1, StoryMeans, OnwardIs DEF Over
    <3>5. PICK msgs, B, P, Q, c, n, m : Facing(msgs, B, P, Q, c, n, m) /\ m.type = "xvp"
      BY <2>1, Faces
    <3>6. PICK k \in Nat : k = 4
      OBVIOUS
    <3>7. Len(Bytes(n, m)) = k /\ m.type # "update"
      BY <3>5, <3>6, FacingMeans, Lengths
    <3>8. Have(rQi, k)
      BY <2>1, <2>3, <3>6, Faces DEF Have
    <3>9. PICK i : i = rQi + k
      OBVIOUS
    <3>10. EndMessage(i, did, next)
      BY <3>3, <3>6, <3>9
    <3>. QED  BY <3>3, <3>4, <3>5, <3>7, <3>8, <3>9, <3>10, MessageWhole
  <2>. QED  BY <2>2, <2>3
<1>. QED  BY <1>2, <1>3, <1>4, <1>5

\* The clipboard.
LEMMA CutTextStep ==
  ASSUME Inv, CutTextPlain \/ CutTextCaps \/ CutTextAsks \/ CutTextProvide
  PROVE  Inv'
<1>1. /\ AtMessage("cut") /\ M.action \in {"plain", "caps", "request", "peek", "notify", "provide"}
      /\ Have(rQi + 8, M.len) /\ UNCHANGED owed
  BY DEF CutText, CutTextPlain, CutTextCaps, CutTextAsks, CutTextProvide
<1>2. PICK msgs, B, P, Q, c, n, m : Facing(msgs, B, P, Q, c, n, m) /\ m.type = "cut" /\ M = m
  BY <1>1, Faces
<1>3. /\ rQi \in Nat /\ Len(rQ) \in Nat /\ SessionOK(rfb) /\ MessageOK(m) /\ CutOK(m)
      /\ m.type # "update"
  BY <1>1, <1>2, Faces, FacingMeans DEF MessageOK
<1>4. PICK l \in Nat : l = m.len
  BY <1>3 DEF CutOK
<1>5. PICK k \in Nat : k = 8 + l
  OBVIOUS
<1>6. Len(Bytes(n, m)) = k
  BY <1>2, <1>3, <1>4, <1>5, Lengths
<1>7. Have(rQi, k)
  BY <1>1, <1>2, <1>3, <1>4, <1>5 DEF Have
<1>8. ASSUME NEW i, i = rQi + k, NEW did, did \notin Over, NEW next, Onward(next),
             EndMessage(i, did, next)
      PROVE  Inv'
  BY <1>1, <1>2, <1>3, <1>6, <1>7, <1>8, MessageWhole
<1>9. CASE CutTextPlain
  <2>1. PICK i, did : i = rQi + 8 + M.len /\ did = (IF ViewOnly THEN "quiet" ELSE "clipboard")
    OBVIOUS
  <2>2. EndMessage(i, did, rfb)
    BY <1>9, <2>1 DEF CutTextPlain
  <2>3. i = rQi + k
    BY <1>2, <1>3, <1>4, <1>5, <2>1
  <2>4. did \notin Over /\ Onward(rfb)
    BY <1>3, <2>1, OnwardIs DEF Over
  <2>. QED  BY <1>8, <2>2, <2>3, <2>4
<1>10. CASE CutTextCaps
  <2>1. PICK i, next : i = rQi + 12 + 4 * M.formats /\ next = [rfb EXCEPT !.actions = M.offers]
    OBVIOUS
  <2>2. EndMessage(i, "caps", next) /\ m.action = "caps"
    BY <1>2, <1>10, <2>1 DEF CutTextCaps, CutText
  <2>3. i = rQi + k
    <3>1. PICK x \in Nat : x = m.formats /\ l = 4 + 4 * x
      BY <1>3, <1>4, <2>2 DEF CutOK
    <3>2. i = rQi + 12 + 4 * x
      BY <1>2, <2>1, <3>1
    <3>3. PICK y \in Nat : y = 4 * x
      OBVIOUS
    <3>4. k = 12 + y
      BY <1>5, <3>1, <3>3
    <3>5. i = rQi + 12 + y
      BY <3>2, <3>3
    <3>. QED  BY <1>3, <3>4, <3>5
  <2>4. "caps" \notin Over /\ Onward(next)
    BY <1>3, <2>1, OnwardIs DEF Over
  <2>. QED  BY <1>8, <2>2, <2>3, <2>4
<1>11. CASE CutTextAsks
  <2>1. PICK answer : answer = CASE ViewOnly -> "quiet"
                                 [] M.action = "peek" /\ "notify" \in rfb.actions -> "notify"
                                 [] M.action = "notify" /\ "request" \in rfb.actions /\ M.text -> "request"
                                 [] OTHER -> "quiet"
    OBVIOUS
  <2>2. PICK i : i = rQi + 12
    OBVIOUS
  <2>3. EndMessage(i, answer, rfb) /\ m.action \in {"request", "peek", "notify"}
    BY <1>2, <1>11, <2>1, <2>2 DEF CutTextAsks, CutText
  <2>4. i = rQi + k
    <3>1. l = 4
      BY <1>3, <1>4, <2>3 DEF CutOK
    <3>. QED  BY <1>3, <1>5, <2>2, <3>1
  <2>5. answer \notin Over /\ Onward(rfb)
    <3>1. answer \in {"quiet", "notify", "request"}
      BY <2>1
    <3>. QED  BY <1>3, <3>1, OnwardIs DEF Over
  <2>. QED  BY <1>8, <2>3, <2>4, <2>5
<1>12. CASE CutTextProvide
  <2>1. m.action = "provide" /\ l >= 4
    <3>1. m.action = "provide"
      BY <1>2, <1>12 DEF CutTextProvide, CutText
    <3>. QED  BY <1>3, <1>4, <3>1 DEF CutOK
  <2>2. CASE ~(ViewOnly \/ ~M.text)
    <3>1. PICK i : i = rQi + 12 + (M.len - 4)
      OBVIOUS
    <3>2. EndMessage(i, "clipboard", rfb)
      BY <1>12, <2>2, <3>1 DEF CutTextProvide
    <3>3. i = rQi + k
      <4>1. i = rQi + 12 + (l - 4)
        BY <1>2, <1>4, <3>1
      <4>. QED  BY <1>3, <1>5, <2>1, <4>1
    <3>4. "clipboard" \notin Over /\ Onward(rfb)
      BY <1>3, OnwardIs DEF Over
    <3>. QED  BY <1>8, <3>2, <3>3, <3>4
  <2>3. CASE ViewOnly \/ ~M.text
    <3>1. PICK i, left, next : i = rQi + 12 /\ left = (l > 4) /\ next = [rfb EXCEPT !.skipped = left]
      OBVIOUS
    <3>2. EndMessage(i, "quiet", next)
      BY <1>2, <1>4, <1>12, <2>3, <3>1, Zenon DEF CutTextProvide
    <3>3. "quiet" \notin Over /\ Onward(next) /\ next.skipped = left
      BY <1>3, <3>1, OnwardIs DEF Over
    <3>4. CASE l = 4
      <4>1. i = rQi + k
        BY <1>3, <1>5, <3>1, <3>4
      <4>. QED  BY <1>8, <3>2, <3>3, <4>1
    <3>5. CASE l > 4
      <4>1. PICK h \in Nat, a \in Nat, w \in Nat : h = 8 /\ a = 4 /\ w = 12
        OBVIOUS
      <4>2. h = HeadSize(m) /\ a \in 1 .. l /\ a < l
        BY <1>2, <3>5, <4>1 DEF HeadSize
      <4>3. Bytes(n, m)[h + a + 1].kind = "rest"
        <5>1. m.type \in {"cut", "fence"} /\ MessageOK(m) /\ h = HeadSize(m) /\ l = m.len
          BY <1>2, <1>3, <1>4, <4>2
        <5>. QED  BY <4>2, <5>1, RestOf
      <4>4. h + a + 1 = w + 1
        BY <4>1
      <4>5. Bytes(n, m)[w + 1].kind = "rest"
        BY <4>3, <4>4
      <4>6. w < k /\ Have(rQi, w) /\ i = rQi + w
        BY <1>3, <1>5, <1>7, <3>1, <3>5, <4>1 DEF Have
      <4>7. next.skipped
        BY <3>1, <3>3, <3>5
      <4>. QED  BY <1>1, <1>2, <1>3, <1>6, <3>2, <3>3, <4>5, <4>6, <4>7, MessagePart
    <3>. QED  BY <2>1, <3>4, <3>5
  <2>. QED  BY <2>2, <2>3
<1>. QED  BY <1>9, <1>10, <1>11, <1>12

\* A field is taken for a message: only what was left behind can be there.
LEMMA MisalignedStep ==
  ASSUME Inv, Misaligned
  PROVE  Inv'
<1>1. rfb.pc = "message" /\ rfb.rects = 0 /\ ~At(rQi, "message") /\ Derail
  BY DEF Misaligned
<1>2. PICK msgs, B, P, Q, c, open :
         Story(msgs, B, P, Q, c, open) /\ Situation(rfb, msgs, B, P, Q, c, open)
  BY DEF Inv
<1>3. Stuck(rfb, msgs, B, c, open)
  BY <1>1, <1>2, NoUpdate, BetweenFaces
<1>4. PICK to : to = IF rfb.state = "connected" THEN "lost" ELSE rfb.state
  OBVIOUS
<1>5. /\ rfb' = [rfb EXCEPT !.pc = "idle", !.state = to]
      /\ UNCHANGED <<server, wire, sent, meant, due, rQ, rQi, display, handled, owed>>
  BY <1>1, <1>4 DEF Derail, outside, net
<1>6. /\ rfb'.pc = "idle" /\ rfb'.state = to /\ rfb'.rects = rfb.rects /\ rfb'.rect = rfb.rect
      /\ rfb'.skipped = rfb.skipped /\ Counted(rfb', rfb)
  BY <1>5, StoryMeans DEF Counted, SessionFields
<1>7. rfb.skipped
  BY <1>3 DEF Stuck
<1>8. SessionOK(rfb')
  <2>1. to \in {"connected", "failed", "lost"}
    BY <1>4, StoryMeans DEF SessionOK
  <2>. QED  BY <1>5, <1>6, <1>7, <2>1, StoryMeans DEF SessionOK, Counted
<1>9. Story(msgs, B, P, Q, c, open)'
  <2>1. Coming(B)' /\ Missing(Q)' /\ Handles(P)'
    BY <1>2, <1>5, BytesStay, SameScreen, NoneHandled DEF Story
  <2>2. Balance(c, open)'
    BY <1>2, <1>5, <1>6, BalanceStays DEF Story, Counted
  <2>3. Base'
    BY <1>5, <1>6, <1>8, StoryMeans DEF Base
  <2>4. Sent(msgs)'
    BY <1>2, <1>5 DEF Sent, Story
  <2>. QED  BY <2>1, <2>2, <2>3, <2>4 DEF Story
<1>10. Stuck(rfb', msgs, B, c, open)
  BY <1>3, <1>6 DEF Stuck
<1>. QED  BY <1>9, <1>10 DEF Inv, Situation

\* Fences.
LEMMA FenceStep ==
  ASSUME Inv, Fence
  PROVE  Inv'
<1>1. AtMessage("fence")
  BY DEF Fence
<1>2. PICK msgs, B, P, Q, c, n, m : Facing(msgs, B, P, Q, c, n, m) /\ m.type = "fence" /\ M = m
  BY <1>1, Faces
<1>3. /\ rQi \in Nat /\ Len(rQ) \in Nat /\ SessionOK(rfb) /\ MessageOK(m) /\ rfb.pc = "message"
      /\ m.type # "update"
  BY <1>1, <1>2, Faces, FacingMeans
<1>4. PICK l \in Nat : l = m.len
  BY <1>2, <1>3 DEF MessageOK
<1>5. PICK k \in Nat : k = 9 + l
  OBVIOUS
<1>6. Len(Bytes(n, m)) = k
  BY <1>2, <1>3, <1>4, <1>5, Lengths
<1>7. ASSUME NEW i, i = rQi, Pause(i, dec) PROVE Inv'
  BY <1>3, <1>7, MessageWaits
<1>8. CASE ~Have(rQi + 1, 8)
  <2>1. PICK i : i = rQi + 1 - 1
    OBVIOUS
  <2>2. Pause(i, dec) /\ i = rQi
    BY <1>3, <1>8, <2>1 DEF Fence
  <2>. QED  BY <1>7, <2>2
<1>9. CASE Have(rQi + 1, 8) /\ ~Have(rQi + 9, M.len)
  <2>1. PICK i : i = rQi + 9 - 9
    OBVIOUS
  <2>2. Pause(i, dec) /\ i = rQi
    BY <1>3, <1>9, <2>1 DEF Fence
  <2>. QED  BY <1>7, <2>2
<1>10. CASE Have(rQi + 1, 8) /\ Have(rQi + 9, M.len) /\ ~M.request
  <2>1. Fail
    BY <1>10 DEF Fence
  <2>. QED  BY <2>1, FailStep
<1>11. CASE Have(rQi + 1, 8) /\ Have(rQi + 9, M.len) /\ M.request
  <2>1. Have(rQi, k)
    <3>1. Have(rQi + 9, l)
      BY <1>2, <1>4, <1>11
    <3>. QED  BY <1>3, <1>5, <3>1 DEF Have
  <2>2. PICK left : left = (l > 64)
    OBVIOUS
  <2>3. PICK next : next = [rfb EXCEPT !.skipped = left]
    OBVIOUS
  <2>4. Onward(next) /\ next.skipped = left /\ "fence" \notin Over
    BY <1>3, <2>3, OnwardIs DEF Over
  <2>5. PICK x, i : x = (IF l > 64 THEN 64 ELSE l) /\ i = rQi + 9 + x
    OBVIOUS
  <2>6. M.len = l
    BY <1>2, <1>4
  <2>7. EndMessage(rQi + 9 + (IF M.len > 64 THEN 64 ELSE M.len), "fence", [rfb EXCEPT !.skipped = M.len > 64])
        /\ UNCHANGED owed
    BY <1>11, Zenon DEF Fence
  <2>8. EndMessage(i, "fence", next)
    BY <2>2, <2>3, <2>5, <2>6, <2>7, Zenon
  <2>9. CASE ~(l > 64)
    <3>1. i = rQi + k
      BY <1>3, <1>5, <2>5, <2>9
    <3>. QED  BY <1>2, <1>3, <1>6, <2>1, <2>4, <2>7, <2>8, <3>1, MessageWhole
  <2>10. CASE l > 64
    <3>1. PICK h \in Nat, a \in Nat, w \in Nat : h = 9 /\ a = 64 /\ w = 73
      OBVIOUS
    <3>2. h = HeadSize(m) /\ a \in 1 .. l /\ a < l
      BY <1>2, <2>10, <3>1 DEF HeadSize
    <3>3. Bytes(n, m)[h + a + 1].kind = "rest"
      <4>1. m.type \in {"cut", "fence"} /\ MessageOK(m) /\ h = HeadSize(m) /\ l = m.len
        BY <1>2, <1>3, <1>4, <3>2
      <4>. QED  BY <3>2, <4>1, RestOf
    <3>4. h + a + 1 = w + 1
      BY <3>1
    <3>5. Bytes(n, m)[w + 1].kind = "rest"
      BY <3>3, <3>4
    <3>6. w < k /\ Have(rQi, w) /\ i = rQi + w
      BY <1>3, <1>5, <2>1, <2>5, <2>10, <3>1 DEF Have
    <3>7. next.skipped
      BY <2>2, <2>4, <2>10
    <3>. QED  BY <1>2, <1>3, <1>6, <2>4, <2>7, <2>8, <3>5, <3>6, <3>7, MessagePart
  <2>. QED  BY <2>9, <2>10
<1>. QED  BY <1>8, <1>9, <1>10, <1>11

LEMMA MessageStep ==
  ASSUME Inv, Message
  PROVE  Inv'
<1>1. CASE HoldMessages
  <2>1. rfb.pc = "message" /\ Pause(rQi, dec)
    BY <1>1 DEF HoldMessages
  <2>. QED  BY <2>1, MessageWaits
<1>2. CASE CutTextWaits
  <2>1. AtMessage("cut")
    BY <1>2 DEF CutTextWaits
  <2>2. PICK i, j : i = rQi + 1 - 1 /\ j = rQi + 8 - 8
    OBVIOUS
  <2>3. Pause(i, dec) \/ Pause(j, dec)
    BY <1>2, <2>2 DEF CutTextWaits
  <2>4. i = rQi /\ j = rQi /\ rfb.pc = "message"
    BY <2>1, <2>2, Faces
  <2>. QED  BY <2>3, <2>4, MessageWaits
<1>3. CASE CutTextUnknown \/ ColourMap
  <2>1. Fail
    BY <1>3 DEF CutTextUnknown, ColourMap
  <2>. QED  BY <2>1, FailStep
<1>. QED  BY <1>1, <1>2, <1>3, MisalignedStep, ShortStep, CutTextStep, FenceStep DEF Message

-----------------------------------------------------------------------------
(* Updates and their rectangles.                                            *)
LEMMA UpdateHeaderStep ==
  ASSUME Inv, UpdateHeader
  PROVE  Inv'
<1>1. AtMessage("update")
  BY DEF UpdateHeader
<1>2. PICK msgs, B, P, Q, c, n, m : Facing(msgs, B, P, Q, c, n, m) /\ m.type = "update" /\ M = m
  BY <1>1, Faces
<1>3. rQi \in Nat /\ Len(rQ) \in Nat /\ rfb.pc = "message"
  BY <1>1, Faces
<1>4. CASE ~Have(rQi + 1, 3)
  <2>1. PICK i : i = rQi + 1 - 1
    OBVIOUS
  <2>2. Pause(i, dec) /\ i = rQi
    BY <1>3, <1>4, <2>1 DEF UpdateHeader
  <2>. QED  BY <1>3, <2>2, MessageWaits
<1>5. CASE Have(rQi + 1, 3)
  <2>1. /\ Story(msgs, B, P, Q, c, 0) /\ n = c + 1 /\ m = msgs[n] /\ c # Len(msgs)
        /\ rQ[rQi + 1].n = n /\ rfb.rects = 0 /\ rfb.rect = NoRect /\ rfb.state # "lost" /\ Fresh(rfb.dec)
        /\ c \in 0 .. Len(msgs) /\ B = BytesAfter(msgs, c) /\ P = PartsAfter(msgs, c)
        /\ Q = PiecesAfter(msgs, c)
    BY <1>2 DEF Facing, Between
  <2>2. /\ Base /\ SessionOK(rfb) /\ Sent(msgs) /\ MessagesOK(msgs) /\ Balance(c, 0)
        /\ Coming(B) /\ Handles(P) /\ Missing(Q)
    BY <2>1 DEF Story, Sent, Base
  <2>3. PICK f : f = Field(HeadCell(n, m), 4)
    OBVIOUS
  <2>4. PICK X, Y, Z : X = BytesIn(msgs, n, 0) /\ Y = PartsIn(msgs, n, 0) /\ Z = PiecesIn(msgs, n, 0)
    OBVIOUS
  <2>5. UpdateAt(msgs, n, 0) /\ B = Glue(f, X) /\ P = Y /\ Q = Z
    BY <1>2, <2>1, <2>2, <2>3, <2>4, InFirst
  <2>6. IsSeq(X) /\ IsSeq(Y) /\ IsSeq(Z) /\ n \in 0 .. Len(msgs)
    BY <2>4, <2>5, InIsSeq
  <2>7. PICK h \in Nat : h = 4
    OBVIOUS
  <2>8. IsSeq(f) /\ Len(f) = h
    BY <2>3, <2>7, FieldFacts
  <2>9. PICK waits, hollow : /\ waits = Pending(display)
                             /\ hollow = (rfb.hollow \/ (m.count = 0 /\ Pending(display)))
    OBVIOUS
  <2>10. /\ rQi' = rQi + h
         /\ rfb' = [rfb EXCEPT !.rects = m.count, !.update = n, !.hollow = hollow,
                               !.pc = IF waits THEN "idle" ELSE "rects"]
         /\ display' = [display EXCEPT !.flushing = waits]
         /\ IF m.count = 0 /\ Pending(display) THEN Handle(<<n, 0>>, "dropped") ELSE UNCHANGED handled
         /\ UNCHANGED <<server, wire, sent, meant, due, rQ, owed>>
    BY <1>2, <1>5, <2>1, <2>7, <2>9, Zenon DEF UpdateHeader, outside, net
  <2>11. /\ DOMAIN rfb' = SessionFields /\ rfb'.pc = (IF waits THEN "idle" ELSE "rects")
         /\ rfb'.rects = m.count /\ rfb'.update = n /\ rfb'.hollow = hollow
         /\ rfb'.rect = NoRect /\ rfb'.dec = rfb.dec /\ rfb'.state = rfb.state
         /\ rfb'.skipped = rfb.skipped /\ rfb'.canContinue = rfb.canContinue
         /\ rfb'.continuous = rfb.continuous
    BY <2>1, <2>2, <2>10 DEF SessionOK, SessionFields
  <2>12. /\ DOMAIN display' = DOMAIN display /\ display'.queue = display.queue
         /\ display'.drawn = display.drawn /\ display'.visible = display.visible
         /\ display'.flushing = waits
    BY <2>2, <2>10 DEF Missing, ScreenOK, DrawnOK
  <2>13. ScreenOK(display') /\ Shown(display') = Shown(display)
    BY <2>2, <2>12 DEF Missing, ScreenOK, DrawnOK, Shown
  <2>14. Missing(Z)'
    BY <2>2, <2>5, <2>10, <2>13 DEF Missing
  <2>15. Have(rQi, h)
    BY <1>3, <1>5, <2>7 DEF Have
  <2>16. Coming(X)'
    <3>1. Coming(Glue(f, X)) /\ UNCHANGED <<rQ, wire>>
      BY <2>2, <2>5, <2>10
    <3>. QED  BY <2>6, <2>8, <2>10, <2>15, <3>1, BytesRead
  <2>17. m.count \in 0 .. AnyNumber /\ m.count = RectsLeft(m, 0) /\ (m.count = 0 <=> 0 = Len(m.rects))
    <3>1. m = msgs[n] /\ RectsLeft(m, 0) \in 0 .. AnyNumber /\ (RectsLeft(m, 0) = 0 <=> 0 = Len(m.rects))
      BY <2>1, <2>5, RectsCount
    <3>2. PICK l \in Nat, N \in Nat : l = Len(m.rects) /\ N = AnyNumber
      BY <2>1, <2>5, InIsSeq DEF AnyNumber
    <3>3. PICK k : k = m.count
      OBVIOUS
    <3>4. k \in l .. N /\ (k = l \/ m.rects # <<>>) /\ IsSeq(m.rects)
      BY <2>1, <2>5, <3>2, <3>3 DEF UpdateAt, UpdateOK, IsSeq
    <3>5. l = 0 => k = 0
      BY <3>2, <3>4, NoElements
    <3>6. RectsLeft(m, 0) = IF 0 = l THEN 0 ELSE k - 0
      BY <3>2, <3>3 DEF RectsLeft
    <3>. QED  BY <3>1, <3>2, <3>3, <3>4, <3>5, <3>6
  <2>18. hollow \in BOOLEAN /\ rfb.hollow \in BOOLEAN
    BY <2>2, <2>9 DEF SessionOK
  <2>19. SessionOK(rfb')
    BY <2>2, <2>11, <2>17, <2>18 DEF SessionOK
  <2>20. Base'
    <3>1. rfb'.pc # "message"
      BY <2>11
    <3>2. display'.flushing => Pending(display')
      BY <2>9, <2>12 DEF Pending
    <3>. QED  BY <2>2, <2>10, <2>19, <3>1, <3>2 DEF Base
  <2>21. Sent(msgs)'
    BY <2>2, <2>10 DEF Sent
  <2>22. c # Len(sent) /\ sent[c + 1] = "update"
    BY <1>2, FacingMeans
  <2>23. CASE m.count = 0 /\ Pending(display)
    <3>1. hollow = TRUE /\ Handle(<<n, 0>>, "dropped")
      BY <2>9, <2>10, <2>23
    <3>2. Balance(n, 0)'
      BY <2>1, <2>2, <2>10, <2>11, <2>22, <3>1, BalanceDrops
    <3>3. PICK b, p, q : b = BytesAfter(msgs, n) /\ p = PartsAfter(msgs, n) /\ q = PiecesAfter(msgs, n)
      OBVIOUS
    <3>4. X = b /\ Y = Glue(<< <<n, 0>> >>, p) /\ Z = q /\ IsSeq(p)
      <4>1. 0 = Len(msgs[n].rects)
        BY <2>1, <2>17, <2>23
      <4>. QED  BY <2>4, <2>5, <3>3, <4>1, InLast, InIsSeq
    <3>5. Handles(p)'
      <4>1. PICK of : of = <<n, 0>>
        OBVIOUS
      <4>. QED  BY <2>2, <2>5, <2>10, <3>1, <3>4, <4>1, OneHandled
    <3>6. Story(msgs, b, p, q, n, 0)'
      BY <2>14, <2>16, <2>20, <2>21, <3>2, <3>4, <3>5 DEF Story
    <3>7. Between(rfb', msgs, b, p, q, n, 0)
      BY <2>1, <2>6, <2>9, <2>11, <2>23, <3>3 DEF Between
    <3>. QED  BY <3>6, <3>7 DEF Inv, Situation
  <2>24. CASE ~(m.count = 0 /\ Pending(display))
    <3>1. hollow = rfb.hollow /\ handled' = handled
      BY <2>9, <2>10, <2>18, <2>24
    <3>2. Balance(n, 1)'
      BY <2>1, <2>2, <2>10, <2>11, <2>22, <3>1, BalanceOpens
    <3>3. Handles(Y)'
      BY <2>2, <2>5, <2>10, <3>1, NoneHandled
    <3>4. Story(msgs, X, Y, Z, n, 1)'
      BY <2>14, <2>16, <2>20, <2>21, <3>2, <3>3 DEF Story
    <3>5. rfb'.pc = "rects" \/ (rfb'.rects > 0 /\ rfb'.pc \in {"idle", "message"})
      <4>1. PICK N \in Nat : N = AnyNumber
        BY DEF AnyNumber
      <4>2. PICK k \in 0 .. N : k = m.count
        BY <2>17, <4>1
      <4>3. waits => k # 0
        BY <2>9, <2>24, <4>2
      <4>4. waits => rfb'.rects > 0
        BY <2>11, <4>2, <4>3
      <4>. QED  BY <2>11, <4>4
    <3>6. rfb'.rects = RectsLeft(msgs[n], 0)
      BY <2>1, <2>11, <2>17
    <3>7. Updating(rfb', msgs, X, Y, Z, n, 0, 1)
      BY <2>1, <2>4, <2>5, <2>11, <3>5, <3>6 DEF Updating
    <3>. QED  BY <3>4, <3>7 DEF Inv, Situation
  <2>. QED  BY <2>23, <2>24
<1>. QED  BY <1>4, <1>5

\* A step that changes nothing but where the handler stands.
LEMMA Moves ==
  ASSUME Inv, NEW to, to \in {"rects", "rect"}, rfb' = [rfb EXCEPT !.pc = to],
         UNCHANGED <<outside, rQi, display, handled, owed>>,
         NEW msgs, NEW B, NEW P, NEW Q, NEW c, NEW open, Story(msgs, B, P, Q, c, open)
  PROVE  Story(msgs, B, P, Q, c, open)' /\ Alike(rfb', rfb) /\ rfb'.pc = to
<1>1. UNCHANGED <<server, wire, sent, meant, due, rQ, rQi, owed, display, handled>>
  BY DEF outside, net
<1>2. Alike(rfb', rfb) /\ Counted(rfb', rfb) /\ rfb'.pc = to
  BY StoryMeans DEF Alike, Counted, SessionFields
<1>3. SessionOK(rfb')
  BY <1>2, StoryMeans DEF SessionOK, Alike, Counted
<1>4. Coming(B)' /\ Missing(Q)' /\ Handles(P)'
  BY <1>1, BytesStay, SameScreen, NoneHandled DEF Story
<1>5. Balance(c, open)'
  BY <1>1, <1>2, BalanceStays DEF Story, Counted
<1>6. Base'
  BY <1>1, <1>2, <1>3, StoryMeans DEF Base
<1>7. Sent(msgs)'
  BY <1>1 DEF Sent, Story
<1>. QED  BY <1>2, <1>4, <1>5, <1>6, <1>7 DEF Story

LEMMA ResumeStep ==
  ASSUME Inv, ResumeUpdate
  PROVE  Inv'
<1>1. PICK to : to = IF ~InRect THEN "rects" ELSE "rect"
  OBVIOUS
<1>2. /\ rfb.pc = "message" /\ rfb.rects > 0 /\ rfb' = [rfb EXCEPT !.pc = to]
      /\ UNCHANGED <<outside, rQi, display, handled, owed>> /\ to \in {"rects", "rect"}
  BY <1>1 DEF ResumeUpdate
<1>3. PICK msgs, B, P, Q, c, open :
         Story(msgs, B, P, Q, c, open) /\ Situation(rfb, msgs, B, P, Q, c, open)
  BY DEF Inv
<1>4. Story(msgs, B, P, Q, c, open)' /\ Alike(rfb', rfb) /\ rfb'.pc = to
  BY <1>2, <1>3, Moves
<1>5. ~Between(rfb, msgs, B, P, Q, c, open) /\ ~Stuck(rfb, msgs, B, c, open) /\ ~Gone(rfb, msgs, c, open)
  BY <1>2 DEF Between, Stuck, Gone
<1>6. ASSUME NEW j, Updating(rfb, msgs, B, P, Q, c, j, open) PROVE Inv'
  <2>1. to = "rects"
    BY <1>1, <1>6 DEF Updating, InRect, Of, NoRect
  <2>2. Updating(rfb', msgs, B, P, Q, c, j, open)
    BY <1>4, <1>6, <2>1 DEF Updating, Alike
  <2>. QED  BY <1>4, <2>2 DEF Inv, Situation
<1>7. ASSUME NEW j, Reading(rfb, msgs, B, P, Q, c, j, open) PROVE Inv'
  <2>1. rfb.rect.of = <<c, j>> /\ <<c, j>> # <<>>
    BY <1>7 DEF Reading
  <2>2. to = "rect"
    BY <1>1, <2>1 DEF InRect, Of
  <2>3. Reading(rfb', msgs, B, P, Q, c, j, open)
    BY <1>4, <1>7, <2>2 DEF Reading, Alike
  <2>. QED  BY <1>4, <2>3 DEF Inv, Situation
<1>. QED  BY <1>3, <1>5, <1>6, <1>7 DEF Situation

LEMMA RectHeaderStep ==
  ASSUME Inv, RectHeader
  PROVE  Inv'
<1>1. PICK h \in Nat : h = 12 /\ h > 0
  OBVIOUS
<1>2. /\ rfb.pc = "rects" /\ rfb.rects > 0
      /\ Read("rect", h,
           /\ rQi' = rQi + h
           /\ rfb' = [rfb EXCEPT !.pc = "rect", !.rect = [of |-> rQ[rQi + 1].of, r |-> rQ[rQi + 1].r]]
           /\ UNCHANGED <<outside, display, handled, owed>>)
  BY <1>1 DEF RectHeader
<1>3. CASE ~Have(rQi, h)
  <2>1. Pause(rQi, dec)
    BY <1>2, <1>3 DEF Read
  <2>. QED  BY <1>2, <2>1, MessageWaits
<1>4. CASE Have(rQi, h)
  <2>1. PICK msgs, B, P, Q, c, open :
          Story(msgs, B, P, Q, c, open) /\ Situation(rfb, msgs, B, P, Q, c, open)
    BY DEF Inv
  <2>2. PICK j : Updating(rfb, msgs, B, P, Q, c, j, open)
    BY <1>2, <2>1 DEF Situation, Between, Reading, Stuck, Gone
  <2>3. /\ UpdateAt(msgs, c, j) /\ open = 1 /\ rfb.update = c /\ rfb.rects = RectsLeft(msgs[c], j)
        /\ rfb.state # "lost" /\ Fresh(rfb.dec)
        /\ B = BytesIn(msgs, c, j) /\ P = PartsIn(msgs, c, j) /\ Q = PiecesIn(msgs, c, j)
    BY <2>2 DEF Updating
  <2>4. /\ Base /\ SessionOK(rfb) /\ Coming(B) /\ Handles(P) /\ Missing(Q) /\ Balance(c, open) /\ Sent(msgs)
    BY <2>1 DEF Story, Base
  <2>5. j # Len(msgs[c].rects)
    BY <1>2, <2>3, RectsCount
  <2>6. PICK k, r : k = j + 1 /\ r = msgs[c].rects[k]
    OBVIOUS
  <2>7. PICK of : of = <<c, k>>
    OBVIOUS
  <2>8. PICK b, p, q : b = BytesIn(msgs, c, k) /\ p = PartsIn(msgs, c, k) /\ q = PiecesIn(msgs, c, k)
    OBVIOUS
  <2>9. PICK f, g, x : /\ f = Field(RectCell(of, r), h) /\ g = Body(r)
                       /\ x = Run(of, 0, PieceCount(r))
    OBVIOUS
  <2>10. UpdateAt(msgs, c, k) /\ k \in 1 .. Len(msgs[c].rects) /\ RectOK(r)
         /\ B = Glue(f, Glue(g, b)) /\ P = Glue(<<of>>, p) /\ Q = Glue(x, q)
    BY <1>1, <2>3, <2>5, <2>6, <2>7, <2>8, <2>9, InNext
  <2>11. IsSeq(b) /\ IsSeq(p) /\ IsSeq(q) /\ IsSeq(g)
    BY <2>8, <2>9, <2>10, InIsSeq, BodyIsSeq
  <2>12. PICK y : y = Glue(g, b)
    OBVIOUS
  <2>13. IsSeq(y)
    BY <2>11, <2>12, Joined
  <2>14. IsSeq(f) /\ Len(f) = h /\ f[1] = RectCell(of, r)
    BY <1>1, <2>9, FieldFacts
  <2>15. Have(rQi, 1)
    BY <1>1, <1>4, StoryMeans, SeqFacts DEF Have, QueuePlaced
  <2>16. rQ[rQi + 1] = RectCell(of, r)
    <3>1. Coming(Glue(f, y)) /\ Len(f) > 0
      BY <1>1, <2>4, <2>10, <2>12, <2>14
    <3>2. rQ[rQi + 1] = f[1]
      BY <2>13, <2>14, <2>15, <3>1, NextByte
    <3>. QED  BY <2>14, <3>2
  <2>17. At(rQi, "rect") /\ rQ[rQi + 1].of = of /\ rQ[rQi + 1].r = r
    BY <2>16 DEF At, RectCell
  <2>18. /\ rQi' = rQi + h /\ rfb' = [rfb EXCEPT !.pc = "rect", !.rect = [of |-> of, r |-> r]]
         /\ UNCHANGED <<server, wire, sent, meant, due, rQ, owed, display, handled>>
    BY <1>2, <1>4, <2>17 DEF Read, outside, net
  <2>19. /\ DOMAIN rfb' = SessionFields /\ rfb'.pc = "rect" /\ rfb'.rect = [of |-> of, r |-> r]
         /\ rfb'.rects = rfb.rects /\ rfb'.update = rfb.update /\ rfb'.dec = rfb.dec
         /\ Kept(rfb', rfb)
    BY <2>4, <2>18 DEF SessionOK, SessionFields, Kept
  <2>20. SessionOK(rfb')
    BY <2>4, <2>19 DEF SessionOK, Kept
  <2>21. Base'
    BY <2>4, <2>18, <2>19, <2>20 DEF Base
  <2>22. Balance(c, open)'
    BY <2>4, <2>18, <2>19, BalanceStays DEF Kept
  <2>23. Coming(y)'
    <3>1. Coming(Glue(f, y)) /\ UNCHANGED <<rQ, wire>>
      BY <2>4, <2>10, <2>12, <2>18
    <3>. QED  BY <1>4, <2>13, <2>14, <2>18, <3>1, BytesRead
  <2>24. Handles(P)' /\ Missing(Q)' /\ Sent(msgs)'
    BY <2>4, <2>18, NoneHandled, SameScreen DEF Sent
  <2>25. Story(msgs, y, P, Q, c, open)'
    BY <2>21, <2>22, <2>23, <2>24 DEF Story
  <2>26. PICK d : d = rfb.dec
    OBVIOUS
  <2>27. DecOK(r, d) /\ BodyLeft(r, d) = g /\ Undrawn(r, d) = PieceCount(r)
    BY <2>3, <2>9, <2>10, <2>26, FreshIsOK
  <2>28. PiecesLeft(of, r, d) = x
    <3>1. PICK u \in Nat : u = PieceCount(r) /\ u - u = 0
      BY <2>10, PieceCounts
    <3>. QED  BY <2>9, <2>27, <3>1 DEF PiecesLeft
  <2>29. j = k - 1 /\ k # 0
    BY <2>3, <2>6, InIsSeq
  <2>30. Reading(rfb', msgs, y, P, Q, c, k, open)
    BY <2>3, <2>6, <2>7, <2>8, <2>10, <2>11, <2>12, <2>19, <2>26, <2>27, <2>28, <2>29 DEF Reading, Kept
  <2>. QED  BY <2>25, <2>30 DEF Inv, Situation
<1>. QED  BY <1>3, <1>4

LEMMA EndUpdateStep ==
  ASSUME Inv, EndUpdate
  PROVE  Inv'
<1>1. rfb.pc = "rects" /\ rfb.rects = 0
  BY DEF EndUpdate
<1>2. PICK msgs, B, P, Q, c, open :
        Story(msgs, B, P, Q, c, open) /\ Situation(rfb, msgs, B, P, Q, c, open)
  BY DEF Inv
<1>3. PICK j : Updating(rfb, msgs, B, P, Q, c, j, open)
  BY <1>1, <1>2 DEF Situation, Between, Reading, Stuck, Gone
<1>4. /\ UpdateAt(msgs, c, j) /\ open = 1 /\ rfb.update = c /\ rfb.rects = RectsLeft(msgs[c], j)
      /\ rfb.state # "lost" /\ Fresh(rfb.dec) /\ rfb.rect = NoRect
      /\ B = BytesIn(msgs, c, j) /\ P = PartsIn(msgs, c, j) /\ Q = PiecesIn(msgs, c, j)
  BY <1>3 DEF Updating
<1>5. /\ Base /\ SessionOK(rfb) /\ Coming(B) /\ Handles(P) /\ Missing(Q) /\ Balance(c, 1) /\ Sent(msgs)
  BY <1>2, <1>4 DEF Story, Base
<1>6. j = Len(msgs[c].rects)
  BY <1>1, <1>4, RectsCount
<1>7. PICK p : p = PartsAfter(msgs, c)
  OBVIOUS
<1>8. PICK of : of = <<c, 0>>
  OBVIOUS
<1>9. B = BytesAfter(msgs, c) /\ P = Glue(<<of>>, p) /\ Q = PiecesAfter(msgs, c)
  BY <1>4, <1>6, <1>7, <1>8, InLast
<1>10. IsSeq(p) /\ c \in 0 .. Len(msgs)
  BY <1>4, <1>7, InIsSeq
<1>11. PICK wakes : wakes = Have(rQi, 1)
  OBVIOUS
<1>12. /\ display' = Submit(display, Flip)
       /\ owed' = IF rfb.continuous THEN owed ELSE owed + 1
       /\ Handle(of, "update")
       /\ rfb' = [rfb EXCEPT !.pc = IF wakes THEN "message" ELSE "idle"]
       /\ UNCHANGED <<server, wire, sent, meant, due, rQ, rQi>>
  BY <1>4, <1>8, <1>11 DEF EndUpdate, outside, net
<1>13. /\ DOMAIN rfb' = SessionFields /\ rfb'.pc = (IF wakes THEN "message" ELSE "idle")
       /\ rfb'.rect = rfb.rect /\ rfb'.rects = rfb.rects /\ rfb'.dec = rfb.dec
       /\ Kept(rfb', rfb)
  BY <1>5, <1>12 DEF SessionOK, SessionFields, Kept
<1>14. SessionOK(rfb')
  BY <1>5, <1>13 DEF SessionOK, Kept
<1>15. Adds(display, display', <<>>)
  BY <1>12, StoryMeans, FlipDraws
<1>16. Missing(Q)'
  BY <1>5, <1>12, <1>15, NothingMore DEF Adds
<1>17. Handles(p)'
  BY <1>5, <1>9, <1>10, <1>12, OneHandled
<1>18. Coming(B)'
  BY <1>5, <1>12, BytesStay
<1>19. Sent(msgs)'
  BY <1>5, <1>12 DEF Sent
<1>20. Balance(c, 0)'
  BY <1>5, <1>12, <1>13, BalanceCloses DEF SessionOK, Kept
<1>21. Base'
  <2>1. Have(rQi, 1) => rQi < Len(rQ)
    BY StoryMeans, SeqFacts DEF Have, QueuePlaced
  <2>2. rfb'.pc = "message" => wakes
    BY <1>13
  <2>3. rfb'.pc = "message" => rQi' < Len(rQ')
    BY <1>11, <1>12, <2>1, <2>2, Zenon
  <2>4. display'.flushing => Pending(display')
    BY <1>5, <1>15 DEF Adds, Draws, Base
  <2>. QED  BY <1>5, <1>12, <1>14, <2>3, <2>4 DEF Base
<1>22. Story(msgs, B, p, Q, c, 0)'
  BY <1>16, <1>17, <1>18, <1>19, <1>20, <1>21 DEF Story
<1>23. Between(rfb', msgs, B, p, Q, c, 0)
  BY <1>1, <1>4, <1>7, <1>9, <1>10, <1>13 DEF Between, Kept
<1>. QED  BY <1>22, <1>23 DEF Inv, Situation

LEMMA DecodingIs ==
  ASSUME PseudoRect \/ DataRect
  PROVE  rfb.pc = "rect"
<1>1. CASE PseudoRect
  BY <1>1 DEF PseudoRect, LastRect, QemuKeys, MouseButtons, VMwareCursor, Cursor, DesktopName, LedEvent,
              DesktopSize, ExtendedDesktopSize, UnknownEncoding, Decoding
<1>2. CASE DataRect
  <2>1. CASE Raw \/ CopyRect \/ RreBackground \/ RreSubrect \/ Hextile \/ ZlibLength \/ Zlib \/ Zrle
    BY <2>1 DEF Raw, CopyRect, RreBackground, RreSubrect, Hextile, ZlibLength, Zlib, Zrle, Decoding
  <2>2. CASE TightControl \/ TightFill \/ TightIllegal \/ TightFilter \/ TightPalette
    BY <2>2 DEF TightControl, TightFill, TightIllegal, TightFilter, TightPalette, Tight, Decoding
  <2>3. CASE TightPicture \/ TightPixels \/ Jpeg \/ H264
    BY <2>3 DEF TightPicture, TightPixels, Jpeg, H264, Tight, Decoding
  <2>. QED  BY <1>2, <2>1, <2>2, <2>3 DEF DataRect
<1>. QED  BY <1>1, <1>2

LEMMA DecodeStep ==
  ASSUME Inv, PseudoRect \/ DataRect
  PROVE  Inv'
<1>1. rfb.pc = "rect"
  BY DecodingIs
<1>2. PICK msgs, B, P, Q, c, open :
        Story(msgs, B, P, Q, c, open) /\ Situation(rfb, msgs, B, P, Q, c, open)
  BY DEF Inv
<1>3. PICK j : Reading(rfb, msgs, B, P, Q, c, j, open)
  BY <1>1, <1>2 DEF Situation, Between, Updating, Stuck, Gone
<1>4. PICK r, of, d : r = msgs[c].rects[j] /\ of = <<c, j>> /\ d = rfb.dec
  OBVIOUS
<1>5. PICK b, p, q : b = BytesIn(msgs, c, j) /\ p = PartsIn(msgs, c, j) /\ q = PiecesIn(msgs, c, j)
  OBVIOUS
<1>6. /\ UpdateAt(msgs, c, j) /\ j # 0 /\ open = 1 /\ rfb.update = c
      /\ rfb.rects = RectsLeft(msgs[c], j - 1) /\ rfb.state # "lost" /\ rfb.rect = [of |-> of, r |-> r]
      /\ DecOK(r, d) /\ IsSeq(BodyLeft(r, d))
      /\ B = Glue(BodyLeft(r, d), b) /\ P = Glue(<<of>>, p) /\ Q = Glue(PiecesLeft(of, r, d), q)
  BY <1>3, <1>4, <1>5 DEF Reading
<1>7. /\ Base /\ Coming(B) /\ Handles(P) /\ Missing(Q) /\ Balance(c, open) /\ Sent(msgs)
  BY <1>2 DEF Story
<1>8. IsSeq(b) /\ IsSeq(p) /\ IsSeq(q)
  BY <1>5, <1>6, InIsSeq
<1>9. RectOK(r)
  <2>1. UpdateOK(msgs[c]) /\ j \in 0 .. Len(msgs[c].rects) /\ j # 0 /\ Len(msgs[c].rects) \in Nat
    BY <1>6, InIsSeq DEF UpdateAt
  <2>2. j \in 1 .. Len(msgs[c].rects)
    BY <2>1
  <2>. QED  BY <1>4, <2>1, <2>2 DEF UpdateOK
<1>10. /\ rfb.rects > 0
       /\ RectsLeft(msgs[c], j) = IF r.enc = "lastrect" THEN 0 ELSE rfb.rects - 1
  BY <1>4, <1>6, RectsCount
<1>11. Ready(of, r, d, b, p, q, c, open)
  <2>1. Within(of, r, d, b, p, q)
    BY <1>6, <1>7, <1>8, <1>9 DEF Within
  <2>. QED  BY <1>1, <1>4, <1>6, <1>7, <1>10, <2>1 DEF Ready, Of, R, dec
<1>12. Outcome(of, r, b, p, q, c, open)
  BY <1>11, RectStep
<1>13. CASE GoesOn(of, r, b, p, q, c, open)
  <2>1. PICK e : rfb'.dec = e /\ Within(of, r, e, b, p, q)'
    BY <1>13 DEF GoesOn
  <2>2. /\ Base' /\ Balance(c, open)' /\ Kept(rfb', rfb) /\ sent' = sent
        /\ rfb'.rect = rfb.rect /\ rfb'.rects = rfb.rects /\ rfb'.pc \in {"rect", "idle"}
    BY <1>13 DEF GoesOn
  <2>3. PICK X, Z : X = Glue(BodyLeft(r, e), b) /\ Z = Glue(PiecesLeft(of, r, e), q)
    OBVIOUS
  <2>4. /\ DecOK(r, e) /\ IsSeq(BodyLeft(r, e)) /\ Coming(X)' /\ Handles(P)' /\ Missing(Z)'
    BY <1>6, <2>1, <2>3 DEF Within
  <2>5. Sent(msgs)'
    BY <1>7, <2>2 DEF Sent
  <2>6. Story(msgs, X, P, Z, c, open)'
    BY <2>2, <2>4, <2>5 DEF Story
  <2>7. Reading(rfb', msgs, X, P, Z, c, j, open)
    BY <1>4, <1>5, <1>6, <2>1, <2>2, <2>3, <2>4 DEF Reading, Kept
  <2>. QED  BY <2>6, <2>7 DEF Inv, Situation
<1>14. CASE Ends(r, b, p, q, c, open)
  <2>1. /\ Base' /\ Balance(c, open)' /\ Kept(rfb', rfb) /\ sent' = sent
        /\ rfb'.pc = "rects" /\ rfb'.rect = NoRect /\ Fresh(rfb'.dec)
        /\ rfb'.rects = IF r.enc = "lastrect" THEN 0 ELSE rfb.rects - 1
        /\ Coming(b)' /\ Handles(p)' /\ Missing(q)'
    BY <1>14 DEF Ends
  <2>2. Sent(msgs)'
    BY <1>7, <2>1 DEF Sent
  <2>3. Story(msgs, b, p, q, c, open)'
    BY <2>1, <2>2 DEF Story
  <2>4. rfb'.rects = RectsLeft(msgs[c], j)
    BY <1>10, <2>1
  <2>5. Updating(rfb', msgs, b, p, q, c, j, open)
    BY <1>5, <1>6, <2>1, <2>4 DEF Updating, Kept
  <2>. QED  BY <2>3, <2>5 DEF Inv, Situation
<1>15. CASE Fails
  <2>1. Fail
    BY <1>15 DEF Fails, Fail
  <2>. QED  BY <2>1, FailStep
<1>. QED  BY <1>12, <1>13, <1>14, <1>15 DEF Outcome

-----------------------------------------------------------------------------
(***************************************************************************)
(* What holds of every session.                                            *)
(***************************************************************************)
LEMMA InvStarts ==
  ASSUME Init
  PROVE  Inv
<1>1. PICK e : e = <<>>
  OBVIOUS
<1>2. /\ server \in DOMAIN Servers /\ wire = e /\ sent = e /\ meant = e /\ due = e /\ handled = e
      /\ owed = 1 /\ rQ = e /\ rQi = 0 /\ display = NewDisplay(Servers[server].size)
  BY <1>1 DEF Init
<1>3. /\ DOMAIN rfb = SessionFields /\ rfb.pc = "idle" /\ rfb.state = "connected" /\ rfb.rects = 0
      /\ rfb.rect = NoRect /\ rfb.continuous = FALSE /\ rfb.hollow = FALSE /\ Fresh(rfb.dec)
  BY DEF Init, SessionFields, Fresh, DecFields
<1>4. IsSeq(e) /\ Len(e) = 0
  BY <1>1, EmptyIsSeq
<1>5. MessagesOK(e)
  BY <1>4 DEF MessagesOK
<1>6. PICK x, y, z : x = BytesOf(e) /\ y = PartsOf(e) /\ z = PiecesOf(e)
  OBVIOUS
<1>7. Seqs(x) /\ Len(x) = 0 /\ Seqs(y) /\ Len(y) = 0 /\ Seqs(z) /\ Len(z) = 0
  BY <1>4, <1>5, <1>6, StreamsAreSeqs
<1>8. From(x, 0) = e /\ From(y, 0) = e /\ From(z, 0) = e
  BY <1>1, <1>7, FromNone
<1>9. BytesAfter(e, 0) = e /\ PartsAfter(e, 0) = e /\ PiecesAfter(e, 0) = e
  BY <1>6, <1>8 DEF BytesAfter, PartsAfter, PiecesAfter
<1>10. Glue(e, e) = e
  BY <1>1, <1>4, JoinEmpty
<1>11. Coming(e)
  <2>1. Unread = e
    <3>1. Unread = SubSeq(e, 0 + 1, 0)
      BY <1>2, <1>4 DEF Unread
    <3>2. IsSeq(SubSeq(e, 0 + 1, 0)) /\ Len(SubSeq(e, 0 + 1, 0)) = 0 - 0
      BY <1>4, Cut
    <3>. QED  BY <1>1, <3>1, <3>2, NoElements
  <2>. QED  BY <1>2, <1>4, <1>10, <2>1 DEF Coming, QueuePlaced
<1>12. Handles(e)
  <2>1. Done(handled) = e
    <3>1. PICK f : f = Done(handled)
      OBVIOUS
    <3>2. DOMAIN handled = 1 .. 0
      BY <1>2, <1>4, SeqFacts
    <3>3. f = [i \in 1 .. 0 |-> f[i]]
      BY <3>1, <3>2 DEF Done
    <3>4. IsSeq(f) /\ Len(f) = 0
      BY <3>3, FunIsSeq
    <3>. QED  BY <1>1, <3>1, <3>4, NoElements
  <2>. QED  BY <1>2, <1>4, <1>10, <2>1 DEF Handles
<1>13. Missing(e) /\ display.flushing = FALSE
  <2>1. /\ DOMAIN display = {"size", "queue", "drawn", "visible", "flushing", "smeared"}
        /\ display.queue = e /\ display.drawn = e /\ display.visible = 0 /\ display.flushing = FALSE
    BY <1>1, <1>2 DEF NewDisplay
  <2>2. ScreenOK(display)
    BY <1>4, <2>1 DEF ScreenOK, DrawnOK, QueueOK
  <2>3. Shown(display) = e
    BY <1>1, <1>10, <2>1, NothingQueued DEF Shown
  <2>. QED  BY <1>2, <1>4, <1>10, <2>1, <2>2, <2>3 DEF Missing
<1>14. Balance(0, 0)
  <2>1. AskedBy(sent, 0) = 0
    <3>1. {i \in 1 .. 0 : sent[i] = "update"} = {}
      OBVIOUS
    <3>. QED  BY <3>1, FS_EmptySet DEF AskedBy
  <2>2. Answered(handled) = 0
    <3>1. {i \in DOMAIN handled : handled[i].did \in Over} = {}
      BY <1>2, <1>4, SeqFacts
    <3>. QED  BY <3>1, FS_EmptySet DEF Answered
  <2>. QED  BY <1>2, <1>3, <1>4, <2>1, <2>2 DEF Balance
<1>15. Sent(e)
  BY <1>2, <1>4, <1>5 DEF Sent
<1>16. Base
  <2>1. 0 \in 0 .. AnyNumber
    BY DEF AnyNumber
  <2>2. SessionOK(rfb)
    BY <1>3, <2>1 DEF SessionOK
  <2>. QED  BY <1>2, <1>3, <1>13, <2>2 DEF Base
<1>17. Story(e, e, e, e, 0, 0)
  BY <1>11, <1>12, <1>13, <1>14, <1>15, <1>16 DEF Story
<1>18. Between(rfb, e, e, e, e, 0, 0)
  BY <1>3, <1>4, <1>9 DEF Between
<1>. QED  BY <1>17, <1>18 DEF Inv, Situation

LEMMA InvKept ==
  ASSUME Inv, [Next]_vars
  PROVE  Inv'
<1>1. CASE UNCHANGED vars
  <2>1. UNCHANGED <<server, wire, sent, meant, due, owed, rQ, rQi, rfb, display, handled>>
    BY <1>1 DEF vars
  <2>2. PICK msgs, B, P, Q, c, open :
          Story(msgs, B, P, Q, c, open) /\ Situation(rfb, msgs, B, P, Q, c, open)
    BY DEF Inv
  <2>3. Coming(B)' /\ Missing(Q)' /\ Handles(P)'
    BY <2>1, <2>2, BytesStay, SameScreen, NoneHandled DEF Story
  <2>4. Balance(c, open)'
    BY <2>1, <2>2, BalanceStays DEF Story
  <2>5. Base' /\ Sent(msgs)'
    BY <2>1, <2>2 DEF Story, Base, Sent
  <2>6. Story(msgs, B, P, Q, c, open)'
    BY <2>3, <2>4, <2>5 DEF Story
  <2>7. Situation(rfb', msgs, B, P, Q, c, open)
    BY <2>1, <2>2
  <2>. QED  BY <2>6, <2>7 DEF Inv
<1>2. CASE \E m \in Servers[server].menu : Send(m)
  BY <1>2, SendStep
<1>3. CASE \E k \in 1 .. Len(wire) : Arrive(k)
  BY <1>3, ArriveStep
<1>4. CASE \E i \in DOMAIN display.queue : PictureReady(i)
  BY <1>4, PictureStep
<1>5. CASE Update
  BY <1>5, UpdateHeaderStep, ResumeStep, RectHeaderStep, EndUpdateStep DEF Update
<1>6. CASE PseudoRect \/ DataRect
  BY <1>6, DecodeStep
<1>7. CASE Message
  BY <1>7, MessageStep
<1>. QED  BY <1>1, <1>2, <1>3, <1>4, <1>5, <1>6, <1>7 DEF Next, Handler

LEMMA InvHolds == Spec => []Inv
BY InvStarts, InvKept, PTL DEF Spec

\* A rectangle is open exactly where the type invariant allows one.
LEMMA RectsOpen ==
  ASSUME NEW msgs, NEW B, NEW P, NEW Q, NEW c, NEW open,
         Situation(rfb, msgs, B, P, Q, c, open)
  PROVE  /\ open \in Nat
         /\ (rfb.rects = 0 \/ rfb.pc = "rects") => ~InRect
         /\ rfb.pc = "rect" => InRect
<1>1. rfb.rect = NoRect => ~InRect
  BY DEF NoRect, InRect, Of
<1>2. CASE Between(rfb, msgs, B, P, Q, c, open)
  BY <1>1, <1>2 DEF Between
<1>3. CASE \E j : Updating(rfb, msgs, B, P, Q, c, j, open)
  BY <1>1, <1>3 DEF Updating
<1>4. CASE \E j : Reading(rfb, msgs, B, P, Q, c, j, open)
  <2>1. PICK j : Reading(rfb, msgs, B, P, Q, c, j, open)
    BY <1>4
  <2>2. UpdateAt(msgs, c, j) /\ j # 0 /\ rfb.rects = RectsLeft(msgs[c], j - 1) /\ rfb.pc # "rects"
        /\ rfb.rect.of = <<c, j>> /\ open = 1
    BY <2>1 DEF Reading
  <2>3. rfb.rects # 0
    BY <2>2, RectsCount
  <2>4. InRect
    BY <2>2 DEF InRect, Of
  <2>. QED  BY <2>2, <2>3, <2>4
<1>5. CASE Stuck(rfb, msgs, B, c, open)
  BY <1>1, <1>5 DEF Stuck
<1>6. CASE Gone(rfb, msgs, c, open)
  BY <1>1, <1>6 DEF Gone
<1>. QED  BY <1>2, <1>3, <1>4, <1>5, <1>6 DEF Situation

LEMMA InvTypes ==
  ASSUME Inv
  PROVE  TypeOK
<1>1. PICK msgs, B, P, Q, c, open :
        Story(msgs, B, P, Q, c, open) /\ Situation(rfb, msgs, B, P, Q, c, open)
  BY DEF Inv
<1>2. Base /\ SessionOK(rfb) /\ QueuePlaced /\ ScreenOK(display) /\ Balance(c, open)
  BY <1>1 DEF Story, Base, Coming, Missing
<1>3. /\ open \in Nat
      /\ (rfb.rects = 0 \/ rfb.pc = "rects") => ~InRect
      /\ rfb.pc = "rect" => InRect
  BY <1>1, RectsOpen
<1>4. owed \in 0 .. Len(sent) + 1
  BY <1>2, <1>3, BalanceMeans
<1>5. display.visible \in 0 .. Len(display.drawn)
  BY <1>2 DEF ScreenOK, DrawnOK
<1>6. \A i \in DOMAIN display.queue : display.queue[i].heard => i = 1
  <2>1. DOMAIN display.queue = 1 .. Len(display.queue)
    BY <1>2, SeqFacts DEF ScreenOK, QueueOK
  <2>. QED  BY <1>2, <2>1 DEF ScreenOK, QueueOK
<1>. QED  BY <1>2, <1>3, <1>4, <1>5, <1>6 DEF TypeOK, Base, SessionOK, QueuePlaced

LEMMA Prefix ==
  ASSUME NEW s, NEW t, NEW u, IsSeq(s), IsSeq(t), u = Glue(s, t)
  PROVE  IsPrefix(s, u)
<1>1. PICK n \in Nat, m \in Nat : n = Len(s) /\ m = Len(t)
  BY SeqFacts
<1>2. Joint(u, s, n, t, m)
  BY <1>1, GlueAt
<1>3. IsSeq(u) /\ Len(u) = n + m /\ \A k \in 1 .. n : u[k] = s[k]
  BY <1>2 DEF Joint
<1>4. PICK v : v = SubSeq(u, 0 + 1, n)
  OBVIOUS
<1>5. IsSeq(v) /\ Len(v) = n /\ \A k \in 1 .. n : v[k] = u[k]
  <2>1. /\ IsSeq(SubSeq(u, 0 + 1, n)) /\ Len(SubSeq(u, 0 + 1, n)) = n - 0
        /\ \A k \in 1 .. n - 0 : SubSeq(u, 0 + 1, n)[k] = u[0 + k]
    <3>1. 0 \in 0 .. Len(u) /\ n \in 0 .. Len(u)
      BY <1>3
    <3>. QED  BY <1>3, <3>1, Cut
  <2>. QED  BY <1>4, <2>1
<1>6. v = s
  BY <1>1, <1>3, <1>5, SameSeq
<1>. QED  BY <1>1, <1>3, <1>4, <1>6 DEF IsPrefix

LEMMA InvHandles ==
  ASSUME Inv
  PROVE  HandledAsSent
<1>1. PICK msgs, B, P, Q, c, open : Story(msgs, B, P, Q, c, open)
  BY DEF Inv
<1>2. Handles(P) /\ Missing(Q) /\ SessionOK(rfb)
  BY <1>1 DEF Story, Base
<1>3. IsPrefix(Done(handled), meant)
  <2>1. IsSeq(Done(handled))
    BY <1>2, DoneAppend DEF Handles
  <2>. QED  BY <1>2, <2>1, Prefix DEF Handles
<1>4. IsPrefix(display.drawn, due)
  <2>1. PICK a, b : a = display.drawn /\ b = Queued(display.queue)
    OBVIOUS
  <2>2. IsSeq(a) /\ IsSeq(b) /\ IsSeq(Q) /\ due = Glue(Glue(a, b), Q)
    BY <1>2, <2>1, ShownIsSeq DEF Missing, Shown
  <2>3. due = Glue(a, Glue(b, Q)) /\ IsSeq(Glue(b, Q))
    BY <2>2, JoinAssoc, Joined
  <2>. QED  BY <2>1, <2>2, <2>3, Prefix
<1>5. rfb.state = "lost" => rfb.skipped
  BY <1>2 DEF SessionOK
<1>. QED  BY <1>3, <1>4, <1>5 DEF HandledAsSent, Done

LEMMA InvCounts ==
  ASSUME Inv
  PROVE  OneUpdateUnderWay
<1>1. PICK msgs, B, P, Q, c, open :
        Story(msgs, B, P, Q, c, open) /\ Situation(rfb, msgs, B, P, Q, c, open)
  BY DEF Inv
<1>2. open \in Nat /\ Balance(c, open)
  BY <1>1, RectsOpen DEF Story
<1>. QED  BY <1>2, BalanceMeans

\* The receive position stays in the queue, no rectangle is open between
\* updates, a listener waits only at the head of the render queue, and a flush
\* is awaited only while something is in it (rfb.js, websock.js, display.js).
THEOREM StreamTypeCorrect == Spec => []TypeOK
BY InvHolds, InvTypes, PTL

\* For every server that keeps to the protocol, in whatever pieces its bytes
\* come and however long pictures take: every message and rectangle is handled
\* once and in the order of the server, every piece of picture is drawn once
\* and in that order, and a field is taken for another only after a clipboard
\* the page did not want or a long fence was left in the receive queue.
THEOREM HandledInOrder == Spec => []HandledAsSent
BY InvHolds, InvHandles, PTL

\* While updates are not continuous exactly one is asked for or being handled;
\* only an update without rectangles, come while the screen is being drawn, is
\* never answered.
THEOREM OneUpdateAtATime == Spec => []OneUpdateUnderWay
BY InvHolds, InvCounts, PTL
=============================================================================
