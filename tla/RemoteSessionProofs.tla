------------------------ MODULE RemoteSessionProofs ------------------------
(***************************************************************************)
(* Theorems about RemoteSession for any number of sessions and visits and  *)
(* any surroundings: its state keeps its types, the script's rfb is never  *)
(* a session that has ended, and no session lives on that rfb does not     *)
(* name unless a late disconnect event has cleared it.                     *)
(***************************************************************************)
EXTENDS RemoteSession, TLAPS

\* What is inductive: the three together.
IInv == TypeOK /\ CurrentIsLive /\ LiveIsCurrent

\* The surroundings respect the bounds.
LEMMA EnvFacts ==
  ASSUME TypeOK
  PROVE  /\ env \in Surroundings
         /\ env.sessions \in 0 .. MaxSessions
         /\ env.visits \in 0 .. MaxVisits
         /\ env.password \in {"set", "blank", "none"}
  BY EnvironmentsAssumption DEF TypeOK, Surroundings

LEMMA RecordFacts ==
  ASSUME NEW r \in SessionRecords
  PROVE  /\ Disconnecting(r) \in SessionRecords
         /\ Disconnecting(r).conn = "disconnecting"
         /\ [Disconnecting(r) EXCEPT !.conn = "disconnected"] \in SessionRecords
         /\ [Disconnecting(r) EXCEPT !.conn = "disconnected"].conn = "disconnected"
  BY DEF SessionRecords, Disconnecting, ClosedSock, ConnStates

\* The event loop's own variables, when a handler ends or goes on.
LEMMA LoopFacts ==
  ASSUME TypeOK, Return \/ Continue
  PROVE  running' \in 0 .. MaxSessions /\ once' \in BOOLEAN
  <1>1. CASE Return
    <2>1. running' = 0 /\ once' = FALSE
      BY <1>1 DEF Return
    <2>2. 0 \in 0 .. MaxSessions
      BY BoundsAssumption
    <2> QED BY <2>1, <2>2
  <1>2. CASE UNCHANGED <<running, once>>
    BY <1>2 DEF TypeOK
  <1> QED BY <1>1, <1>2 DEF Continue

LEMMA PageFacts ==
  ASSUME NEW p \in Pages, NEW s
  PROVE  /\ ResetScreenEvent(p) \in Pages
         /\ ResetScreen(p) \in Pages
         /\ Spinner(p) \in Pages
         /\ NotifyUp(p, s) \in Pages
         /\ NotifyDown(p, s) \in Pages
  BY DEF Pages, ResetScreenEvent, ResetScreen, Spinner, NotifyUp, NotifyDown

LEMMA SecurityFailurePage ==
  ASSUME NEW p \in Pages, NEW s
  PROVE  SecurityFailureEvent(p, s) \in Pages
  BY PageFacts DEF SecurityFailureEvent

\* A step that keeps rfb and stale and changes no session's connection.
LEMMA SameConnections ==
  ASSUME CurrentIsLive, LiveIsCurrent, TypeOK, UNCHANGED <<rfb, stale>>,
         \A t \in Sessions : sess'[t].conn = sess[t].conn
  PROVE  CurrentIsLive' /\ LiveIsCurrent'
  BY DEF CurrentIsLive, LiveIsCurrent, Live, TypeOK, Sessions

\* A step that replaces one record and keeps its connection.
LEMMA SameConnection ==
  ASSUME IInv, NEW s \in Sessions, NEW r \in SessionRecords,
         r.conn = sess[s].conn, sess' = [sess EXCEPT ![s] = r],
         UNCHANGED <<rfb, stale>>
  PROVE  /\ sess' \in [Sessions -> SessionRecords]
         /\ CurrentIsLive' /\ LiveIsCurrent'
  <1>1. sess \in [Sessions -> SessionRecords]
    BY DEF IInv, TypeOK
  <1>2. \A t \in Sessions : sess'[t].conn = sess[t].conn
    BY <1>1
  <1> QED BY <1>1, <1>2, SameConnections DEF IInv

\* The disconnect event of a session that has just ended.
LEMMA EndedBy ==
  ASSUME IInv, NEW s \in Sessions, NEW r \in SessionRecords, NEW p \in Pages,
         r.conn = "disconnected", sess' = [sess EXCEPT ![s] = r],
         DisconnectEvent(p, s)
  PROVE  /\ sess' \in [Sessions -> SessionRecords]
         /\ page' \in Pages /\ rfb' \in 0 .. MaxSessions /\ stale' \in BOOLEAN
         /\ CurrentIsLive' /\ LiveIsCurrent'
  <1>1. sess \in [Sessions -> SessionRecords] /\ rfb \in 0 .. MaxSessions /\ stale \in BOOLEAN
    BY DEF IInv, TypeOK
  <1>2. sess' \in [Sessions -> SessionRecords] /\ sess'[s].conn = "disconnected"
        /\ \A t \in Sessions \ {s} : sess'[t] = sess[t]
    BY <1>1
  <1>3. page' \in Pages
    BY PageFacts DEF DisconnectEvent
  <1>4. rfb' = 0 /\ stale' \in BOOLEAN /\ (stale' <=> (stale \/ rfb \notin {0, s}))
    BY <1>1 DEF DisconnectEvent
  <1>5. rfb' \in 0 .. MaxSessions
    BY <1>4, BoundsAssumption
  <1>6. CurrentIsLive'
    BY <1>4 DEF CurrentIsLive
  <1>7. LiveIsCurrent'
    <2> SUFFICES ASSUME NEW t \in Sessions, sess'[t].conn \in {"connecting", "connected"}
                 PROVE  stale'
      BY DEF LiveIsCurrent, Live
    <2>1. t # s /\ Live(t)
      BY <1>2 DEF Live
    <2>2. t = rfb \/ stale
      BY <2>1 DEF IInv, LiveIsCurrent
    <2> QED BY <2>1, <2>2, <1>4 DEF Sessions
  <1> QED BY <1>2, <1>3, <1>4, <1>5, <1>6, <1>7

\* rfb.disconnect() followed by rfb = null, or nothing when there is no rfb.
LEMMA RfbDisconnected ==
  ASSUME IInv, DisconnectVnc, stale' = stale
  PROVE  /\ sess' \in [Sessions -> SessionRecords]
         /\ rfb' \in 0 .. MaxSessions
         /\ CurrentIsLive' /\ LiveIsCurrent'
  <1>1. sess \in [Sessions -> SessionRecords] /\ rfb \in 0 .. MaxSessions
    BY DEF IInv, TypeOK
  <1>2. rfb' = 0 /\ rfb' \in 0 .. MaxSessions
    BY BoundsAssumption DEF DisconnectVnc
  <1>3. CurrentIsLive'
    BY <1>2 DEF CurrentIsLive
  <1>4. CASE rfb = 0
    <2>1. sess' = sess
      BY <1>4 DEF DisconnectVnc
    <2>2. LiveIsCurrent'
      BY <2>1, <1>2, <1>4 DEF IInv, LiveIsCurrent, Live
    <2> QED BY <1>1, <1>2, <1>3, <2>1, <2>2
  <1>5. CASE rfb # 0
    <2>1. rfb \in Sessions
      BY <1>1, <1>5 DEF Sessions
    <2>2. sess' = [sess EXCEPT ![rfb] = Disconnecting(sess[rfb])]
      BY <1>5 DEF DisconnectVnc, DisconnectRfb
    <2>3. sess' \in [Sessions -> SessionRecords] /\ sess'[rfb].conn = "disconnecting"
          /\ \A t \in Sessions \ {rfb} : sess'[t] = sess[t]
      BY <1>1, <2>1, <2>2, RecordFacts
    <2>4. LiveIsCurrent'
      <3> SUFFICES ASSUME NEW t \in Sessions, sess'[t].conn \in {"connecting", "connected"}
                   PROVE  stale
        BY DEF LiveIsCurrent, Live
      <3>1. t # rfb /\ Live(t)
        BY <2>3 DEF Live
      <3> QED BY <3>1 DEF IInv, LiveIsCurrent
    <2> QED BY <1>2, <1>3, <2>3, <2>4
  <1> QED BY <1>4, <1>5

\* _fail ends a session, or does nothing to one that has ended.
LEMMA FailingKeeps ==
  ASSUME IInv, NEW s \in Sessions, NEW p \in Pages, Failing(s, p)
  PROVE  IInv'
  <1>1. sess \in [Sessions -> SessionRecords] /\ sess[s] \in SessionRecords
    BY DEF IInv, TypeOK
  <1>2. env' \in Environments /\ created' \in 0 .. MaxSessions /\ visits' \in 0 .. MaxVisits
        /\ running' \in 0 .. MaxSessions /\ once' \in BOOLEAN
    <2>1. UNCHANGED <<env, created, visits>> /\ Return
      BY DEF Failing
    <2> QED BY <2>1, LoopFacts DEF IInv, TypeOK
  <1>3. CASE sess[s].conn = "disconnected"
    <2>1. page' = p /\ UNCHANGED <<sess, rfb, stale>>
      BY <1>3 DEF Failing, Fail
    <2>2. CurrentIsLive' /\ LiveIsCurrent'
      BY <2>1, SameConnections DEF IInv
    <2> QED BY <1>2, <2>1, <2>2 DEF IInv, TypeOK
  <1>4. CASE sess[s].conn # "disconnected"
    <2> DEFINE r == [Disconnecting(sess[s]) EXCEPT !.conn = "disconnected"]
    <2>1. sess' = [sess EXCEPT ![s] = r] /\ DisconnectEvent(p, s)
      BY <1>4 DEF Failing, Fail
    <2>2. r \in SessionRecords /\ r.conn = "disconnected"
      BY <1>1, RecordFacts
    <2> HIDE DEF r
    <2>3. sess' \in [Sessions -> SessionRecords] /\ page' \in Pages
          /\ rfb' \in 0 .. MaxSessions /\ stale' \in BOOLEAN
          /\ CurrentIsLive' /\ LiveIsCurrent'
      BY <2>1, <2>2, EndedBy
    <2> QED BY <1>2, <2>3 DEF IInv, TypeOK
  <1> QED BY <1>3, <1>4

\* A case of _initMsg that goes on with another state or scheme.
LEMMA AdvanceKeeps ==
  ASSUME IInv, NEW s \in Sessions, NEW r \in SessionRecords, r.conn = sess[s].conn,
         Advance(s, r), Continue \/ Return
  PROVE  IInv'
  <1> DEFINE q == [r EXCEPT !.input = FALSE]
  <1>1. q \in SessionRecords /\ q.conn = sess[s].conn
    BY DEF SessionRecords
  <1>2. sess' = [sess EXCEPT ![s] = q] /\ UNCHANGED <<env, created, rfb, page, visits, stale>>
    BY DEF Advance
  <1> HIDE DEF q
  <1>3. sess' \in [Sessions -> SessionRecords] /\ CurrentIsLive' /\ LiveIsCurrent'
    BY <1>1, <1>2, SameConnection
  <1>4. running' \in 0 .. MaxSessions /\ once' \in BOOLEAN
    BY LoopFacts DEF IInv
  <1> QED BY <1>2, <1>3, <1>4 DEF IInv, TypeOK

\* sendCredentials changes no connection.
LEMMA CredentialsKeep ==
  ASSUME IInv, NEW s \in Sessions, CredentialsRequired(s)
  PROVE  IInv'
  <1>1. sess \in [Sessions -> SessionRecords] /\ rfb \in 0 .. MaxSessions /\ page \in Pages
    BY DEF IInv, TypeOK
  <1>2. UNCHANGED <<env, created, rfb, visits, stale>> /\ Return
    BY DEF CredentialsRequired
  <1>3. page' \in Pages
    BY <1>1, PageFacts DEF CredentialsRequired
  <1>4. sess' \in [Sessions -> SessionRecords]
        /\ \A t \in Sessions : sess'[t].conn = sess[t].conn
    <2>1. CASE sess' = sess
      BY <1>1, <2>1
    <2>2. CASE rfb # 0 /\ sess' = [sess EXCEPT ![rfb].creds = TRUE, ![rfb].resume = TRUE]
      <3>1. rfb \in Sessions
        BY <1>1, <2>2 DEF Sessions
      <3>2. PICK r \in SessionRecords : r = sess[rfb]
        BY <1>1, <3>1
      <3>3. [r EXCEPT !.creds = TRUE, !.resume = TRUE] \in SessionRecords
        BY DEF SessionRecords
      <3>4. [r EXCEPT !.creds = TRUE, !.resume = TRUE].conn = r.conn
        BY DEF SessionRecords
      <3>5. sess' = [sess EXCEPT ![rfb] = [r EXCEPT !.creds = TRUE, !.resume = TRUE]]
        BY <1>1, <2>2, <3>1, <3>2 DEF SessionRecords
      <3> QED BY <1>1, <3>1, <3>2, <3>3, <3>4, <3>5
    <2> QED BY <2>1, <2>2 DEF CredentialsRequired
  <1>5. CurrentIsLive' /\ LiveIsCurrent'
    BY <1>2, <1>4, SameConnections DEF IInv
  <1>6. running' \in 0 .. MaxSessions /\ once' \in BOOLEAN
    BY <1>2, LoopFacts DEF IInv
  <1> QED BY <1>2, <1>3, <1>4, <1>5, <1>6 DEF IInv, TypeOK

-----------------------------------------------------------------------------
\* What the user does keeps the invariant.
LEMMA UserKeeps == IInv /\ User => IInv'
  <1> SUFFICES ASSUME IInv, User PROVE IInv'
    OBVIOUS
  <1>1. TypeOK /\ sess \in [Sessions -> SessionRecords] /\ rfb \in 0 .. MaxSessions
        /\ page \in Pages /\ created \in 0 .. MaxSessions /\ visits \in 0 .. MaxVisits
    BY DEF IInv, TypeOK
  <1>2. CASE OpenPage
    <2>0. visits + 1 \in 0 .. MaxVisits /\ visits' = visits + 1
      <3>1. env.visits \in 0 .. MaxVisits /\ visits < env.visits
        BY <1>1, <1>2, EnvFacts DEF OpenPage
      <3> QED BY <1>1, <1>2, <3>1, BoundsAssumption DEF OpenPage
    <2>1. page' \in Pages /\ visits' \in 0 .. MaxVisits
      BY <2>0, <1>2 DEF OpenPage, NoPage, Pages
    <2>2. CurrentIsLive' /\ LiveIsCurrent'
      BY <1>1, <1>2, SameConnections DEF OpenPage, IInv
    <2> QED BY <1>2, <2>1, <2>2 DEF OpenPage, IInv, TypeOK
  <1>3. CASE LeavePage
    <2>1. page' \in Pages
      BY <1>3, BoundsAssumption DEF LeavePage, NoPage, Pages
    <2>2. CASE page.locked
      <3>1. CurrentIsLive' /\ LiveIsCurrent'
        BY <1>1, <1>3, <2>2, SameConnections DEF LeavePage, IInv
      <3> QED BY <1>3, <2>1, <2>2, <3>1 DEF LeavePage, IInv, TypeOK
    <2>3. CASE ~page.locked
      <3>1. DisconnectVnc /\ stale' = stale
        BY <1>3, <2>3 DEF LeavePage
      <3> QED BY <1>3, <2>1, <3>1, RfbDisconnected DEF LeavePage, IInv, TypeOK
    <2> QED BY <2>2, <2>3
  <1>4. CASE Disconnect
    <2>1. page' \in Pages
      BY <1>1, <1>4, PageFacts DEF Disconnect
    <2> QED BY <1>4, <2>1, RfbDisconnected DEF Disconnect, IInv, TypeOK
  <1>5. CASE ConnectReplaces
    <2>1. page' \in Pages
      <3>1. Spinner(page) \in Pages
        BY <1>1, PageFacts
      <3> QED BY <1>5, <3>1 DEF ConnectReplaces, Pages
    <2>2. DisconnectVnc /\ stale' = stale
      BY <1>5 DEF ConnectReplaces, DisconnectVnc
    <2> QED BY <1>5, <2>1, <2>2, RfbDisconnected DEF ConnectReplaces, IInv, TypeOK
  <1>6. CASE ConnectVnc
    <2>1. page' \in Pages
      <3>1. Spinner(page) \in Pages
        BY <1>1, PageFacts
      <3> QED BY <1>6, <3>1 DEF ConnectVnc, Pages
    <2>2. created + 1 \in Sessions /\ created' \in 0 .. MaxSessions /\ rfb' \in 0 .. MaxSessions
      BY <1>1, <1>6, EnvFacts, BoundsAssumption DEF ConnectVnc, Sessions
    <2>3. NewSession \in SessionRecords /\ NewSession.conn = "connecting"
      BY <1>1, BoundsAssumption
      DEF NewSession, Unborn, SessionRecords, ConnStates, InitStates, Schemes, Pages
    <2>4. sess' \in [Sessions -> SessionRecords] /\ sess'[created + 1].conn = "connecting"
          /\ \A t \in Sessions \ {created + 1} : sess'[t] = sess[t]
      BY <1>1, <1>6, <2>2, <2>3 DEF ConnectVnc
    <2>5. rfb' = created + 1 /\ rfb = 0 /\ stale' = stale
      BY <1>6 DEF ConnectVnc
    <2>6. CurrentIsLive'
      BY <2>4, <2>5 DEF CurrentIsLive, Live
    <2>7. LiveIsCurrent'
      <3> SUFFICES ASSUME NEW t \in Sessions, sess'[t].conn \in {"connecting", "connected"},
                          t # created + 1
                   PROVE  stale
        BY <2>5 DEF LiveIsCurrent, Live
      <3>1. Live(t)
        BY <2>4 DEF Live
      <3>2. t # rfb
        BY <2>5 DEF Sessions
      <3> QED BY <3>1, <3>2 DEF IInv, LiveIsCurrent
    <2> QED BY <1>6, <2>1, <2>2, <2>4, <2>6, <2>7 DEF ConnectVnc, IInv, TypeOK
  <1>7. CASE ConnectThrows
    <2>1. page' \in Pages
      <3>1. ResetScreen(Spinner(page)) \in Pages
        BY <1>1, PageFacts
      <3> QED BY <1>7, <3>1 DEF ConnectThrows, Pages
    <2>2. CurrentIsLive' /\ LiveIsCurrent'
      BY <1>1, <1>7, SameConnections DEF ConnectThrows, IInv
    <2> QED BY <1>7, <2>1, <2>2 DEF ConnectThrows, IInv, TypeOK
  <1> QED BY <1>2, <1>3, <1>4, <1>5, <1>6, <1>7 DEF User

\* What the network and the timers do keeps the invariant.
LEMMA NetworkKeeps ==
  ASSUME IInv, NEW s \in Sessions,
         Network(s) \/ DisconnTimeout(s) \/ ResumeAuthentication(s)
  PROVE  IInv'
  <1>1. TypeOK /\ sess \in [Sessions -> SessionRecords] /\ sess[s] \in SessionRecords
        /\ page \in Pages
    BY DEF IInv, TypeOK
  <1>2. ASSUME NEW from, NEW to \in {"relaying", "ended"}, ProxyStep(s, from, to)
        PROVE  IInv'
    <2> DEFINE r == [sess[s] EXCEPT !.proxy = to]
    <2>1. r \in SessionRecords /\ r.conn = sess[s].conn
      BY <1>1 DEF SessionRecords
    <2>2. sess' = [sess EXCEPT ![s] = r]
      BY <1>1, <1>2 DEF ProxyStep
    <2> HIDE DEF r
    <2>3. sess' \in [Sessions -> SessionRecords] /\ CurrentIsLive' /\ LiveIsCurrent'
      BY <1>2, <2>1, <2>2, SameConnection DEF ProxyStep
    <2> QED BY <1>2, <2>3 DEF ProxyStep, IInv, TypeOK
  <1>3. CASE SocketOpen(s)
    <2> DEFINE r == [sess[s] EXCEPT !.sock = "open", !.proxy = "dialing",
                                    !.init = "ProtocolVersion"]
    <2>1. r \in SessionRecords /\ r.conn = sess[s].conn
      BY <1>1 DEF SessionRecords, InitStates
    <2>2. sess' = [sess EXCEPT ![s] = r]
      BY <1>1, <1>3 DEF SocketOpen, SessionRecords
    <2> HIDE DEF r
    <2>3. sess' \in [Sessions -> SessionRecords] /\ CurrentIsLive' /\ LiveIsCurrent'
      BY <1>3, <2>1, <2>2, SameConnection DEF SocketOpen
    <2> QED BY <1>3, <2>3 DEF SocketOpen, IInv, TypeOK
  <1>4. CASE SocketClose(s)
    <2> DEFINE r == [sess[s] EXCEPT !.sock = "closed", !.conn = "disconnected"]
    <2>1. r \in SessionRecords /\ r.conn = "disconnected"
      BY <1>1 DEF SessionRecords, ConnStates
    <2>2. sess' = [sess EXCEPT ![s] = r] /\ DisconnectEvent(page, s)
      BY <1>1, <1>4 DEF SocketClose, SessionRecords
    <2> HIDE DEF r
    <2>3. sess' \in [Sessions -> SessionRecords] /\ page' \in Pages
          /\ rfb' \in 0 .. MaxSessions /\ stale' \in BOOLEAN
          /\ CurrentIsLive' /\ LiveIsCurrent'
      BY <1>1, <2>1, <2>2, EndedBy
    <2> QED BY <1>4, <2>3 DEF SocketClose, IInv, TypeOK
  <1>5. CASE Receive(s)
    <2> DEFINE r == [sess[s] EXCEPT !.input = TRUE]
    <2>1. r \in SessionRecords /\ r.conn = sess[s].conn
      BY <1>1 DEF SessionRecords
    <2>2. sess' = [sess EXCEPT ![s] = r]
      BY <1>1, <1>5 DEF Receive
    <2> HIDE DEF r
    <2>3. sess' \in [Sessions -> SessionRecords] /\ CurrentIsLive' /\ LiveIsCurrent'
      BY <1>5, <2>1, <2>2, SameConnection DEF Receive
    <2>4. running' \in 0 .. MaxSessions
      BY <1>5 DEF Receive, Sessions
    <2> QED BY <1>5, <2>3, <2>4 DEF Receive, IInv, TypeOK
  <1>6. CASE Notice(s)
    <2>1. page' \in Pages
      BY <1>1, <1>6, PageFacts DEF Notice
    <2>2. CurrentIsLive' /\ LiveIsCurrent'
      BY <1>1, <1>6, SameConnections DEF Notice, IInv
    <2> QED BY <1>6, <2>1, <2>2 DEF Notice, IInv, TypeOK
  <1>7. CASE DisconnTimeout(s)
    <2> DEFINE r == [sess[s] EXCEPT !.conn = "disconnected"]
    <2>1. r \in SessionRecords /\ r.conn = "disconnected"
      BY <1>1 DEF SessionRecords, ConnStates
    <2>2. sess' = [sess EXCEPT ![s] = r] /\ DisconnectEvent(page, s)
      BY <1>1, <1>7 DEF DisconnTimeout
    <2> HIDE DEF r
    <2>3. sess' \in [Sessions -> SessionRecords] /\ page' \in Pages
          /\ rfb' \in 0 .. MaxSessions /\ stale' \in BOOLEAN
          /\ CurrentIsLive' /\ LiveIsCurrent'
      BY <1>1, <2>1, <2>2, EndedBy
    <2> QED BY <1>7, <2>3 DEF DisconnTimeout, IInv, TypeOK
  <1>8. CASE ResumeAuthentication(s)
    <2> DEFINE r == [sess[s] EXCEPT !.resume = FALSE]
    <2>1. r \in SessionRecords /\ r.conn = sess[s].conn
      BY <1>1 DEF SessionRecords
    <2>2. sess' = [sess EXCEPT ![s] = r]
      BY <1>1, <1>8 DEF ResumeAuthentication
    <2> HIDE DEF r
    <2>3. sess' \in [Sessions -> SessionRecords] /\ CurrentIsLive' /\ LiveIsCurrent'
      BY <1>8, <2>1, <2>2, SameConnection DEF ResumeAuthentication
    <2>4. running' \in 0 .. MaxSessions
      BY <1>8 DEF ResumeAuthentication, Sessions
    <2>5. once' \in BOOLEAN
      BY <1>8 DEF ResumeAuthentication
    <2> QED BY <1>8, <2>3, <2>4, <2>5 DEF ResumeAuthentication, IInv, TypeOK
  <1> QED
    BY <1>2, <1>3, <1>4, <1>5, <1>6, <1>7, <1>8 DEF Network, ProxyDials, ProxyEnds

\* Every case of _initMsg keeps the invariant: it advances, fails, asks for
\* credentials, waits, or connects.
LEMMA InitStepKeeps ==
  ASSUME IInv, NEW s \in Sessions, InitStep(s)
  PROVE  IInv'
  <1>1. TypeOK /\ sess \in [Sessions -> SessionRecords] /\ sess[s] \in SessionRecords
        /\ page \in Pages /\ env \in Surroundings
    BY EnvFacts DEF IInv, TypeOK
  <1>2. ASSUME NEW i \in InitStates, Advance(s, [sess[s] EXCEPT !.init = i]),
               Continue \/ Return
        PROVE  IInv'
    <2>1. [sess[s] EXCEPT !.init = i] \in SessionRecords
          /\ [sess[s] EXCEPT !.init = i].conn = sess[s].conn
      BY <1>1 DEF SessionRecords
    <2> QED BY <1>2, <2>1, AdvanceKeeps
  <1>3. ASSUME NEW c \in Schemes, Advance(s, [sess[s] EXCEPT !.scheme = c]), Continue
        PROVE  IInv'
    <2>1. [sess[s] EXCEPT !.scheme = c] \in SessionRecords
          /\ [sess[s] EXCEPT !.scheme = c].conn = sess[s].conn
      BY <1>1 DEF SessionRecords
    <2> QED BY <1>3, <2>1, AdvanceKeeps
  <1>4. Failing(s, page) => IInv'
    BY <1>1, FailingKeeps
  <1>5. Failing(s, SecurityFailureEvent(page, s)) => IInv'
    BY <1>1, SecurityFailurePage, FailingKeeps
  <1>6. CredentialsRequired(s) => IInv'
    BY CredentialsKeep
  <1>7. "Security" \in InitStates /\ "SecurityReason" \in InitStates
        /\ "SecurityResult" \in InitStates /\ "ClientInitialisation" \in InitStates
        /\ "ServerInitialisation" \in InitStates /\ "Authentication" \in InitStates
    BY DEF InitStates
  <1>8. CASE InitMsgWaits(s)
    <2>1. CurrentIsLive' /\ LiveIsCurrent'
      BY <1>1, <1>8, SameConnections DEF InitMsgWaits, IInv
    <2>2. running' \in 0 .. MaxSessions /\ once' \in BOOLEAN
      BY <1>1, <1>8, LoopFacts DEF InitMsgWaits
    <2> QED BY <1>8, <2>1, <2>2 DEF InitMsgWaits, IInv, TypeOK
  <1>9. CASE NegotiateProtocolVersion(s)
    BY <1>9, <1>2, <1>4, <1>7 DEF NegotiateProtocolVersion
  <1>10. CASE NegotiateSecurity(s)
    <2>1. CASE env.scheme = "refused"
      <3>1. Advance(s, [sess[s] EXCEPT !.init = "SecurityReason"]) /\ Continue
        BY <1>10, <2>1 DEF NegotiateSecurity
      <3> QED BY <3>1, <1>2, <1>7
    <2>2. CASE env.scheme = "unsupported" /\ env.version >= 37
      BY <1>10, <2>2, <1>4 DEF NegotiateSecurity
    <2>3. CASE env.scheme # "refused" /\ ~(env.scheme = "unsupported" /\ env.version >= 37)
      <3> DEFINE r == [sess[s] EXCEPT !.init = "Authentication", !.scheme = env.scheme]
      <3>1. Advance(s, r) /\ Continue
        BY <1>10, <2>3 DEF NegotiateSecurity
      <3>2. env.scheme \in Schemes
        BY <1>1, <2>3 DEF Surroundings
      <3>3. r \in SessionRecords /\ r.conn = sess[s].conn
        BY <1>1, <1>7, <3>2 DEF SessionRecords
      <3> HIDE DEF r
      <3> QED BY <3>1, <3>3, AdvanceKeeps
    <2> QED BY <2>1, <2>2, <2>3
  <1>11. CASE NoAuthentication(s)
    <2>1. PICK i \in InitStates :
            Advance(s, [sess[s] EXCEPT !.init = i]) /\ Continue
      BY <1>11, <1>7 DEF NoAuthentication
    <2> QED BY <2>1, <1>2
  <1>12. CASE UnsupportedScheme(s) \/ NegotiateRA2neAuth(s) \/ UnknownInitState(s)
    BY <1>12, <1>4 DEF UnsupportedScheme, NegotiateRA2neAuth, UnknownInitState
  <1>13. CASE NegotiateStdVNCAuth(s)
    BY <1>13, <1>2, <1>6, <1>7 DEF NegotiateStdVNCAuth
  <1>14. CASE NegotiateXvpAuth(s) \/ NegotiatePlainAuth(s) \/ NegotiateARDAuth(s)
              \/ NegotiateTightUnixAuth(s) \/ NegotiateMSLogonIIAuth(s)
    BY <1>14, <1>6 DEF NegotiateXvpAuth, NegotiatePlainAuth, NegotiateARDAuth,
                       NegotiateTightUnixAuth, NegotiateMSLogonIIAuth
  <1>15. env.inner \in Schemes
    BY <1>1 DEF Surroundings
  <1>16. CASE NegotiateTightAuth(s)
    <2>1. CASE env.inner = "none"
      <3>1. Advance(s, [sess[s] EXCEPT !.init = "SecurityResult"]) /\ Continue
        BY <1>16, <2>1 DEF NegotiateTightAuth
      <3> QED BY <3>1, <1>2, <1>7
    <2>2. CASE env.inner \in {"vncauth", "unixlogon"}
      <3>1. Advance(s, [sess[s] EXCEPT !.scheme = env.inner]) /\ Continue
        BY <1>16, <2>2 DEF NegotiateTightAuth
      <3> QED BY <3>1, <1>3, <1>15
    <2>3. CASE env.inner \notin {"none", "vncauth", "unixlogon"}
      BY <1>16, <2>3, <1>4 DEF NegotiateTightAuth
    <2> QED BY <2>1, <2>2, <2>3
  <1>17. CASE NegotiateVeNCryptAuth(s)
    BY <1>17, <1>3, <1>4, <1>15 DEF NegotiateVeNCryptAuth
  <1>18. CASE HandleSecurityResult(s)
    BY <1>18, <1>2, <1>5, <1>7 DEF HandleSecurityResult
  <1>19. CASE HandleSecurityReason(s)
    BY <1>19, <1>5 DEF HandleSecurityReason
  <1>20. CASE ClientInitialisation(s)
    BY <1>20, <1>2, <1>7 DEF ClientInitialisation
  <1>21. CASE NegotiateServerInit(s)
    <2>1. sess' \in [Sessions -> SessionRecords] /\ sess'[s].conn = "connected"
          /\ \A t \in Sessions \ {s} : sess'[t] = sess[t]
      BY <1>1, <1>21 DEF NegotiateServerInit, SessionRecords, ConnStates
    <2>2. page' \in Pages
      <3>1. NotifyUp(page, s) \in Pages
        BY <1>1, PageFacts
      <3> QED BY <1>1, <1>21, <3>1 DEF NegotiateServerInit, ConnectEvent, Pages
    <2>3. Live(s) /\ UNCHANGED <<rfb, stale>>
      BY <1>21 DEF NegotiateServerInit, Live
    <2>4. CurrentIsLive' /\ LiveIsCurrent'
      BY <1>1, <2>1, <2>3 DEF IInv, TypeOK, CurrentIsLive, LiveIsCurrent, Live, Sessions
    <2>5. running' \in 0 .. MaxSessions /\ once' \in BOOLEAN
      BY <1>1, <1>21, LoopFacts DEF NegotiateServerInit
    <2> QED BY <1>21, <2>1, <2>2, <2>4, <2>5 DEF NegotiateServerInit, IInv, TypeOK
  <1> QED
    BY <1>8, <1>9, <1>10, <1>11, <1>12, <1>13, <1>14, <1>16, <1>17, <1>18, <1>19,
       <1>20, <1>21
    DEF InitStep

-----------------------------------------------------------------------------
LEMMA InitIInv == Init => IInv
  <1> SUFFICES ASSUME Init PROVE IInv
    OBVIOUS
  <1>1. Unborn \in SessionRecords /\ NoPage \in Pages
    BY BoundsAssumption
    DEF Unborn, NoPage, SessionRecords, Pages, ConnStates, InitStates, Schemes
  <1>2. TypeOK
    <2>1. sess \in [Sessions -> SessionRecords] /\ page \in Pages /\ env \in Environments
      BY <1>1 DEF Init
    <2>2. 0 \in 0 .. MaxSessions /\ 0 \in 0 .. MaxVisits
      BY BoundsAssumption
    <2>3. once \in BOOLEAN /\ stale \in BOOLEAN
      BY DEF Init
    <2> QED BY <2>1, <2>2, <2>3 DEF Init, TypeOK
  <1>3. CurrentIsLive
    BY DEF Init, CurrentIsLive
  <1>4. LiveIsCurrent
    BY DEF Init, LiveIsCurrent, Live, Unborn
  <1> QED BY <1>2, <1>3, <1>4 DEF IInv

LEMMA NextIInv == IInv /\ [Next]_vars => IInv'
  <1> SUFFICES ASSUME IInv, [Next]_vars PROVE IInv'
    OBVIOUS
  <1>1. CASE User
    BY <1>1, UserKeeps
  <1>2. ASSUME NEW s \in Sessions,
               Network(s) \/ DisconnTimeout(s) \/ ResumeAuthentication(s) \/ InitStep(s)
        PROVE  IInv'
    BY <1>2, NetworkKeeps, InitStepKeeps
  <1>3. CASE UNCHANGED vars
    BY <1>3 DEF vars, IInv, TypeOK, CurrentIsLive, LiveIsCurrent, Live
  <1> QED BY <1>1, <1>2, <1>3 DEF Next

\* Whatever the server, the proxy, the network and the user do, the state of
\* the remote control stays within its types.
THEOREM TypeCorrect == Spec => []TypeOK
  <1>1. IInv => TypeOK
    BY DEF IInv
  <1> QED BY <1>1, InitIInv, NextIInv, PTL DEF Spec

\* The script's rfb is null or a session that is connecting or connected
\* (vnc-interop.js:46): disconnectVnc and connectVnc always disconnect
\* something that then reports its end.
THEOREM CurrentSessionIsLive == Spec => []CurrentIsLive
  <1>1. IInv => CurrentIsLive
    BY DEF IInv
  <1> QED BY <1>1, InitIInv, NextIInv, PTL DEF Spec

\* A session can live on out of reach only through the disconnect listener of
\* an earlier one (vnc-interop.js:127): there is no other way.
THEOREM OnlyStaleEventsOrphan == Spec => []LiveIsCurrent
  <1>1. IInv => LiveIsCurrent
    BY DEF IInv
  <1> QED BY <1>1, InitIInv, NextIInv, PTL DEF Spec

-----------------------------------------------------------------------------
(***************************************************************************)
(* What the page shows and where the password goes: the screen is shown    *)
(* exactly while the page's own session is connected, and the password     *)
(* reaches only a session that has asked for it.  Both hold until a late   *)
(* disconnect event has cleared the rfb of another session ("stale"), and  *)
(* both need the same invariant.                                           *)
(***************************************************************************)

\* Asked for what the branch does not have: it waits until the other side
\* gives up, behind a page that offers the Connect button again.
Stuck(r) ==
  /\ r.init = "Authentication" /\ r.scheme \in UserSchemes \cup {"vncauth"}
  /\ env.password = "none"

SessionInv(r) ==
  /\ r.sock = "connecting" => r.init = ""
  /\ r.conn = "connected" => r.init = "ServerInitialisation"
  /\ r.resume => /\ r.init = "Authentication"
                 /\ r.input \/ r.scheme \in UserSchemes \ {"mslogon"}
  /\ env.password = "none" => ~r.creds /\ ~r.resume
  /\ r.owner <= visits

ResumeInv == \A s \in Sessions : sess[s].resume => rfb \in {0, s}

\* The session whose message is handled has no timer set and is not connected.
LoopInv ==
  running # 0 =>
    /\ rfb \in {0, running}
    /\ ~sess[running].resume
    /\ sess[running].conn # "connected"

OwnScreen == rfb # 0 /\ sess[rfb].conn = "connected" /\ sess[rfb].owner = page.number

\* The Connect button is visible beside an own session only if that is stuck.
ShowInv ==
  page.number # 0 =>
    /\ page.screen <=> OwnScreen
    /\ page.placeholder /\ rfb # 0 => sess[rfb].owner # page.number \/ Stuck(sess[rfb])

Undisturbed ==
  /\ \A s \in Sessions : SessionInv(sess[s])
  /\ ResumeInv /\ LoopInv /\ page.number <= visits /\ ShowInv

\* What is inductive together with IInv.
PageInv == ~stale => Undisturbed

-----------------------------------------------------------------------------
\* While nothing is stale a live session is the script's rfb.
LEMMA LiveIsRfb ==
  ASSUME IInv, ~stale, NEW s \in Sessions, sess[s].conn \in {"connecting", "connected"}
  PROVE  rfb = s
  BY DEF IInv, LiveIsCurrent, Live

LEMMA NumberFacts ==
  ASSUME TypeOK
  PROVE  /\ visits \in Nat /\ page.number \in Nat /\ rfb \in Nat /\ running \in Nat
         /\ created \in Nat
         /\ page.screen \in BOOLEAN /\ page.placeholder \in BOOLEAN
         /\ \A s \in Sessions : s # 0 /\ sess[s] \in SessionRecords /\ sess[s].owner \in Nat
         /\ rfb # 0 => rfb \in Sessions
         /\ running # 0 => running \in Sessions
  BY BoundsAssumption DEF TypeOK, Sessions, SessionRecords, Pages

\* The parts of the page that the invariant looks at.
SameView(p, q) ==
  p.number = q.number /\ p.screen = q.screen /\ p.placeholder = q.placeholder

\* A step of one session that keeps its connection, its owner and what the
\* page shows.
LEMMA OneSession ==
  ASSUME IInv, Undisturbed, NEW s \in Sessions, NEW r \in SessionRecords,
         sess' = [sess EXCEPT ![s] = r], UNCHANGED <<env, rfb, visits>>,
         SameView(page', page),
         r.conn = sess[s].conn, r.owner = sess[s].owner, SessionInv(r),
         r.resume => rfb \in {0, s},
         Stuck(sess[s]) => Stuck(r),
         LoopInv'
  PROVE  Undisturbed'
  <1>1. sess \in [Sessions -> SessionRecords] /\ rfb \in 0 .. MaxSessions
    BY DEF IInv, TypeOK
  <1>2. sess'[s] = r /\ \A t \in Sessions \ {s} : sess'[t] = sess[t]
    BY <1>1
  <1>3. \A t \in Sessions : SessionInv(sess[t])'
    BY ZenonT(40), <1>2 DEF Undisturbed, SessionInv
  <1>4. ResumeInv'
    BY <1>2 DEF Undisturbed, ResumeInv
  <1>5. page'.number <= visits'
    BY DEF Undisturbed, SameView
  <1>6. ShowInv'
    <2> SUFFICES ASSUME page'.number # 0 PROVE ShowInv'
      BY DEF ShowInv
    <2>1. /\ page.screen <=> OwnScreen
          /\ page.placeholder /\ rfb # 0 =>
               sess[rfb].owner # page.number \/ Stuck(sess[rfb])
      BY DEF Undisturbed, ShowInv, SameView
    <2>2. \A t \in Sessions : sess'[t].conn = sess[t].conn /\ sess'[t].owner = sess[t].owner
      BY <1>2
    <2>3. \A t \in Sessions : Stuck(sess[t]) => Stuck(sess[t])'
      BY <1>2 DEF Stuck
    <2>4. rfb # 0 => rfb \in Sessions
      BY <1>1 DEF Sessions
    <2>5. OwnScreen' <=> OwnScreen
      BY <2>2, <2>4 DEF OwnScreen, SameView
    <2>6. page'.placeholder /\ rfb' # 0 =>
            sess'[rfb'].owner # page'.number \/ Stuck(sess[rfb])'
      BY <2>1, <2>2, <2>3, <2>4 DEF SameView
    <2> QED BY <2>1, <2>5, <2>6 DEF ShowInv, SameView
  <1> QED BY <1>3, <1>4, <1>5, <1>6 DEF Undisturbed

\* A step that leaves no rfb behind and no screen.
LEMMA NoRfb ==
  ASSUME IInv, Undisturbed, UNCHANGED <<env, visits>>, rfb' = 0,
         page'.number \in {0, page.number}, page'.number # 0 => ~page'.screen,
         running' = 0, \A t \in Sessions : SessionInv(sess[t])'
  PROVE  Undisturbed'
  <1>1. page'.number <= visits'
    BY NumberFacts DEF Undisturbed, IInv
  <1>2. ResumeInv' /\ LoopInv'
    BY DEF ResumeInv, LoopInv
  <1>3. ShowInv'
    BY DEF ShowInv, OwnScreen
  <1> QED BY <1>1, <1>2, <1>3 DEF Undisturbed

\* What a disconnect makes of a record.
LEMMA EndingRecord ==
  ASSUME NEW r \in SessionRecords, SessionInv(r)
  PROVE  /\ SessionInv(Disconnecting(r))
         /\ SessionInv([Disconnecting(r) EXCEPT !.conn = "disconnected"])
         /\ SessionInv([r EXCEPT !.conn = "disconnected"])
         /\ SessionInv([r EXCEPT !.sock = "closed", !.conn = "disconnected"])
  BY DEF SessionInv, Disconnecting, ClosedSock, SessionRecords

\* The disconnect event of a session that has just ended.
LEMMA EndedUndisturbed ==
  ASSUME IInv, Undisturbed, NEW s \in Sessions, NEW r \in SessionRecords, NEW p \in Pages,
         p.number = page.number, SessionInv(r),
         sess' = [sess EXCEPT ![s] = r], UNCHANGED <<env, visits>>, running' = 0,
         DisconnectEvent(p, s)
  PROVE  Undisturbed'
  <1>1. sess \in [Sessions -> SessionRecords]
    BY DEF IInv, TypeOK
  <1>2. \A t \in Sessions : SessionInv(sess[t])'
    BY <1>1 DEF Undisturbed, SessionInv
  <1>3. rfb' = 0 /\ page' = NotifyDown(ResetScreenEvent(p), s)
    BY DEF DisconnectEvent
  <1>4. page'.number = page.number /\ (page'.number # 0 => ~page'.screen)
    BY <1>3 DEF NotifyDown, ResetScreenEvent, Pages
  <1> QED BY <1>2, <1>3, <1>4, NoRfb

\* rfb.disconnect() and rfb = null.
LEMMA DisconnectVncRecords ==
  ASSUME IInv, Undisturbed, DisconnectVnc, UNCHANGED <<env, visits>>
  PROVE  rfb' = 0 /\ \A t \in Sessions : SessionInv(sess[t])'
  <1>1. sess \in [Sessions -> SessionRecords] /\ rfb \in 0 .. MaxSessions
    BY DEF IInv, TypeOK
  <1>2. CASE rfb = 0
    BY <1>2 DEF DisconnectVnc, Undisturbed, SessionInv
  <1>3. CASE rfb # 0
    <2>1. rfb \in Sessions
      BY <1>1, <1>3 DEF Sessions
    <2>2. sess' = [sess EXCEPT ![rfb] = Disconnecting(sess[rfb])] /\ rfb' = 0
      BY <1>3 DEF DisconnectVnc, DisconnectRfb
    <2>3. SessionInv(Disconnecting(sess[rfb])) /\ \A t \in Sessions : SessionInv(sess[t])
      BY <1>1, <2>1, EndingRecord DEF Undisturbed
    <2> QED BY <1>1, <2>1, <2>2, <2>3 DEF SessionInv
  <1> QED BY <1>2, <1>3

-----------------------------------------------------------------------------
\* What the user does: with the Connect button visible, no own session is
\* connected, and no timer of an earlier session is pending.
LEMMA UserUndisturbed ==
  ASSUME IInv, Undisturbed, User
  PROVE  Undisturbed'
  <1>1. TypeOK /\ sess \in [Sessions -> SessionRecords] /\ page \in Pages
    BY DEF IInv, TypeOK
  <1>2. CASE OpenPage
    <2>1. page' = [NoPage EXCEPT !.number = visits + 1, !.placeholder = TRUE]
          /\ visits' = visits + 1 /\ UNCHANGED <<env, sess, rfb, running>> /\ running = 0
      BY <1>2 DEF OpenPage, Idle
    <2>2. page'.number = visits + 1 /\ ~page'.screen
      BY <2>1 DEF NoPage
    <2>0. visits \in Nat /\ \A t \in Sessions : sess[t].owner \in Nat
      BY <1>1, NumberFacts
    <2>4. \A t \in Sessions : sess[t].owner <= visits + 1 /\ sess[t].owner # visits + 1
      <3>1. \A t \in Sessions : sess[t].owner <= visits
        BY DEF Undisturbed, SessionInv
      <3> QED BY <2>0, <3>1
    <2>3. \A t \in Sessions : SessionInv(sess[t])'
      BY <2>1, <2>4 DEF Undisturbed, SessionInv
    <2>5. ShowInv'
      BY <1>1, <2>1, <2>2, <2>4, NumberFacts DEF ShowInv, OwnScreen
    <2>6. ResumeInv' /\ LoopInv' /\ page'.number <= visits'
      BY <1>1, <2>1, <2>2, NumberFacts DEF Undisturbed, ResumeInv, LoopInv
    <2> QED BY <2>3, <2>5, <2>6 DEF Undisturbed
  <1>3. CASE LeavePage
    <2>1. page'.number = 0 /\ page' = NoPage /\ running' = 0 /\ UNCHANGED <<env, visits>>
      BY <1>3 DEF LeavePage, NoPage, Idle
    <2>2. CASE page.locked
      <3>1. UNCHANGED <<sess, rfb, running>>
        BY <1>3, <2>2 DEF LeavePage
      <3>2. \A t \in Sessions : SessionInv(sess[t])'
        BY <2>1, <3>1 DEF Undisturbed, SessionInv
      <3>3. page'.number <= visits'
        BY <1>1, <2>1, NumberFacts
      <3>4. ResumeInv' /\ LoopInv' /\ ShowInv'
        BY <2>1, <3>1 DEF Undisturbed, ResumeInv, LoopInv, ShowInv
      <3> QED BY <3>2, <3>3, <3>4 DEF Undisturbed
    <2>3. CASE ~page.locked
      <3>1. DisconnectVnc
        BY <1>3, <2>3 DEF LeavePage
      <3> QED BY <2>1, <3>1, DisconnectVncRecords, NoRfb
    <2> QED BY <2>2, <2>3
  <1>4. CASE Disconnect
    <2>1. DisconnectVnc /\ running' = 0 /\ UNCHANGED <<env, visits>>
      BY <1>4 DEF Disconnect, Idle
    <2>2. page'.number = page.number /\ ~page'.screen
      BY <1>1, <1>4 DEF Disconnect, ResetScreen, Pages
    <2> QED BY <2>1, <2>2, DisconnectVncRecords, NoRfb
  <1>5. CASE ConnectReplaces
    <2>1. DisconnectVnc /\ running' = 0 /\ UNCHANGED <<env, visits>>
      BY <1>5 DEF ConnectReplaces, CanConnect, DisconnectVnc, Idle
    <2>2. rfb # 0 /\ page.number # 0 /\ page.placeholder /\ rfb \in Sessions
      BY <1>1, <1>5, NumberFacts DEF ConnectReplaces, CanConnect
    <2>3. sess[rfb].owner # page.number \/ Stuck(sess[rfb])
      BY <2>2 DEF Undisturbed, ShowInv
    <2>4. ~OwnScreen
      BY <2>2, <2>3 DEF OwnScreen, Stuck, Undisturbed, SessionInv
    <2>5. ~page.screen
      BY <1>1, <2>2, <2>4, NumberFacts DEF Undisturbed, ShowInv
    <2>6. page'.number = page.number /\ ~page'.screen
      BY <1>1, <1>5, <2>5 DEF ConnectReplaces, Spinner, Pages
    <2> QED BY <2>1, <2>6, DisconnectVncRecords, NoRfb
  <1>6. CASE ConnectVnc
    <2> DEFINE n == created + 1
    <2>1. n \in Sessions /\ rfb = 0 /\ rfb' = n /\ sess' = [sess EXCEPT ![n] = NewSession]
          /\ UNCHANGED <<env, visits, running>> /\ running = 0 /\ page.number # 0
          /\ \A t \in Sessions : ~sess[t].resume
      BY <1>1, <1>6, EnvFacts, NumberFacts, BoundsAssumption
      DEF ConnectVnc, CanConnect, Idle, Sessions
    <2>2. page'.number = page.number /\ page'.screen = page.screen /\ ~page'.placeholder
      BY <1>1, <1>6 DEF ConnectVnc, Spinner, Pages
    <2> HIDE DEF n
    <2>3. sess'[n] = NewSession /\ \A t \in Sessions \ {n} : sess'[t] = sess[t]
      BY <1>1, <2>1
    <2>4. SessionInv(NewSession)
      BY DEF SessionInv, NewSession, Unborn, Undisturbed
    <2>5. \A t \in Sessions : SessionInv(sess[t])'
      BY <2>1, <2>3, <2>4 DEF Undisturbed, SessionInv
    <2>6. ~NewSession.resume /\ NewSession.conn = "connecting"
      BY DEF NewSession, Unborn
    <2>7. ResumeInv' /\ LoopInv'
      BY <2>1, <2>3, <2>6 DEF ResumeInv, LoopInv
    <2>8. ~page.screen
      BY <1>1, <2>1, NumberFacts DEF Undisturbed, ShowInv, OwnScreen
    <2>9. ShowInv'
      BY <2>1, <2>2, <2>3, <2>6, <2>8 DEF ShowInv, OwnScreen
    <2> QED BY <2>1, <2>2, <2>5, <2>7, <2>9 DEF Undisturbed
  <1>7. CASE ConnectThrows
    <2>1. UNCHANGED <<env, sess, rfb, visits, running>> /\ running = 0 /\ rfb = 0
      BY <1>7 DEF ConnectThrows, CanConnect, Idle
    <2>2. page'.number = page.number /\ ~page'.screen
      BY <1>1, <1>7 DEF ConnectThrows, CanConnect, Spinner, ResetScreen, Pages
    <2>3. \A t \in Sessions : SessionInv(sess[t])'
      BY <2>1 DEF Undisturbed, SessionInv
    <2> QED BY <2>1, <2>2, <2>3, NoRfb
  <1> QED BY <1>2, <1>3, <1>4, <1>5, <1>6, <1>7 DEF User

-----------------------------------------------------------------------------
\* What the network and the timers do.
LEMMA NetworkUndisturbed ==
  ASSUME IInv, Undisturbed, ~stale, NEW s \in Sessions,
         Network(s) \/ DisconnTimeout(s) \/ ResumeAuthentication(s)
  PROVE  Undisturbed'
  <1>1. TypeOK /\ sess \in [Sessions -> SessionRecords] /\ sess[s] \in SessionRecords
        /\ page \in Pages /\ s # 0
    BY NumberFacts DEF IInv, TypeOK
  <1>2. SessionInv(sess[s]) /\ (sess[s].resume => rfb \in {0, s})
    BY DEF Undisturbed, ResumeInv
  <1>3. ASSUME NEW from, NEW to \in {"relaying", "ended"}, ProxyStep(s, from, to)
        PROVE  Undisturbed'
    <2> DEFINE r == [sess[s] EXCEPT !.proxy = to]
    <2>1. r \in SessionRecords /\ r.conn = sess[s].conn /\ r.owner = sess[s].owner
          /\ r.resume = sess[s].resume
      BY <1>1 DEF SessionRecords
    <2>2. SessionInv(r) /\ (Stuck(sess[s]) => Stuck(r))
      BY <1>1, <1>2 DEF SessionInv, Stuck, SessionRecords
    <2>3. sess' = [sess EXCEPT ![s] = r]
      BY <1>1, <1>3 DEF ProxyStep
    <2> HIDE DEF r
    <2>4. SameView(page', page) /\ LoopInv' /\ UNCHANGED <<env, rfb, visits>>
      BY <1>3 DEF ProxyStep, SameView, LoopInv, Idle
    <2> QED BY <1>2, <2>1, <2>2, <2>3, <2>4, OneSession
  <1>4. CASE SocketOpen(s)
    <2> DEFINE r == [sess[s] EXCEPT !.sock = "open", !.proxy = "dialing",
                                    !.init = "ProtocolVersion"]
    <2>1. r \in SessionRecords /\ r.conn = sess[s].conn /\ r.owner = sess[s].owner
          /\ r.resume = sess[s].resume
      BY <1>1 DEF SessionRecords, InitStates
    <2>2. sess[s].init = ""
      BY <1>2, <1>4 DEF SocketOpen, SessionInv
    <2>3. SessionInv(r) /\ ~Stuck(sess[s])
      BY <1>1, <1>2, <2>2 DEF SessionInv, Stuck, SessionRecords
    <2>4. sess' = [sess EXCEPT ![s] = r]
      BY <1>1, <1>4 DEF SocketOpen, SessionRecords
    <2> HIDE DEF r
    <2>5. SameView(page', page) /\ LoopInv' /\ UNCHANGED <<env, rfb, visits>>
      BY <1>4 DEF SocketOpen, SameView, LoopInv, Idle
    <2> QED BY <1>2, <2>1, <2>3, <2>4, <2>5, OneSession
  <1>5. CASE SocketClose(s)
    <2> DEFINE r == [sess[s] EXCEPT !.sock = "closed", !.conn = "disconnected"]
    <2>1. r \in SessionRecords
      BY <1>1 DEF SessionRecords, ConnStates
    <2>2. sess' = [sess EXCEPT ![s] = r] /\ DisconnectEvent(page, s)
      BY <1>1, <1>5 DEF SocketClose, SessionRecords
    <2>3. SessionInv(r)
      BY <1>1, <1>2, EndingRecord
    <2> HIDE DEF r
    <2>4. running' = 0 /\ UNCHANGED <<env, visits>>
      BY <1>5 DEF SocketClose, Idle
    <2> QED BY <1>1, <2>1, <2>2, <2>3, <2>4, EndedUndisturbed
  <1>6. CASE Receive(s)
    <2> DEFINE r == [sess[s] EXCEPT !.input = TRUE]
    <2>1. r \in SessionRecords /\ r.conn = sess[s].conn /\ r.owner = sess[s].owner
          /\ r.resume = sess[s].resume
      BY <1>1 DEF SessionRecords
    <2>2. SessionInv(r) /\ (Stuck(sess[s]) => Stuck(r))
      BY <1>1, <1>2 DEF SessionInv, Stuck, SessionRecords
    <2>3. sess' = [sess EXCEPT ![s] = r] /\ sess'[s] = r
      BY <1>1, <1>6 DEF Receive
    <2> HIDE DEF r
    <2>4. ~sess[s].resume
      BY <1>2, <1>6 DEF Receive, Silent, SessionInv
    <2>5. rfb = s /\ sess[s].conn = "connecting"
      BY <1>6, LiveIsRfb DEF Receive
    <2>6. SameView(page', page) /\ UNCHANGED <<env, rfb, visits>> /\ running' = s
      BY <1>6 DEF Receive, SameView
    <2>7. LoopInv'
      BY <2>1, <2>3, <2>4, <2>5, <2>6 DEF LoopInv
    <2> QED BY <1>2, <2>1, <2>2, <2>3, <2>6, <2>7, OneSession
  <1>7. CASE Notice(s)
    <2>1. SameView(page', page) /\ UNCHANGED <<env, sess, rfb, visits>>
      BY <1>1, <1>7 DEF Notice, NotifyUp, SameView, Pages
    <2>2. LoopInv'
      BY <1>7 DEF Notice, LoopInv, Idle
    <2>3. sess' = [sess EXCEPT ![s] = sess[s]]
      BY <1>1, <2>1
    <2> QED BY <1>1, <1>2, <2>1, <2>2, <2>3, OneSession
  <1>8. CASE DisconnTimeout(s)
    <2> DEFINE r == [sess[s] EXCEPT !.conn = "disconnected"]
    <2>1. r \in SessionRecords
      BY <1>1 DEF SessionRecords, ConnStates
    <2>2. sess' = [sess EXCEPT ![s] = r] /\ DisconnectEvent(page, s)
      BY <1>1, <1>8 DEF DisconnTimeout
    <2>3. SessionInv(r)
      BY <1>1, <1>2, EndingRecord
    <2> HIDE DEF r
    <2>4. running' = 0 /\ UNCHANGED <<env, visits>>
      BY <1>8 DEF DisconnTimeout, Idle
    <2> QED BY <1>1, <2>1, <2>2, <2>3, <2>4, EndedUndisturbed
  <1>9. CASE ResumeAuthentication(s)
    <2> DEFINE r == [sess[s] EXCEPT !.resume = FALSE]
    <2>1. r \in SessionRecords /\ r.conn = sess[s].conn /\ r.owner = sess[s].owner
          /\ ~r.resume
      BY <1>1 DEF SessionRecords
    <2>2. SessionInv(r) /\ (Stuck(sess[s]) => Stuck(r))
      BY <1>1, <1>2 DEF SessionInv, Stuck, SessionRecords
    <2>3. sess' = [sess EXCEPT ![s] = r] /\ sess'[s] = r
      BY <1>1, <1>9 DEF ResumeAuthentication
    <2> HIDE DEF r
    <2>4. sess[s].resume /\ sess[s].conn # "connected" /\ rfb \in {0, s}
      BY <1>2, <1>9 DEF ResumeAuthentication, SessionInv
    <2>5. SameView(page', page) /\ UNCHANGED <<env, rfb, visits>> /\ running' = s
      BY <1>9 DEF ResumeAuthentication, SameView
    <2>6. LoopInv'
      BY <2>1, <2>3, <2>4, <2>5 DEF LoopInv
    <2> QED BY <1>2, <2>1, <2>2, <2>3, <2>5, <2>6, OneSession
  <1> QED
    BY <1>3, <1>4, <1>5, <1>6, <1>7, <1>8, <1>9 DEF Network, ProxyDials, ProxyEnds

-----------------------------------------------------------------------------
\* A case of _initMsg that goes on; a session that is stuck does not.
LEMMA AdvanceUndisturbed ==
  ASSUME IInv, Undisturbed, NEW s \in Sessions, running = s, sess[s].init # "",
         ~Stuck(sess[s]), NEW i \in InitStates, NEW c \in Schemes,
         Advance(s, [sess[s] EXCEPT !.init = i, !.scheme = c]), Continue \/ Return
  PROVE  Undisturbed'
  <1> DEFINE r == [sess[s] EXCEPT !.init = i, !.scheme = c, !.input = FALSE]
  <1>1. TypeOK /\ sess \in [Sessions -> SessionRecords] /\ sess[s] \in SessionRecords /\ s # 0
    BY NumberFacts DEF IInv, TypeOK
  <1>2. r \in SessionRecords /\ r.conn = sess[s].conn /\ r.owner = sess[s].owner
        /\ r.resume = sess[s].resume
    BY <1>1 DEF SessionRecords
  <1>3. ~sess[s].resume /\ sess[s].conn # "connected" /\ rfb \in {0, s}
        /\ SessionInv(sess[s])
    BY <1>1 DEF Undisturbed, LoopInv
  <1>4. SessionInv(r)
    BY <1>1, <1>3 DEF SessionInv, SessionRecords
  <1>5. sess' = [sess EXCEPT ![s] = r] /\ UNCHANGED <<env, rfb, visits>>
        /\ SameView(page', page)
    BY <1>1 DEF Advance, SameView
  <1> HIDE DEF r
  <1>6. sess'[s] = r /\ running' \in {0, s}
    BY <1>1, <1>5 DEF Continue, Return
  <1>7. LoopInv'
    BY <1>2, <1>3, <1>5, <1>6 DEF LoopInv
  <1> QED BY <1>2, <1>3, <1>4, <1>5, <1>7, OneSession

\* _fail; what was not connected before shows no screen after.
LEMMA FailingUndisturbed ==
  ASSUME IInv, Undisturbed, NEW s \in Sessions, running = s, NEW p \in Pages,
         p.number = page.number, page.number # 0 /\ p.screen => page.screen, Failing(s, p)
  PROVE  Undisturbed'
  <1>1. TypeOK /\ sess \in [Sessions -> SessionRecords] /\ sess[s] \in SessionRecords
        /\ s # 0 /\ SessionInv(sess[s])
    BY NumberFacts DEF IInv, TypeOK, Undisturbed
  <1>2. UNCHANGED <<env, visits>> /\ running' = 0 /\ Fail(s, p)
    BY DEF Failing, Return
  <1>3. CASE sess[s].conn = "disconnected"
    <2>1. page' = p /\ UNCHANGED <<sess, rfb>>
      BY <1>2, <1>3 DEF Fail
    <2>2. rfb = 0
      BY <1>1, <1>3 DEF Undisturbed, LoopInv, IInv, CurrentIsLive, Live
    <2>3. page'.number # 0 => ~page'.screen
      BY <1>1, <2>1, <2>2, NumberFacts DEF Undisturbed, ShowInv, OwnScreen, Pages
    <2>4. \A t \in Sessions : SessionInv(sess[t])'
      BY <1>2, <2>1 DEF Undisturbed, SessionInv
    <2> QED BY <1>2, <2>1, <2>2, <2>3, <2>4, NoRfb
  <1>4. CASE sess[s].conn # "disconnected"
    <2> DEFINE r == [Disconnecting(sess[s]) EXCEPT !.conn = "disconnected"]
    <2>1. r \in SessionRecords /\ SessionInv(r)
      BY <1>1, RecordFacts, EndingRecord
    <2>2. sess' = [sess EXCEPT ![s] = r] /\ DisconnectEvent(p, s)
      BY <1>2, <1>4 DEF Fail
    <2> HIDE DEF r
    <2> QED BY <1>2, <2>1, <2>2, EndedUndisturbed
  <1> QED BY <1>3, <1>4

\* The listener answers rfb, which is the session that asks or null.
LEMMA CredentialsUndisturbed ==
  ASSUME IInv, Undisturbed, NEW s \in Sessions, running = s,
         sess[s].init = "Authentication", sess[s].scheme \in UserSchemes \cup {"vncauth"},
         sess[s].input \/ sess[s].scheme \in UserSchemes \ {"mslogon"},
         CredentialsRequired(s)
  PROVE  Undisturbed'
  <1>1. TypeOK /\ sess \in [Sessions -> SessionRecords] /\ sess[s] \in SessionRecords
        /\ page \in Pages /\ s # 0 /\ SessionInv(sess[s])
    BY NumberFacts DEF IInv, TypeOK, Undisturbed
  <1>2. rfb \in {0, s} /\ sess[s].conn # "connected" /\ ~sess[s].resume
    BY <1>1 DEF Undisturbed, LoopInv
  <1>3. UNCHANGED <<env, rfb, visits>> /\ running' = 0
    BY DEF CredentialsRequired, Return
  <1>4. LoopInv'
    BY <1>3 DEF LoopInv
  <1>5. CASE env.password = "none"
    <2>1. page' = NotifyDown(ResetScreenEvent(page), s) /\ sess' = sess
      BY <1>5 DEF CredentialsRequired
    <2>2. page'.number = page.number /\ (page.number # 0 => ~page'.screen)
      BY <1>1, <2>1 DEF NotifyDown, ResetScreenEvent, Pages
    <2>3. Stuck(sess[s])
      BY <1>5 DEF Stuck
    <2>4. ShowInv'
      BY <1>1, <1>2, <1>3, <2>1, <2>2, <2>3 DEF ShowInv, OwnScreen, Stuck
    <2>5. \A t \in Sessions : SessionInv(sess[t])'
      BY <1>3, <2>1 DEF Undisturbed, SessionInv
    <2>6. ResumeInv' /\ page'.number <= visits'
      BY <1>3, <2>1, <2>2 DEF Undisturbed, ResumeInv
    <2> QED BY <1>4, <2>4, <2>5, <2>6 DEF Undisturbed
  <1>6. CASE env.password # "none" /\ rfb = 0
    <2>1. page' = page /\ sess' = sess /\ SameView(page', page)
      BY <1>6 DEF CredentialsRequired, SameView
    <2>2. sess' = [sess EXCEPT ![s] = sess[s]]
      BY <1>1, <2>1
    <2> QED BY <1>1, <1>2, <1>3, <1>4, <2>1, <2>2, OneSession
  <1>7. CASE env.password # "none" /\ rfb = s
    <2> DEFINE r == [sess[s] EXCEPT !.creds = TRUE, !.resume = TRUE]
    <2>1. SameView(page', page) /\ sess' = [sess EXCEPT ![s] = r]
      BY <1>1, <1>7 DEF CredentialsRequired, SameView
    <2>2. r \in SessionRecords /\ r.conn = sess[s].conn /\ r.owner = sess[s].owner
      BY <1>1 DEF SessionRecords
    <2>3. SessionInv(r) /\ ~Stuck(sess[s])
      BY <1>1, <1>7 DEF SessionInv, SessionRecords, Stuck
    <2> HIDE DEF r
    <2> QED BY <1>2, <1>3, <1>4, <2>1, <2>2, <2>3, OneSession
  <1> QED BY <1>2, <1>5, <1>6, <1>7

\* Every case of _initMsg.
LEMMA InitStepUndisturbed ==
  ASSUME IInv, Undisturbed, ~stale, NEW s \in Sessions, InitStep(s)
  PROVE  Undisturbed'
  <1>1. TypeOK /\ sess \in [Sessions -> SessionRecords] /\ sess[s] \in SessionRecords
        /\ page \in Pages /\ env \in Surroundings /\ s # 0 /\ SessionInv(sess[s])
    BY NumberFacts, EnvFacts DEF IInv, TypeOK, Undisturbed
  <1>2. running = s
    BY DEF InitStep, InitMsgWaits, InitMsg, Authenticates, NegotiateProtocolVersion,
           NegotiateSecurity, NoAuthentication, UnsupportedScheme, NegotiateStdVNCAuth,
           NegotiateXvpAuth, NegotiatePlainAuth, NegotiateARDAuth, NegotiateTightUnixAuth,
           NegotiateMSLogonIIAuth, NegotiateTightAuth, NegotiateVeNCryptAuth,
           NegotiateRA2neAuth, HandleSecurityResult, HandleSecurityReason,
           ClientInitialisation, NegotiateServerInit, UnknownInitState
  <1>3. ASSUME NEW i \in InitStates, Advance(s, [sess[s] EXCEPT !.init = i]),
               Continue \/ Return, sess[s].init # "", ~Stuck(sess[s])
        PROVE  Undisturbed'
    <2>1. [sess[s] EXCEPT !.init = i] = [sess[s] EXCEPT !.init = i, !.scheme = sess[s].scheme]
          /\ sess[s].scheme \in Schemes
      BY <1>1 DEF SessionRecords
    <2> QED BY <1>2, <1>3, <2>1, AdvanceUndisturbed
  <1>4. ASSUME NEW c \in Schemes, Advance(s, [sess[s] EXCEPT !.scheme = c]),
               Continue \/ Return, sess[s].init # "", ~Stuck(sess[s])
        PROVE  Undisturbed'
    <2>1. [sess[s] EXCEPT !.scheme = c] = [sess[s] EXCEPT !.init = sess[s].init, !.scheme = c]
          /\ sess[s].init \in InitStates
      BY <1>1 DEF SessionRecords
    <2> QED BY <1>2, <1>4, <2>1, AdvanceUndisturbed
  <1>5. Failing(s, page) => Undisturbed'
    BY <1>1, <1>2, FailingUndisturbed
  <1>6. Failing(s, SecurityFailureEvent(page, s)) => Undisturbed'
    <2>1. SecurityFailureEvent(page, s).number = page.number
          /\ (page.number # 0 /\ SecurityFailureEvent(page, s).screen => page.screen)
      BY <1>1 DEF SecurityFailureEvent, NotifyDown, ResetScreenEvent, Pages
    <2> QED BY <1>1, <1>2, <2>1, SecurityFailurePage, FailingUndisturbed
  <1>7. "Security" \in InitStates /\ "SecurityReason" \in InitStates
        /\ "SecurityResult" \in InitStates /\ "ClientInitialisation" \in InitStates
        /\ "ServerInitialisation" \in InitStates /\ "Authentication" \in InitStates
    BY DEF InitStates
  <1>8. sess[s].init # "Authentication" => ~Stuck(sess[s])
    BY DEF Stuck
  <1>9. sess[s].scheme \in {"none", "tight", "vencrypt"} => ~Stuck(sess[s])
    BY DEF Stuck, UserSchemes
  <1>10. CASE InitMsgWaits(s)
    <2>1. UNCHANGED <<env, sess, rfb, page, visits>> /\ running' = 0
      BY <1>10 DEF InitMsgWaits, Return
    <2>2. LoopInv' /\ SameView(page', page) /\ sess' = [sess EXCEPT ![s] = sess[s]]
      BY <1>1, <2>1 DEF LoopInv, SameView
    <2>3. sess[s].resume => rfb \in {0, s}
      BY DEF Undisturbed, ResumeInv
    <2> QED BY <1>1, <2>1, <2>2, <2>3, OneSession
  <1>11. CASE NegotiateProtocolVersion(s)
    BY <1>11, <1>3, <1>5, <1>7, <1>8 DEF NegotiateProtocolVersion, InitMsg
  <1>12. CASE NegotiateSecurity(s)
    <2>0. sess[s].init = "Security"
      BY <1>12 DEF NegotiateSecurity, InitMsg
    <2>1. CASE env.scheme = "refused"
      <3>1. Advance(s, [sess[s] EXCEPT !.init = "SecurityReason"]) /\ Continue
        BY <1>12, <2>1 DEF NegotiateSecurity
      <3> QED BY <3>1, <2>0, <1>3, <1>7, <1>8
    <2>2. CASE env.scheme = "unsupported" /\ env.version >= 37
      BY <1>12, <2>2, <1>5 DEF NegotiateSecurity
    <2>3. CASE env.scheme # "refused" /\ ~(env.scheme = "unsupported" /\ env.version >= 37)
      <3>1. Advance(s, [sess[s] EXCEPT !.init = "Authentication", !.scheme = env.scheme])
            /\ Continue
        BY <1>12, <2>3 DEF NegotiateSecurity
      <3>2. env.scheme \in Schemes
        BY <1>1, <2>3 DEF Surroundings
      <3> QED BY <3>1, <3>2, <2>0, <1>2, <1>7, <1>8, AdvanceUndisturbed
    <2> QED BY <2>1, <2>2, <2>3
  <1>13. CASE NoAuthentication(s)
    <2>1. PICK i \in InitStates : Advance(s, [sess[s] EXCEPT !.init = i]) /\ Continue
      BY <1>13, <1>7 DEF NoAuthentication
    <2>2. sess[s].init = "Authentication" /\ sess[s].scheme = "none"
      BY <1>13 DEF NoAuthentication, Authenticates, InitMsg
    <2> QED BY <2>1, <2>2, <1>3, <1>9
  <1>14. CASE UnsupportedScheme(s) \/ NegotiateRA2neAuth(s) \/ UnknownInitState(s)
    BY <1>14, <1>5 DEF UnsupportedScheme, NegotiateRA2neAuth, UnknownInitState
  <1>15. CASE NegotiateStdVNCAuth(s)
    <2>1. sess[s].init = "Authentication" /\ sess[s].scheme = "vncauth" /\ sess[s].input
      BY <1>15 DEF NegotiateStdVNCAuth, Authenticates, InitMsg
    <2>2. CASE sess[s].creds
      <3>1. ~Stuck(sess[s])
        BY <1>1, <2>2 DEF SessionInv, Stuck
      <3> QED BY <1>15, <1>3, <1>7, <2>1, <2>2, <3>1 DEF NegotiateStdVNCAuth
    <2>3. CASE ~sess[s].creds
      <3>1. CredentialsRequired(s)
        BY <1>15, <2>3 DEF NegotiateStdVNCAuth
      <3> QED BY <1>2, <2>1, <3>1, CredentialsUndisturbed
    <2> QED BY <2>2, <2>3
  <1>16. CASE NegotiateXvpAuth(s) \/ NegotiatePlainAuth(s) \/ NegotiateARDAuth(s)
              \/ NegotiateTightUnixAuth(s)
    <2>1. sess[s].init = "Authentication" /\ sess[s].scheme \in UserSchemes \ {"mslogon"}
          /\ CredentialsRequired(s)
      BY <1>16 DEF NegotiateXvpAuth, NegotiatePlainAuth, NegotiateARDAuth,
                   NegotiateTightUnixAuth, Authenticates, InitMsg, UserSchemes
    <2> QED BY <1>2, <2>1, CredentialsUndisturbed
  <1>17. CASE NegotiateMSLogonIIAuth(s)
    <2>1. sess[s].init = "Authentication" /\ sess[s].scheme \in UserSchemes
          /\ sess[s].input /\ CredentialsRequired(s)
      BY <1>17 DEF NegotiateMSLogonIIAuth, Authenticates, InitMsg, UserSchemes
    <2> QED BY <1>2, <2>1, CredentialsUndisturbed
  <1>18. env.inner \in Schemes
    BY <1>1 DEF Surroundings
  <1>19. CASE NegotiateTightAuth(s)
    <2>1. sess[s].init = "Authentication" /\ sess[s].scheme = "tight"
      BY <1>19 DEF NegotiateTightAuth, Authenticates, InitMsg
    <2>2. CASE env.inner = "none"
      <3>1. Advance(s, [sess[s] EXCEPT !.init = "SecurityResult"]) /\ Continue
        BY <1>19, <2>2 DEF NegotiateTightAuth
      <3> QED BY <2>1, <3>1, <1>3, <1>7, <1>9
    <2>3. CASE env.inner \in {"vncauth", "unixlogon"}
      <3>1. Advance(s, [sess[s] EXCEPT !.scheme = env.inner]) /\ Continue
        BY <1>19, <2>3 DEF NegotiateTightAuth
      <3> QED BY <2>1, <3>1, <1>4, <1>9, <1>18
    <2>4. CASE env.inner \notin {"none", "vncauth", "unixlogon"}
      BY <1>19, <2>4, <1>5 DEF NegotiateTightAuth
    <2> QED BY <2>2, <2>3, <2>4
  <1>20. CASE NegotiateVeNCryptAuth(s)
    <2>1. sess[s].init = "Authentication" /\ sess[s].scheme = "vencrypt"
      BY <1>20 DEF NegotiateVeNCryptAuth, Authenticates, InitMsg
    <2> QED BY <1>20, <2>1, <1>4, <1>5, <1>9, <1>18 DEF NegotiateVeNCryptAuth
  <1>21. CASE HandleSecurityResult(s)
    <2>1. sess[s].init = "SecurityResult"
      BY <1>21 DEF HandleSecurityResult, InitMsg
    <2> QED BY <1>21, <2>1, <1>3, <1>6, <1>7, <1>8 DEF HandleSecurityResult
  <1>22. CASE HandleSecurityReason(s)
    BY <1>22, <1>6 DEF HandleSecurityReason
  <1>23. CASE ClientInitialisation(s)
    <2>1. sess[s].init = "ClientInitialisation"
      BY <1>23 DEF ClientInitialisation, InitMsg
    <2> QED BY <1>23, <2>1, <1>3, <1>7, <1>8 DEF ClientInitialisation
  <1>24. CASE NegotiateServerInit(s)
    <2> DEFINE r == [sess[s] EXCEPT !.conn = "connected", !.input = FALSE]
    <2>1. sess[s].init = "ServerInitialisation" /\ sess[s].conn = "connecting" /\ rfb = s
          /\ ~sess[s].resume /\ ~Stuck(sess[s])
      BY <1>1, <1>2, <1>8, <1>24, LiveIsRfb
      DEF NegotiateServerInit, InitMsg, Undisturbed, LoopInv
    <2>2. sess' = [sess EXCEPT ![s] = r] /\ UNCHANGED <<env, rfb, visits>> /\ running' = 0
      BY <1>1, <1>24 DEF NegotiateServerInit, SessionRecords, Return
    <2>3. r.conn = "connected" /\ r.owner = sess[s].owner /\ ~r.resume /\ SessionInv(r)
      BY <1>1, <2>1 DEF SessionInv, SessionRecords
    <2> HIDE DEF r
    <2>4. sess'[s] = r /\ \A t \in Sessions \ {s} : sess'[t] = sess[t]
      BY <1>1, <2>2
    <2>5. \A t \in Sessions : SessionInv(sess[t])'
      BY <2>2, <2>3, <2>4 DEF Undisturbed, SessionInv
    <2>6. ResumeInv' /\ LoopInv'
      BY <2>2, <2>3, <2>4 DEF Undisturbed, ResumeInv, LoopInv
    <2>7. /\ page'.number = page.number /\ page'.placeholder = page.placeholder
          /\ sess[s].owner = page.number => page'.screen
          /\ sess[s].owner # page.number => page'.screen = page.screen
      BY <1>1, <1>24 DEF NegotiateServerInit, ConnectEvent, NotifyUp, Pages
    <2>8. ShowInv'
      <3> SUFFICES ASSUME page.number # 0
                   PROVE  /\ page'.screen <=> OwnScreen'
                          /\ ~(page'.placeholder /\ sess[s].owner = page.number)
        BY <2>1, <2>2, <2>3, <2>4, <2>7 DEF ShowInv
      <3>1. page.placeholder => sess[s].owner # page.number
        BY <1>1, <2>1 DEF Undisturbed, ShowInv
      <3>2. OwnScreen' <=> sess[s].owner = page.number
        BY <1>1, <2>1, <2>2, <2>3, <2>4, <2>7 DEF OwnScreen
      <3>3. ~OwnScreen /\ ~page.screen
        BY <1>1, <2>1, NumberFacts DEF Undisturbed, ShowInv, OwnScreen
      <3> QED BY <2>7, <3>1, <3>2, <3>3
    <2> QED BY <2>2, <2>5, <2>6, <2>7, <2>8 DEF Undisturbed
  <1> QED
    BY <1>10, <1>11, <1>12, <1>13, <1>14, <1>15, <1>16, <1>17, <1>19, <1>20, <1>21,
       <1>22, <1>23, <1>24
    DEF InitStep

-----------------------------------------------------------------------------
LEMMA InitPageInv == Init => PageInv
  <1> SUFFICES ASSUME Init PROVE Undisturbed
    BY DEF PageInv
  <1>1. \A s \in Sessions : sess[s] = Unborn
    BY DEF Init
  <1>2. SessionInv(Unborn) /\ ~Unborn.resume
    <2>1. visits = 0 /\ 0 <= 0
      BY DEF Init
    <2> QED BY <2>1 DEF SessionInv, Unborn
  <1>3. \A s \in Sessions : SessionInv(sess[s])
    BY <1>1, <1>2
  <1>4. ResumeInv /\ LoopInv
    BY <1>1, <1>2 DEF Init, ResumeInv, LoopInv
  <1>5. page.number <= visits /\ ShowInv
    BY DEF Init, NoPage, ShowInv
  <1> QED BY <1>3, <1>4, <1>5 DEF Undisturbed

\* Once stale, a behaviour stays so.
LEMMA StaleStays ==
  ASSUME IInv, [Next]_vars, stale
  PROVE  stale'
  <1>1. ASSUME NEW s, NEW p, Fail(s, p) \/ DisconnectEvent(p, s)
        PROVE  stale'
    BY <1>1 DEF Fail, DisconnectEvent
  <1>2. CASE User
    BY <1>2 DEF User, OpenPage, LeavePage, Disconnect, ConnectReplaces, ConnectVnc,
                ConnectThrows
  <1>3. ASSUME NEW s \in Sessions,
               Network(s) \/ DisconnTimeout(s) \/ ResumeAuthentication(s)
        PROVE  stale'
    BY <1>1, <1>3 DEF Network, ProxyDials, ProxyEnds, ProxyStep, SocketOpen, SocketClose,
                      Receive, Notice, DisconnTimeout, ResumeAuthentication
  <1>4. ASSUME NEW s \in Sessions, InitStep(s)
        PROVE  stale'
    BY <1>1, <1>4
    DEF InitStep, Failing, Advance, CredentialsRequired, InitMsgWaits,
        NegotiateProtocolVersion, NegotiateSecurity, NoAuthentication, UnsupportedScheme,
        NegotiateStdVNCAuth, NegotiateXvpAuth, NegotiatePlainAuth, NegotiateARDAuth,
        NegotiateTightUnixAuth, NegotiateMSLogonIIAuth, NegotiateTightAuth,
        NegotiateVeNCryptAuth, NegotiateRA2neAuth, HandleSecurityResult,
        HandleSecurityReason, ClientInitialisation, NegotiateServerInit, UnknownInitState
  <1>5. CASE UNCHANGED vars
    BY <1>5 DEF vars
  <1> QED BY <1>2, <1>3, <1>4, <1>5 DEF Next

LEMMA NextPageInv == IInv /\ PageInv /\ [Next]_vars => PageInv'
  <1> SUFFICES ASSUME IInv, PageInv, [Next]_vars, ~stale' PROVE Undisturbed'
    BY DEF PageInv
  <1>1. ~stale /\ Undisturbed
    BY StaleStays DEF PageInv
  <1>2. CASE User
    BY <1>1, <1>2, UserUndisturbed
  <1>3. ASSUME NEW s \in Sessions,
               Network(s) \/ DisconnTimeout(s) \/ ResumeAuthentication(s) \/ InitStep(s)
        PROVE  Undisturbed'
    BY <1>1, <1>3, NetworkUndisturbed, InitStepUndisturbed
  <1>4. CASE UNCHANGED vars
    BY <1>1, <1>4 DEF vars, Undisturbed, SessionInv, ResumeInv, LoopInv, ShowInv, OwnScreen,
                      Stuck
  <1> QED BY <1>2, <1>3, <1>4 DEF Next

LEMMA PageInvariant == Spec => [](IInv /\ PageInv)
  <1>1. Init => IInv /\ PageInv
    BY InitIInv, InitPageInv
  <1>2. IInv /\ PageInv /\ [Next]_vars => (IInv /\ PageInv)'
    BY NextIInv, NextPageInv
  <1> QED BY <1>1, <1>2, PTL DEF Spec

\* The remote screen is shown exactly while this page's session is connected
\* (vnc-interop.js:100 and :121), whatever ended the session and however often
\* the page was left and opened again.
THEOREM ScreenShowsSession == Spec => []ScreenMatchesSession
  <1>1. IInv /\ PageInv => ScreenMatchesSession
    BY DEF PageInv, Undisturbed, ShowInv, OwnScreen, ScreenMatchesSession
  <1> QED BY <1>1, PageInvariant, PTL

\* sendCredentials of the script's rfb (vnc-interop.js:134) reaches a session
\* that waits in its authentication, and no other.
THEOREM PasswordReachesAsker == Spec => []PasswordForAsker
  <1>1. IInv /\ PageInv => PasswordForAsker
    BY DEF PageInv, Undisturbed, SessionInv, PasswordForAsker
  <1> QED BY <1>1, PageInvariant, PTL

=============================================================================
