---------------------------- MODULE RemoteSession ----------------------------
(***************************************************************************)
(* Remote control of a kiosk: the Blazor page BranchRemoteLogin, the       *)
(* script vnc-interop.js between the page and the noVNC client, the life   *)
(* of an RFB object from its constructor to its disconnect event with the  *)
(* whole handshake (rfb.js), and the WebSocket proxy to the VNC server.    *)
(*                                                                         *)
(* A session is one RFB object.  The browser has one thread: a handler     *)
(* that starts runs to its end.  A handler of one step is one action; the  *)
(* loop of _handleMessage over _initMsg takes one action per message, and  *)
(* "running" keeps everything else of the browser away meanwhile.          *)
(***************************************************************************)
EXTENDS Naturals

CONSTANTS
  MaxSessions,    \* bound: RFB objects made (an environment may say fewer)
  MaxVisits,      \* bound: times the page is opened (likewise)
  Environments    \* the surroundings a behaviour may have, see Surroundings

ASSUME BoundsAssumption == MaxSessions \in Nat /\ MaxVisits \in Nat

VARIABLES
  env,       \* the surroundings of this behaviour, fixed
  sess,      \* the RFB objects
  created,   \* how many of them exist
  rfb,       \* the script's global of that name; 0 is null
  page,      \* the open page and what it shows
  visits,    \* pages opened so far; also the number of the last one
  running,   \* the session whose handler loops over _initMsg; 0 is none
  once,      \* ... and it was entered by a timer: one pass, no loop
  stale      \* history: the disconnect event of a session cleared another's rfb

vars == <<env, sess, created, rfb, page, visits, running, once, stale>>

Sessions == 1 .. MaxSessions

\* Schemes that ask for a user name, which the page never has.
UserSchemes == {"xvp", "plain", "ard", "unixlogon", "mslogon"}
Wrappers == {"tight", "vencrypt"}
Schemes == {"none", "vncauth", "ra2", "unsupported"} \cup UserSchemes \cup Wrappers

\* The address of the proxy, the server's version (times ten; 0 is one that
\* noVNC does not know), the security type the server wants ("refused": it
\* offers none), the type inside a wrapper, and the password of the branch:
\* set, only blanks, or none.  "sessions" and "visits" are bounds.
Surroundings ==
  [sessions : 0 .. MaxSessions, visits : 0 .. MaxVisits,
   url : {"good", "bad"}, version : {0, 33, 37, 38},
   scheme : Schemes \cup {"refused"}, inner : Schemes \ Wrappers,
   password : {"set", "blank", "none"}]

ASSUME EnvironmentsAssumption == Environments \subseteq Surroundings

ConnStates == {"none", "connecting", "connected", "disconnecting", "disconnected"}
InitStates == {"", "ProtocolVersion", "Security", "Authentication", "SecurityResult",
               "SecurityReason", "ClientInitialisation", "ServerInitialisation"}

SessionRecords ==
  [conn : ConnStates,                                  \* _rfbConnectionState
   init : InitStates,                                  \* _rfbInitState
   scheme : Schemes,                                   \* _rfbAuthScheme
   creds : BOOLEAN,                                    \* _rfbCredentials has a password
   input : BOOLEAN,                                    \* the message it waits for is queued
   resume : BOOLEAN,                                   \* _resumeAuthentication's timer is set
   sock : {"connecting", "open", "closing", "closed"}, \* the browser's WebSocket
   proxy : {"idle", "dialing", "relaying", "ended"},   \* HandleWebSocketAsync
   owner : 0 .. MaxVisits]                             \* the page its listeners captured

Unborn ==
  [conn |-> "none", init |-> "", scheme |-> "none", creds |-> FALSE, input |-> FALSE,
   resume |-> FALSE, sock |-> "closed", proxy |-> "idle", owner |-> 0]

NoPage ==
  [number |-> 0, placeholder |-> FALSE, connecting |-> FALSE, screen |-> FALSE,
   busy |-> FALSE, locked |-> TRUE]

Pages ==
  [number : 0 .. MaxVisits, placeholder : BOOLEAN, connecting : BOOLEAN, screen : BOOLEAN,
   busy : BOOLEAN,      \* Isconnecting
   locked : BOOLEAN]    \* VcnConnectQueckActionStatus

Live(s) == sess[s].conn \in {"connecting", "connected"}

-----------------------------------------------------------------------------
(* What the listeners of vnc-interop.js and the page make of an event. *)

\* (A mutant: the canvas is not hidden.)
ResetScreenEventKeepsScreen(p) ==
  IF p.number = 0 THEN p ELSE [p EXCEPT !.placeholder = TRUE, !.connecting = FALSE]

\* resetscreenEvent looks the elements up by id, so it acts on the open page.
ResetScreenEvent(p) ==
  IF p.number = 0 THEN p
  ELSE [p EXCEPT !.placeholder = TRUE, !.connecting = FALSE, !.screen = FALSE]

\* resetscreen does not know the spinner.
ResetScreen(p) ==
  IF p.number = 0 THEN p ELSE [p EXCEPT !.placeholder = TRUE, !.screen = FALSE]

\* Status true: connected, or a notice such as a bell.  The call reaches the
\* component that made the session, which may be gone.
NotifyUp(p, s) ==
  IF sess[s].owner # p.number THEN p ELSE [p EXCEPT !.busy = FALSE, !.locked = FALSE]

\* (A mutant: the button stays disabled.)
NotifyDownKeepsBusy(p, s) ==
  IF sess[s].owner # p.number THEN p ELSE [p EXCEPT !.locked = TRUE]

\* Status false with code 0.
NotifyDown(p, s) ==
  IF sess[s].owner # p.number THEN p ELSE [p EXCEPT !.busy = FALSE, !.locked = TRUE]

SecurityFailureEvent(p, s) == NotifyDown(ResetScreenEvent(p), s)

\* The connect listener shows and hides the elements of the page that made
\* the session; the placeholder is hidden since connectVnc.
ConnectEvent(s) ==
  page' = IF sess[s].owner # page.number THEN page
          ELSE [NotifyUp(page, s) EXCEPT !.screen = TRUE, !.connecting = FALSE]

\* (Mutants: the listener forgets the script's rfb; it forgets the page.)
DisconnectEventKeepsRfb(p, s) ==
  /\ page' = NotifyDown(ResetScreenEvent(p), s)
  /\ UNCHANGED <<rfb, stale>>

DisconnectEventKeepsPage(p, s) ==
  /\ page' = NotifyDown(p, s)
  /\ rfb' = 0
  /\ stale' = (stale \/ rfb \notin {0, s})

\* The disconnect listener ends with rfb = null, whichever session rfb is.
DisconnectEvent(p, s) ==
  /\ page' = NotifyDown(ResetScreenEvent(p), s)
  /\ rfb' = 0
  /\ stale' = (stale \/ rfb \notin {0, s})

-----------------------------------------------------------------------------
(* The states of a connection. *)

\* (A mutant: the wrong state is written.)
ClosedSockMixedUp(r) == IF r.sock \in {"connecting", "open"} THEN r.conn ELSE r.sock

ClosedSock(r) == IF r.sock \in {"connecting", "open"} THEN "closing" ELSE r.sock

\* _updateConnectionState('disconnecting') with _disconnect: the socket is
\* closed, its messages are ignored, the timer of three seconds starts.
Disconnecting(r) == [r EXCEPT !.conn = "disconnecting", !.sock = ClosedSock(r)]

\* (A mutant: rfb = null without the call.)
ForgetRfb == sess

\* What a call of rfb.disconnect() makes of all sessions.
DisconnectRfb == [sess EXCEPT ![rfb] = Disconnecting(sess[rfb])]

\* _fail goes through disconnecting to disconnected at once.  An object that
\* is disconnected already only logs.  (p: the page after the events before.)
Fail(s, p) ==
  IF sess[s].conn = "disconnected"
  THEN /\ page' = p
       /\ UNCHANGED <<sess, rfb, stale>>
  ELSE /\ sess' = [sess EXCEPT ![s] = [Disconnecting(sess[s]) EXCEPT !.conn = "disconnected"]]
       /\ DisconnectEvent(p, s)

\* A handler that ends, and one that goes on with the next _initMsg.
Return == running' = 0 /\ once' = FALSE
Continue == IF once THEN Return ELSE UNCHANGED <<running, once>>

Idle == running = 0

-----------------------------------------------------------------------------
(* The page. *)

\* initializeVnc on a component with its initial fields.
OpenPage ==
  /\ Idle /\ page.number = 0 /\ visits < env.visits
  /\ visits' = visits + 1
  /\ page' = [NoPage EXCEPT !.number = visits + 1, !.placeholder = TRUE]
  /\ UNCHANGED <<env, sess, created, rfb, running, once, stale>>

\* disconnectVnc
DisconnectVnc ==
  /\ sess' = IF rfb = 0 THEN sess ELSE DisconnectRfb
  /\ rfb' = 0

\* DisposeAsync disconnects only when the quick actions are unlocked.
LeavePage ==
  /\ Idle /\ page.number # 0
  /\ IF page.locked THEN UNCHANGED <<sess, rfb>> ELSE DisconnectVnc
  /\ page' = NoPage
  /\ UNCHANGED <<env, created, visits, running, once, stale>>

\* The button of the quick actions.  The component is told by the event only.
Disconnect ==
  /\ Idle /\ page.number # 0 /\ ~page.locked
  /\ DisconnectVnc
  /\ page' = ResetScreen(page)
  /\ UNCHANGED <<env, created, visits, running, once, stale>>

\* The button lies in the placeholder.  A timeout of 0 ms of a session that
\* is not the current one is over before a user clicks again.
CanConnect ==
  /\ Idle /\ page.number # 0 /\ page.placeholder /\ ~page.busy
  /\ \A s \in Sessions : sess[s].resume => s = rfb

Spinner(p) == [p EXCEPT !.placeholder = FALSE, !.connecting = TRUE]

\* connectVnc while there is an RFB: it is only disconnected.
ConnectReplaces ==
  /\ CanConnect /\ rfb # 0
  /\ sess' = DisconnectRfb
  /\ rfb' = 0
  /\ page' = [Spinner(page) EXCEPT !.busy = FALSE, !.locked = TRUE]
  /\ UNCHANGED <<env, created, visits, running, once, stale>>

\* connectVnc makes an RFB; its constructor opens the WebSocket.
NewSession ==
  [Unborn EXCEPT !.conn = "connecting", !.sock = "connecting",
                 !.creds = env.password = "set", !.owner = page.number]

ConnectVnc ==
  /\ CanConnect /\ rfb = 0 /\ created < env.sessions /\ env.url = "good"
  /\ created' = created + 1
  /\ rfb' = created + 1
  /\ sess' = [sess EXCEPT ![created + 1] = NewSession]
  /\ page' = [Spinner(page) EXCEPT !.busy = TRUE]
  /\ UNCHANGED <<env, visits, running, once, stale>>

\* The WebSocket's constructor throws; the catch leaves the spinner visible.
ConnectThrows ==
  /\ CanConnect /\ rfb = 0 /\ env.url = "bad"
  /\ page' = [ResetScreen(Spinner(page)) EXCEPT !.busy = FALSE, !.locked = TRUE]
  /\ UNCHANGED <<env, sess, created, rfb, visits, running, once, stale>>

-----------------------------------------------------------------------------
(* The proxy and the WebSocket.  A dead connection may be noticed at any   *)
(* time and on either side; ProxyEnds stands for the VNC server closing,   *)
(* a dial that fails or times out, an error, and the end of one direction  *)
(* after the other.  A session that is disconnected no longer listens to   *)
(* its socket, so what becomes of that is left out.                        *)

ProxyStep(s, from, to) ==
  /\ Idle /\ sess[s].conn # "disconnected" /\ sess[s].proxy \in from
  /\ sess' = [sess EXCEPT ![s].proxy = to]
  /\ UNCHANGED <<env, created, rfb, page, visits, running, once, stale>>

ProxyDials(s) == ProxyStep(s, {"dialing"}, "relaying")
ProxyEnds(s) == ProxyStep(s, {"dialing", "relaying"}, "ended")

\* The proxy accepts the WebSocket before it dials.  _socketOpen.
SocketOpen(s) ==
  /\ Idle /\ sess[s].sock = "connecting"
  /\ sess' = [sess EXCEPT ![s].sock = "open", ![s].proxy = "dialing",
                          ![s].init = "ProtocolVersion"]
  /\ UNCHANGED <<env, created, rfb, page, visits, running, once, stale>>

\* The close event: the proxy cannot be reached, or has ended, or answers
\* the close of the browser.  _socketClose.
SocketClose(s) ==
  /\ Idle /\ sess[s].conn # "disconnected"
  /\ \/ sess[s].sock \in {"connecting", "closing"}
     \/ sess[s].sock = "open" /\ sess[s].proxy = "ended"
  /\ sess' = [sess EXCEPT ![s].sock = "closed", ![s].conn = "disconnected"]
  /\ DisconnectEvent(page, s)
  /\ UNCHANGED <<env, created, visits, running, once>>

\* The timer of _updateConnectionState, when no close comes.
DisconnTimeout(s) ==
  /\ Idle /\ sess[s].conn = "disconnecting"
  /\ sess' = [sess EXCEPT ![s].conn = "disconnected"]
  /\ DisconnectEvent(page, s)
  /\ UNCHANGED <<env, created, visits, running, once>>

-----------------------------------------------------------------------------
(* The handshake. *)

\* What the client waits for with no message of the server due.
Silent(r) ==
  \/ r.init \in {"", "ClientInitialisation"}
  \/ r.init = "Authentication" /\ r.scheme \in UserSchemes \ {"mslogon"}

\* The message of the VNC server that the session waits for is complete.
Receive(s) ==
  /\ Idle /\ sess[s].sock = "open" /\ sess[s].proxy = "relaying"
  /\ sess[s].conn = "connecting" /\ ~sess[s].input /\ ~Silent(sess[s])
  /\ sess' = [sess EXCEPT ![s].input = TRUE]
  /\ running' = s
  /\ UNCHANGED <<env, created, rfb, page, visits, once, stale>>

\* The timer of _resumeAuthentication calls _initMsg in whatever state.
ResumeAuthentication(s) ==
  /\ Idle /\ sess[s].resume
  /\ sess' = [sess EXCEPT ![s].resume = FALSE]
  /\ running' = s
  /\ once' = TRUE
  /\ UNCHANGED <<env, created, rfb, page, visits, stale>>

\* _initMsg of s reaches the case of this state.
InitMsg(s, init) == running = s /\ sess[s].init = init
Authenticates(s, schemes) == InitMsg(s, "Authentication") /\ sess[s].scheme \in schemes

\* A case that takes its message (or needs none) and sets the next state.
Advance(s, r) ==
  /\ sess' = [sess EXCEPT ![s] = [r EXCEPT !.input = FALSE]]
  /\ UNCHANGED <<env, created, rfb, page, visits, stale>>

\* A case that fails the connection, after events that made p of the page.
Failing(s, p) ==
  /\ Fail(s, p)
  /\ Return
  /\ UNCHANGED <<env, created, visits>>

\* rQwait: the message is not there.
InitMsgWaits(s) ==
  /\ running = s /\ ~sess[s].input /\ ~Silent(sess[s])
  /\ ~(sess[s].init = "Authentication" /\ sess[s].scheme \in {"none", "unsupported"})
  /\ Return
  /\ UNCHANGED <<env, sess, created, rfb, page, visits, stale>>

\* Returns nothing where the other cases return true, so the loop ends.
NegotiateProtocolVersion(s) ==
  /\ InitMsg(s, "ProtocolVersion") /\ sess[s].input
  /\ IF env.version = 0 THEN Failing(s, page)
     ELSE Advance(s, [sess[s] EXCEPT !.init = "Security"]) /\ Return

\* From 3.7 on the client picks from a list; before, the server decides.
NegotiateSecurity(s) ==
  /\ InitMsg(s, "Security") /\ sess[s].input
  /\ CASE env.scheme = "refused" ->
            Advance(s, [sess[s] EXCEPT !.init = "SecurityReason"]) /\ Continue
       [] env.scheme = "unsupported" /\ env.version >= 37 ->
            Failing(s, page)
       [] OTHER ->
            /\ Advance(s, [sess[s] EXCEPT !.init = "Authentication", !.scheme = env.scheme])
            /\ Continue

NoAuthentication(s) ==
  /\ Authenticates(s, {"none"})
  /\ Advance(s, [sess[s] EXCEPT !.init =
                   IF env.version >= 38 THEN "SecurityResult" ELSE "ClientInitialisation"])
  /\ Continue

UnsupportedScheme(s) == Authenticates(s, {"unsupported"}) /\ Failing(s, page)

\* (A mutant: the state moves on before the password is there.)
CredentialsRequiredTooLate(s) ==
  /\ sess' = [sess EXCEPT ![s].init = "SecurityResult", ![rfb].creds = TRUE,
                          ![rfb].resume = TRUE]
  /\ Return
  /\ UNCHANGED <<env, created, rfb, page, visits, stale>>

\* The listener of credentialsrequired answers the script's current RFB, not
\* the one that asks; with none it throws.  Without a password it shows the
\* page as if disconnected and keeps the session.
CredentialsRequired(s) ==
  /\ IF env.password = "none"
     THEN page' = NotifyDown(ResetScreenEvent(page), s) /\ UNCHANGED sess
     ELSE /\ UNCHANGED page
          /\ sess' = IF rfb = 0 THEN sess
                     ELSE [sess EXCEPT ![rfb].creds = TRUE, ![rfb].resume = TRUE]
  /\ Return
  /\ UNCHANGED <<env, created, rfb, visits, stale>>

\* The challenge stays queued until there is a password.
NegotiateStdVNCAuth(s) ==
  /\ Authenticates(s, {"vncauth"}) /\ sess[s].input
  /\ IF sess[s].creds
     THEN Advance(s, [sess[s] EXCEPT !.init = "SecurityResult"]) /\ Continue
     ELSE CredentialsRequired(s)

\* These want a user name first; with what the page gives they ask again.
NegotiateXvpAuth(s) == Authenticates(s, {"xvp"}) /\ CredentialsRequired(s)
NegotiatePlainAuth(s) == Authenticates(s, {"plain"}) /\ CredentialsRequired(s)
NegotiateARDAuth(s) == Authenticates(s, {"ard"}) /\ CredentialsRequired(s)
NegotiateTightUnixAuth(s) == Authenticates(s, {"unixlogon"}) /\ CredentialsRequired(s)

\* As before, once the parameters of the server are there.
NegotiateMSLogonIIAuth(s) ==
  Authenticates(s, {"mslogon"}) /\ sess[s].input /\ CredentialsRequired(s)

\* The wrappers pick one of the server's inner types.  Tight turns no
\* authentication into the wait for its result; VeNCrypt goes back to the loop.
NegotiateTightAuth(s) ==
  /\ Authenticates(s, {"tight"}) /\ sess[s].input
  /\ CASE env.inner = "none" ->
            Advance(s, [sess[s] EXCEPT !.init = "SecurityResult"]) /\ Continue
       [] env.inner \in {"vncauth", "unixlogon"} ->
            Advance(s, [sess[s] EXCEPT !.scheme = env.inner]) /\ Continue
       [] OTHER -> Failing(s, page)

NegotiateVeNCryptAuth(s) ==
  /\ Authenticates(s, {"vencrypt"}) /\ sess[s].input
  /\ IF env.inner = "unsupported" THEN Failing(s, page)
     ELSE Advance(s, [sess[s] EXCEPT !.scheme = env.inner]) /\ Continue

\* The listener of serververification calls approve() of the event's detail,
\* which has none; the exception ends the negotiation.
NegotiateRA2neAuth(s) ==
  Authenticates(s, {"ra2"}) /\ sess[s].input /\ Failing(s, page)

\* The server accepts, or refuses with a reason (3.8) or without one.
HandleSecurityResult(s) ==
  /\ InitMsg(s, "SecurityResult") /\ sess[s].input
  /\ \/ Advance(s, [sess[s] EXCEPT !.init = "ClientInitialisation"]) /\ Continue
     \/ /\ env.version >= 38
        /\ Advance(s, [sess[s] EXCEPT !.init = "SecurityReason"])
        /\ Continue
     \/ env.version < 38 /\ Failing(s, SecurityFailureEvent(page, s))

HandleSecurityReason(s) ==
  InitMsg(s, "SecurityReason") /\ sess[s].input /\ Failing(s, SecurityFailureEvent(page, s))

ClientInitialisation(s) ==
  /\ InitMsg(s, "ClientInitialisation")
  /\ Advance(s, [sess[s] EXCEPT !.init = "ServerInitialisation"])
  /\ Continue

\* _updateConnectionState('connected') is allowed while connecting only.
NegotiateServerInit(s) ==
  /\ InitMsg(s, "ServerInitialisation") /\ sess[s].input
  /\ sess[s].conn = "connecting"
  /\ sess' = [sess EXCEPT ![s].conn = "connected", ![s].input = FALSE]
  /\ ConnectEvent(s)
  /\ Return
  /\ UNCHANGED <<env, created, rfb, visits, stale>>

\* The default of _initMsg: a timer found a session that has not begun.
UnknownInitState(s) == InitMsg(s, "") /\ Failing(s, page)

\* A bell, the clipboard or the capabilities of a connected session.
Notice(s) ==
  /\ Idle /\ sess[s].sock = "open" /\ sess[s].proxy = "relaying"
  /\ sess[s].conn = "connected"
  /\ page' = NotifyUp(page, s)
  /\ UNCHANGED <<env, sess, created, rfb, visits, running, once, stale>>

-----------------------------------------------------------------------------
Init ==
  /\ env \in Environments
  /\ sess = [s \in Sessions |-> Unborn]
  /\ created = 0 /\ rfb = 0 /\ visits = 0 /\ running = 0
  /\ page = NoPage
  /\ once = FALSE /\ stale = FALSE

\* One case of _initMsg.
InitStep(s) ==
  \/ InitMsgWaits(s) \/ NegotiateProtocolVersion(s) \/ NegotiateSecurity(s)
  \/ NoAuthentication(s) \/ UnsupportedScheme(s) \/ NegotiateStdVNCAuth(s)
  \/ NegotiateXvpAuth(s) \/ NegotiatePlainAuth(s) \/ NegotiateARDAuth(s)
  \/ NegotiateTightUnixAuth(s) \/ NegotiateMSLogonIIAuth(s)
  \/ NegotiateTightAuth(s) \/ NegotiateVeNCryptAuth(s) \/ NegotiateRA2neAuth(s)
  \/ HandleSecurityResult(s) \/ HandleSecurityReason(s) \/ ClientInitialisation(s)
  \/ NegotiateServerInit(s) \/ UnknownInitState(s)

User ==
  OpenPage \/ LeavePage \/ Disconnect \/ ConnectReplaces \/ ConnectVnc \/ ConnectThrows

Network(s) ==
  \/ ProxyDials(s) \/ ProxyEnds(s) \/ SocketOpen(s) \/ SocketClose(s) \/ Receive(s)
  \/ Notice(s)

Next ==
  \/ User
  \/ \E s \in Sessions :
       Network(s) \/ DisconnTimeout(s) \/ ResumeAuthentication(s) \/ InitStep(s)

Spec == Init /\ [][Next]_vars

\* The browser runs what is due; the proxy's dial ends (ten seconds at most);
\* a broken connection is noticed; the VNC server answers or goes away.  The
\* close of a socket by the browser need not be answered: that has the timer.
Fairness ==
  \A s \in Sessions :
    /\ WF_vars(ProxyDials(s))
    /\ WF_vars(SocketOpen(s))
    /\ WF_vars(SocketClose(s) /\ sess[s].sock = "open")
    /\ WF_vars(Receive(s))
    /\ WF_vars(InitStep(s))
    /\ WF_vars(ResumeAuthentication(s))
    /\ WF_vars(DisconnTimeout(s))

FairSpec == Spec /\ Fairness

-----------------------------------------------------------------------------
\* Type invariant.
TypeOK ==
  /\ env \in Environments
  /\ sess \in [Sessions -> SessionRecords]
  /\ created \in 0 .. MaxSessions
  /\ rfb \in 0 .. MaxSessions
  /\ visits \in 0 .. MaxVisits
  /\ page \in Pages
  /\ running \in 0 .. MaxSessions
  /\ once \in BOOLEAN
  /\ stale \in BOOLEAN

\* The RFB of the script (vnc-interop.js:1) is never one that has ended or is
\* ending: every way a session ends clears it, so a connect never disconnects
\* a dead object and then waits for an event that cannot come.
CurrentIsLive == rfb # 0 => Live(rfb)

\* No session lives on behind the page's back: while one is connecting or
\* connected, disconnectVnc and connectVnc reach it through rfb.  (Until the
\* late disconnect event of an earlier session clears the rfb of the next
\* one, vnc-interop.js:127.)
LiveIsCurrent == \A s \in Sessions : Live(s) => s = rfb \/ stale

\* The remote screen is shown exactly while this page's session is connected,
\* whatever ended it: the button, the server, the proxy, a failed handshake,
\* the timer, a connect that replaces it, or a page left and opened again.
ScreenMatchesSession ==
  Idle /\ page.number # 0 /\ ~stale =>
    (page.screen <=> rfb # 0 /\ sess[rfb].conn = "connected"
                             /\ sess[rfb].owner = page.number)

\* The password goes to a session that has asked for it and still waits,
\* although the listener hands it to the script's rfb, whichever that is.
PasswordForAsker ==
  ~stale => \A s \in Sessions : sess[s].resume => sess[s].init = "Authentication"

\* A server that wants a user name is asked and answered for ever, at the
\* speed of a timer of 0 ms, when the branch has a password.
AsksForever ==
  env.password # "none" /\ {env.scheme, env.inner} \cap UserSchemes # {}

\* Whoever sees the spinner sees the screen or the Connect button in the end,
\* whatever fails in between.
SpinnerEnds ==
  page.connecting /\ ~page.placeholder /\ ~AsksForever ~>
    page.number = 0 \/ page.placeholder \/ page.screen

\* The Connect button, disabled by Isconnecting, comes back: whatever becomes
\* of the session, some event of it reaches the page.  (Until an early event
\* has cleared the rfb of a session that then gets no password.)
ButtonComesBack ==
  page.busy /\ ~AsksForever ~> page.number = 0 \/ ~page.busy \/ stale

=============================================================================
