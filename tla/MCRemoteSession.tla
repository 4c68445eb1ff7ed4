-------------------------- MODULE MCRemoteSession --------------------------
EXTENDS RemoteSession
\* A server of version 3.8 for each scheme, both ways of each wrapper, older
\* versions where the code looks at them, and a page without a proxy.
\* Two sessions, and one more where a session can be handed the password of another.
Kiosk(version, scheme, inner, password) ==
  [sessions |-> 2, visits |-> MaxVisits, url |-> "good", version |-> version,
   scheme |-> scheme, inner |-> inner,
   password |-> password]
MCEnvironments ==
       {[Kiosk(38, "vncauth", "none", "blank") EXCEPT !.sessions = MaxSessions, !.visits = 1]}
  \cup {Kiosk(38, "vncauth", "none", w) : w \in {"set", "none"}}
  \cup {Kiosk(v, "none", "none", "set") : v \in {0, 33, 37, 38}}
  \cup {Kiosk(v, sc, "none", "set") : v \in {33, 38}, sc \in {"refused", "unsupported"}}
  \cup {Kiosk(37, "vncauth", "none", "set")}
  \cup {Kiosk(38, sc, "none", w) : sc \in UserSchemes \cup {"ra2"}, w \in {"set", "none"}}
  \cup {Kiosk(38, "tight", i, "set") : i \in {"none", "vncauth", "unixlogon", "unsupported"}}
  \cup {Kiosk(38, "vencrypt", i, "set") : i \in {"none", "plain", "unsupported"}}
  \cup {[Kiosk(38, "none", "none", "set") EXCEPT !.url = "bad"]}
=============================================================================
