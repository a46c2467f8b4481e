--------------------------- MODULE BrokerConnection ---------------------------
(***************************************************************************)
(* brokers/ and the connection panel of app.py: one application object for *)
(* all browser tabs, with a connector per broker, the active broker and    *)
(* the session record; and a live service per tab.                         *)
(*                                                                         *)
(* The connectors take their tokens from the environment when the server   *)
(* starts; a tab that loads a token later changes the environment only.    *)
(* A script runs in a thread of its own: others run while it waits for the *)
(* broker's answer, and between its writes to the shared object.  A click  *)
(* in its own tab stops it where it touches the tab's state.               *)
(***************************************************************************)
EXTENDS Naturals, FiniteSets

CONSTANTS
    Tabs, Brokers, None,
    Environments,   \* which brokers may have a token when the server starts
    Misconfigured,  \* brokers whose market-data settings the factory refuses
    OneAtATime,     \* no two tabs run a connect or disconnect at the same time
    MaxClicks       \* bound: clicks on Connect, Disconnect and Use token

ASSUME BrokerAssumption ==
    /\ Environments \subseteq SUBSET Brokers /\ Misconfigured \subseteq Brokers
    /\ None \notin Brokers /\ OneAtATime \in BOOLEAN /\ MaxClicks \in Nat

VARIABLES
    env,        \* os.environ: brokers with a token
    token,      \* brokers whose connector has an access_token
    active,     \* BrokerConnectionService._active
    session,    \* BrokerSessionManager._session: its broker
    verified,   \* history: brokers that accepted the connector, since it was last disconnected
    service,    \* per tab: the broker its live_service was built for
    pc,         \* per tab: where its script is
    broker,     \* per tab: the local "broker" of connect
    accepted,   \* per tab: whether the local "state" says connected
    clicks

vars == <<env, token, active, session, verified, service, pc, broker, accepted, clicks>>

shared == <<env, token, active, session, verified>>

Steps == {"idle", "start", "request", "settle", "accept", "build", "clear", "forget"}

Goto(t, step) == pc' = [pc EXCEPT ![t] = step]

\* A click that starts a script in tab t.
Click(t) ==
    /\ pc[t] = "idle" /\ clicks < MaxClicks
    /\ OneAtATime => \A u \in Tabs : pc[u] = "idle"
    /\ clicks' = clicks + 1

\* A connector's disconnect: its only copy of the token is gone.
Disconnected(b) == token' = token \ {b} /\ verified' = verified \ {b}

Init ==
    /\ env \in Environments /\ token = env
    /\ active = None /\ session = None /\ verified = {}
    /\ service = [t \in Tabs |-> None]
    /\ pc = [t \in Tabs |-> "idle"]
    /\ broker = [t \in Tabs |-> None]
    /\ accepted = [t \in Tabs |-> FALSE]
    /\ clicks = 0

\* A mutant of UseToken: the connector gets the token, the environment does not.
UseTokenInConnector(t, b) ==
    /\ b \notin env
    /\ Click(t)
    /\ token' = token \cup {b}
    /\ UNCHANGED <<env, active, session, verified, service, pc, broker, accepted>>

\* "Use token": the environment, which no connector reads again.
UseToken(t, b) ==
    /\ b \notin env
    /\ Click(t)
    /\ env' = env \cup {b}
    /\ UNCHANGED <<token, active, session, verified, service, pc, broker, accepted>>

-----------------------------------------------------------------------------
\* A mutant of DisconnectOther: only connecting the active broker again
\* disconnects.
DisconnectSame(b) ==
    IF active = b THEN Disconnected(active) ELSE UNCHANGED <<token, verified>>

\* Switching brokers ends the connection to the other first.
DisconnectOther(b) ==
    IF active # None /\ active # b THEN Disconnected(active) ELSE UNCHANGED <<token, verified>>

ClickConnect(t, b) ==
    /\ Click(t)
    /\ broker' = [broker EXCEPT ![t] = b]
    /\ DisconnectOther(b)
    /\ Goto(t, "start")
    /\ UNCHANGED <<env, active, session, service, accepted>>

\* Without a token the answer is an error; with one the broker is asked.
Start(t) ==
    /\ pc[t] = "start"
    /\ accepted' = [accepted EXCEPT ![t] = FALSE]
    /\ Goto(t, IF broker[t] \in token THEN "request" ELSE "settle")
    /\ UNCHANGED <<shared, service, broker, clicks>>

\* The broker accepts the token, or refuses it or cannot be reached.
Reply(t, ok) ==
    /\ pc[t] = "request"
    /\ accepted' = [accepted EXCEPT ![t] = ok]
    /\ verified' = IF ok THEN verified \cup {broker[t]} ELSE verified \ {broker[t]}
    /\ Goto(t, "settle")
    /\ UNCHANGED <<env, token, active, session, service, broker, clicks>>

\* An answer without the expected form raises, past the service and the facade.
OddReply(t) ==
    /\ pc[t] = "request"
    /\ Goto(t, "idle")
    /\ UNCHANGED <<shared, service, broker, accepted, clicks>>

\* The service's part, then the session manager's.
Settle(t) ==
    /\ pc[t] = "settle"
    /\ active' = IF accepted[t] THEN broker[t] ELSE None
    /\ Goto(t, "accept")
    /\ UNCHANGED <<env, token, session, verified, service, broker, accepted, clicks>>

\* A mutant of Accept: a refused connect leaves the session record.
AcceptConnected(t) ==
    /\ pc[t] = "accept"
    /\ session' = IF accepted[t] THEN broker[t] ELSE session
    /\ Goto(t, IF accepted[t] THEN "build" ELSE "idle")
    /\ UNCHANGED <<env, token, active, verified, service, broker, accepted, clicks>>

Accept(t) ==
    /\ pc[t] = "accept"
    /\ session' = IF accepted[t] THEN broker[t] ELSE None
    /\ Goto(t, IF accepted[t] THEN "build" ELSE "idle")
    /\ UNCHANGED <<env, token, active, verified, service, broker, accepted, clicks>>

\* The provider takes the token from the environment; the tab gets its service.
Build(t) ==
    /\ pc[t] = "build" /\ broker[t] \in env \ Misconfigured
    /\ service' = [service EXCEPT ![t] = broker[t]]
    /\ Goto(t, "idle")
    /\ UNCHANGED <<shared, broker, accepted, clicks>>

\* The factory raises; the tab keeps the service it had.
BuildFails(t) ==
    /\ pc[t] = "build" /\ broker[t] \notin env \ Misconfigured
    /\ Goto(t, "idle")
    /\ UNCHANGED <<shared, service, broker, accepted, clicks>>

-----------------------------------------------------------------------------
\* Without an active broker, a RuntimeError: nothing changes, not even the tab.
ClickDisconnect(t) ==
    /\ active # None
    /\ Click(t)
    /\ Disconnected(active)
    /\ active' = None
    /\ Goto(t, "clear")
    /\ UNCHANGED <<env, session, service, broker, accepted>>

ClearSession(t) ==
    /\ pc[t] = "clear"
    /\ session' = None
    /\ Goto(t, "forget")
    /\ UNCHANGED <<env, token, active, verified, service, broker, accepted, clicks>>

Forget(t) ==
    /\ pc[t] = "forget"
    /\ service' = [service EXCEPT ![t] = None]
    /\ Goto(t, "idle")
    /\ UNCHANGED <<shared, broker, accepted, clicks>>

\* Another click in the tab stops the script before it touches the tab's state.
Interrupt(t) ==
    /\ pc[t] \in {"build", "forget"}
    /\ Goto(t, "idle")
    /\ UNCHANGED <<shared, service, broker, accepted, clicks>>

Next ==
    \E t \in Tabs :
        \/ \E b \in Brokers : UseToken(t, b) \/ ClickConnect(t, b)
        \/ Start(t) \/ OddReply(t) \/ Settle(t) \/ Accept(t) \/ Build(t) \/ BuildFails(t)
        \/ \E ok \in BOOLEAN : Reply(t, ok)
        \/ ClickDisconnect(t) \/ ClearSession(t) \/ Forget(t) \/ Interrupt(t)

Spec == Init /\ [][Next]_vars

-----------------------------------------------------------------------------
\* Every variable keeps its type; no connector gets a token that the
\* environment lacks.
TypeOK ==
    /\ token \subseteq env /\ env \subseteq Brokers
    /\ active \in Brokers \cup {None} /\ session \in Brokers \cup {None}
    /\ verified \subseteq Brokers
    /\ service \in [Tabs -> Brokers \cup {None}]
    /\ pc \in [Tabs -> Steps]
    /\ broker \in [Tabs -> Brokers \cup {None}]
    /\ accepted \in [Tabs -> BOOLEAN]
    /\ \A t \in Tabs : pc[t] \in {"start", "request", "settle", "accept", "build"} => broker[t] # None
    /\ clicks \in 0..MaxClicks

AtRest == \A t \in Tabs : pc[t] = "idle"

\* Between scripts, the broker that the dashboard shows as its session is the
\* one the service would disconnect, whatever failed half way.
SessionFollowsActive == AtRest => session = active

\* Switching brokers disconnects the one before: of the brokers that have
\* accepted a connector, no more than one has not been disconnected.
OneBrokerConnected == Cardinality(verified) <= 1
=============================================================================
