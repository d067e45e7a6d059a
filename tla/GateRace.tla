------------------------------- MODULE GateRace -------------------------------
(***************************************************************************)
(* The goroutines of the gate that share its sessions: the read loop of    *)
(* each client connection, the read loops of the pool of service links,    *)
(* heartbeatLoop and gcLoop.  SessionManager.mu protects the two indexes;  *)
(* the fields of a Session are read and written without a lock.            *)
(*                                                                         *)
(* Gate takes a handler as one step.  Here a step is one write to a field  *)
(* another goroutine uses, together with the reads before it, or a read    *)
(* whose answer is used later.  Four places test s.Conn for nil and read   *)
(* it again: Reply, sendToService, onHeartbeat and checkHeartbeat.  Where  *)
(* it is nil by then the goroutine panics, which ends the process.         *)
(***************************************************************************)
EXTENDS Integers, FiniteSets

CONSTANTS
    Conns,           \* client connections
    Players,         \* role ids, the non-zero PlayerId values
    NoConn,          \* a nil *Conn
    NoPlayer,        \* PlayerId 0
    Heart, Collector,\* the goroutines of heartbeatLoop and gcLoop
    PoolSize,        \* service links
    MaxSession,      \* bound on the session ids handed out
    MaxLogins,       \* bound on the LoginReqs of one session in flight
    MaxBusy          \* bound on the goroutines in a handler at a time

ASSUME RaceAssumption ==
    /\ NoConn \notin Conns /\ NoPlayer \notin Players
    /\ PoolSize \in Nat \ {0} /\ MaxSession \in Nat /\ MaxLogins \in Nat
    /\ MaxBusy \in Nat \ {0}
    /\ Heart \notin Conns /\ Collector \notin Conns \cup {Heart}
    /\ (Conns \cup {Heart, Collector}) \cap (0 .. PoolSize - 1) = {}

VARIABLES
    bySession, byPlayer, nextID,          \* SessionManager and Gate
    state, playerID, conn,                \* Session
    sessionID, reading, closed,           \* Conn: its session, read loop, Close
    logins, notified,                     \* as in Gate
    pc, ses, vic, hold, role, msg,        \* per goroutine: where it is, its session, the one
                                          \* it takes offline, the Conn it read, its player,
                                          \* what it sends to the service
    raced,                                \* sessions two handlers have worked on at once
    crashed                               \* the session whose nil connection was used

managerVars == <<bySession, byPlayer, nextID>>
sessionVars == <<state, playerID, conn, notified>>
connVars == <<sessionID, reading, closed>>
locals == <<pc, ses, vic, hold, role, msg>>
vars == <<bySession, byPlayer, nextID, state, playerID, conn, sessionID, reading, closed,
          logins, notified, pc, ses, vic, hold, role, msg, raced, crashed>>

Sessions == 1 .. MaxSession
NoSession == 0
Links == 0 .. PoolSize - 1
Threads == Conns \cup Links \cup {Heart, Collector}

\* remoteClientPool.Send: the answers of a session come back on its link.
Link(s) == s % PoolSize

Init ==
    /\ bySession = {}
    /\ byPlayer = [p \in Players |-> NoSession]
    /\ nextID = 0
    /\ state = [s \in Sessions |-> "Init"]
    /\ playerID = [s \in Sessions |-> NoPlayer]
    /\ conn = [s \in Sessions |-> NoConn]
    /\ sessionID = [c \in Conns |-> NoSession]
    /\ reading = Conns
    /\ closed = {}
    /\ logins = [s \in Sessions |-> 0]
    /\ notified = [s \in Sessions |-> "none"]
    /\ pc = [t \in Threads |-> "idle"]
    /\ ses = [t \in Threads |-> NoSession]
    /\ vic = [t \in Threads |-> NoSession]
    /\ hold = [t \in Threads |-> NoConn]
    /\ role = [t \in Threads |-> NoPlayer]
    /\ msg = [t \in Threads |-> "none"]
    /\ raced = {}
    /\ crashed = NoSession

-----------------------------------------------------------------------------
At(t, label) == pc[t] = label
Idle(t) == At(t, "idle")

\* GC holds the lock while it looks at a session and closes it.
Locked == At(Collector, "close")

\* SessionManager.Get finds s.
Known(s) == ~Locked /\ s \in bySession

Begin(t, s, label) ==
    /\ pc' = [pc EXCEPT ![t] = label]
    /\ ses' = [ses EXCEPT ![t] = s]
    /\ UNCHANGED <<vic, hold, role, msg>>

Goto(t, label) == pc' = [pc EXCEPT ![t] = label] /\ UNCHANGED <<ses, vic, hold, role, msg>>

\* A handler calls sendToService, directly or through a notice.
ToService(t, what) ==
    /\ pc' = [pc EXCEPT ![t] = "service"]
    /\ msg' = [msg EXCEPT ![t] = what]
    /\ UNCHANGED <<ses, vic, hold, role>>

End(t) ==
    /\ pc' = [pc EXCEPT ![t] = "idle"]
    /\ ses' = [ses EXCEPT ![t] = NoSession]
    /\ vic' = [vic EXCEPT ![t] = NoSession]
    /\ hold' = [hold EXCEPT ![t] = NoConn]
    /\ role' = [role EXCEPT ![t] = NoPlayer]
    /\ msg' = [msg EXCEPT ![t] = "none"]

\* onSessionOffline returns: to onLoginRsp, or the handler is over.
Return(t) ==
    IF t \in Links
    THEN /\ pc' = [pc EXCEPT ![t] = "auth"]
         /\ vic' = [vic EXCEPT ![t] = NoSession]
         /\ hold' = [hold EXCEPT ![t] = NoConn]
         /\ msg' = [msg EXCEPT ![t] = "none"]
         /\ UNCHANGED <<ses, role>>
    ELSE End(t)

\* The session goroutine t is about: the one it takes offline, or its own.
Subject(t) == IF vic[t] # NoSession THEN vic[t] ELSE ses[t]

Connected(t) == conn[Subject(t)] # NoConn

-----------------------------------------------------------------------------
(* sendToService of msg[t]: the look-up and the nil test of s.Conn, then   *)
(* its use, then the link's queue.                                         *)

Notices == {"offline", "resume"}

Deliver(t) ==
    /\ notified' = IF msg[t] \in Notices THEN [notified EXCEPT ![Subject(t)] = msg[t]] ELSE notified
    /\ logins' = IF msg[t] = "login" THEN [logins EXCEPT ![ses[t]] = @ + 1] ELSE logins
    /\ Return(t)

\* notifyPlayerOffline and notifyPlayerResume of a session without a player.
NoticeOfNobody(t) == msg[t] \in Notices /\ playerID[Subject(t)] = NoPlayer

Silent(t) ==
    /\ At(t, "service")
    /\ NoticeOfNobody(t)
    /\ Return(t)
    /\ UNCHANGED <<managerVars, sessionVars, connVars, logins>>

Service(t) ==
    /\ At(t, "service")
    /\ ~NoticeOfNobody(t)
    /\ ~Locked
    /\ IF Subject(t) \in bySession /\ Connected(t)
       THEN Goto(t, "trace") /\ UNCHANGED <<notified, logins>>
       ELSE Deliver(t)
    /\ UNCHANGED <<managerVars, state, playerID, conn, connVars>>

Trace(t) ==
    /\ At(t, "trace")
    /\ Connected(t)
    /\ Deliver(t)
    /\ UNCHANGED <<managerVars, state, playerID, conn, connVars>>

-----------------------------------------------------------------------------
(* onSessionOffline of vic[t].                                             *)

\* onSessionOffline does not return at once.
Leaves(s) == state[s] # "Closed" /\ ~(state[s] = "Offline" /\ conn[s] = NoConn)

\* A handler of s calls onSessionOffline for it: the tests, and s.Conn is read.
BeginOffline(t, s) ==
    /\ pc' = [pc EXCEPT ![t] = "offlineConn"]
    /\ ses' = [ses EXCEPT ![t] = s]
    /\ vic' = [vic EXCEPT ![t] = s]
    /\ hold' = [hold EXCEPT ![t] = conn[s]]
    /\ UNCHANGED <<role, msg>>

OfflineConn(t) ==
    /\ At(t, "offlineConn")
    /\ closed' = closed \cup ({hold[t]} \ {NoConn})
    /\ conn' = [conn EXCEPT ![vic[t]] = NoConn]
    /\ Goto(t, "offlineState")
    /\ UNCHANGED <<managerVars, state, playerID, notified, sessionID, reading, logins>>

\* Variant: wasOnline is computed after the state is overwritten.
WasOnlineLate(s) == FALSE

WasOnline(s) == state[s] # "Offline"

OfflineState(t) ==
    /\ At(t, "offlineState")
    /\ state' = [state EXCEPT ![vic[t]] = "Offline"]
    /\ IF WasOnline(vic[t]) THEN ToService(t, "offline") ELSE Return(t)
    /\ UNCHANGED <<managerVars, playerID, conn, notified, connVars, logins>>

-----------------------------------------------------------------------------
(* Reply: tests s.Conn, then sends on it.                                  *)

Reply(t) ==
    /\ At(t, "reply")
    /\ ~Locked
    /\ IF ses[t] \in bySession /\ Connected(t) THEN Goto(t, "send") ELSE End(t)
    /\ UNCHANGED <<managerVars, sessionVars, connVars, logins>>

Send(t) ==
    /\ At(t, "send")
    /\ Connected(t)
    /\ End(t)
    /\ UNCHANGED <<managerVars, sessionVars, connVars, logins>>

-----------------------------------------------------------------------------
(* The read loop of c.                                                     *)

\* The read loop is between two messages.
Reads(c) == c \in reading /\ Idle(c)

\* writeLoop or Send closes the connection; so does a rejected message.
Teardown(c) ==
    /\ c \in reading \ closed
    /\ closed' = closed \cup {c}
    /\ UNCHANGED <<managerVars, sessionVars, sessionID, reading, logins, locals>>

\* ReadEnvelope fails; onConnClose looks its session up ...
ReadError(c) ==
    /\ Reads(c)
    /\ ~Locked
    /\ reading' = reading \ {c}
    /\ IF sessionID[c] \in bySession THEN Begin(c, sessionID[c], "closeConn") ELSE UNCHANGED locals
    /\ UNCHANGED <<managerVars, sessionVars, sessionID, closed, logins>>

\* ... and writes to it.
CloseConn(c) ==
    /\ At(c, "closeConn")
    /\ conn' = [conn EXCEPT ![ses[c]] = NoConn]
    /\ Goto(c, "closeState")
    /\ UNCHANGED <<managerVars, state, playerID, notified, connVars, logins>>

CloseState(c) ==
    /\ At(c, "closeState")
    /\ state' = [state EXCEPT ![ses[c]] = "Offline"]
    /\ ToService(c, "offline")
    /\ UNCHANGED <<managerVars, playerID, conn, notified, connVars, logins>>

\* Variant: the "resume on bound conn" test is dropped.
UnboundDropped(c) == Reads(c)

Unbound(c) == Reads(c) /\ sessionID[c] = NoSession

\* handleResume: the session passes the tests, the old connection is closed ...
Resume(c, s) ==
    /\ Unbound(c)
    /\ Known(s)
    /\ state[s] \notin {"Authing", "Closed"}
    /\ closed' = closed \cup ({conn[s]} \ {NoConn, c})
    /\ Begin(c, s, "resumeConn")
    /\ UNCHANGED <<managerVars, sessionVars, sessionID, reading, logins>>

\* ... and the new one bound ...
ResumeConn(c) ==
    /\ At(c, "resumeConn")
    /\ conn' = [conn EXCEPT ![ses[c]] = c]
    /\ Goto(c, "resumeState")
    /\ UNCHANGED <<managerVars, state, playerID, notified, connVars, logins>>

ResumeState(c) ==
    /\ At(c, "resumeState")
    /\ state' = [state EXCEPT ![ses[c]] =
                    IF playerID[ses[c]] = NoPlayer THEN "Online" ELSE "Authenticated"]
    /\ Goto(c, "resumeBind")
    /\ UNCHANGED <<managerVars, playerID, conn, notified, connVars, logins>>

\* ... and learns its session last; only its own read loop looks at that.
ResumeBind(c) ==
    /\ At(c, "resumeBind")
    /\ sessionID' = [sessionID EXCEPT ![c] = ses[c]]
    /\ ToService(c, "resume")
    /\ UNCHANGED <<managerVars, sessionVars, reading, closed, logins>>

\* The first LoginReq: nobody else knows the session before Add.
FirstLogin(c) ==
    /\ Unbound(c)
    /\ ~Locked
    /\ nextID < MaxSession
    /\ nextID' = nextID + 1
    /\ conn' = [conn EXCEPT ![nextID + 1] = c]
    /\ state' = [state EXCEPT ![nextID + 1] = "Online"]
    /\ sessionID' = [sessionID EXCEPT ![c] = nextID + 1]
    /\ bySession' = bySession \cup {nextID + 1}
    /\ pc' = [pc EXCEPT ![c] = "service"]
    /\ ses' = [ses EXCEPT ![c] = nextID + 1]
    /\ msg' = [msg EXCEPT ![c] = "login"]
    /\ UNCHANGED <<byPlayer, playerID, notified, reading, closed, logins, vic, hold, role>>

\* A message on c reaches s.
Serves(c, s) ==
    /\ Reads(c)
    /\ sessionID[c] = s
    /\ Known(s)
    /\ state[s] # "Offline"

\* LoginReq of an Online session ...
LoginAgain(c, s) ==
    /\ Serves(c, s)
    /\ state[s] = "Online"
    /\ logins[s] < MaxLogins
    /\ Begin(c, s, "authing")
    /\ UNCHANGED <<managerVars, sessionVars, connVars, logins>>

\* ... which becomes Authing ...
Authing(c) ==
    /\ At(c, "authing")
    /\ state' = [state EXCEPT ![ses[c]] = "Authing"]
    /\ Goto(c, "permit")
    /\ UNCHANGED <<managerVars, playerID, conn, notified, connVars, logins>>

\* ... and is sent on, unless State is Online again when it is read.
Permit(c) ==
    /\ At(c, "permit")
    /\ IF state[ses[c]] = "Online" THEN End(c) ELSE ToService(c, "login")
    /\ UNCHANGED <<managerVars, sessionVars, connVars, logins>>

\* A message that is routed to the service or the game server.
Routed(c, s) ==
    /\ Serves(c, s)
    /\ state[s] # "Online"
    /\ pc' = [pc EXCEPT ![c] = "service"]
    /\ ses' = [ses EXCEPT ![c] = s]
    /\ msg' = [msg EXCEPT ![c] = "route"]
    /\ UNCHANGED <<vic, hold, role, managerVars, sessionVars, connVars, logins>>

\* handleDuplicateLogin, on a connection the session no longer uses, and the
\* limit on unknown messages.
KickedByRead(c, s) ==
    /\ Serves(c, s)
    /\ state[s] # "Online"
    /\ Leaves(s)
    /\ BeginOffline(c, s)
    /\ UNCHANGED <<managerVars, sessionVars, connVars, logins>>

HeartbeatReq(c, s) ==
    /\ Serves(c, s)
    /\ state[s] # "Online"
    /\ Begin(c, s, "beat")
    /\ UNCHANGED <<managerVars, sessionVars, connVars, logins>>

\* onHeartbeat: the look-up and the nil test ...
Heartbeat(c) ==
    /\ At(c, "beat")
    /\ ~Locked
    /\ IF ses[c] \notin bySession THEN End(c) ELSE Goto(c, IF Connected(c) THEN "mark" ELSE "reply")
    /\ UNCHANGED <<managerVars, sessionVars, connVars, logins>>

\* ... and the connection's clock is set, before the Reply.
MarkAlive(c) ==
    /\ At(c, "mark")
    /\ Connected(c)
    /\ Goto(c, "reply")
    /\ UNCHANGED <<managerVars, sessionVars, connVars, logins>>

-----------------------------------------------------------------------------
(* OnServiceEnvelope, on the link of s.                                    *)

LoginRsp(s, p) ==
    /\ Idle(Link(s))
    /\ logins[s] > 0
    /\ Known(s)
    /\ logins' = [logins EXCEPT ![s] = @ - 1]
    /\ pc' = [pc EXCEPT ![Link(s)] = "bind"]
    /\ ses' = [ses EXCEPT ![Link(s)] = s]
    /\ role' = [role EXCEPT ![Link(s)] = p]
    /\ UNCHANGED <<vic, hold, msg, managerVars, sessionVars, connVars>>

\* BindPlayer, under the lock; the session may have been collected since.
Bind(v) ==
    /\ At(v, "bind")
    /\ ~Locked
    /\ LET old == byPlayer[role[v]] IN
       /\ vic' = [vic EXCEPT ![v] = IF old = ses[v] THEN NoSession ELSE old]
       /\ pc' = [pc EXCEPT ![v] = IF old \in {NoSession, ses[v]} THEN "auth" ELSE "kick"]
    /\ byPlayer' = [byPlayer EXCEPT ![role[v]] = ses[v]]
    /\ playerID' = [playerID EXCEPT ![ses[v]] = role[v]]
    /\ UNCHANGED <<ses, hold, role, msg, bySession, nextID, state, conn, notified, connVars,
                   logins>>

\* Kick: the displaced session is looked up and tested.
Kick(v) ==
    /\ At(v, "kick")
    /\ ~Locked
    /\ IF vic[v] \in bySession /\ conn[vic[v]] # NoConn /\ Leaves(vic[v])
       THEN /\ pc' = [pc EXCEPT ![v] = "offlineConn"]
            /\ hold' = [hold EXCEPT ![v] = conn[vic[v]]]
            /\ UNCHANGED <<ses, vic, role, msg>>
       ELSE Return(v)
    /\ UNCHANGED <<managerVars, sessionVars, connVars, logins>>

Authenticate(v) ==
    /\ At(v, "auth")
    /\ playerID' = [playerID EXCEPT ![ses[v]] = role[v]]
    /\ state' = [state EXCEPT ![ses[v]] = "Authenticated"]
    /\ Goto(v, "reply")
    /\ UNCHANGED <<managerVars, conn, notified, connVars, logins>>

\* Anything else the service sends to a session.
Push(s) ==
    /\ Idle(Link(s))
    /\ Known(s)
    /\ conn[s] # NoConn
    /\ Begin(Link(s), s, "send")
    /\ UNCHANGED <<managerVars, sessionVars, connVars, logins>>

-----------------------------------------------------------------------------
(* heartbeatLoop and gcLoop.                                               *)

\* checkHeartbeat tests the connection ...
CheckHeartbeat(s) ==
    /\ Idle(Heart)
    /\ Known(s)
    /\ state[s] = "Online"
    /\ conn[s] # NoConn
    /\ Begin(Heart, s, "alive")
    /\ UNCHANGED <<managerVars, sessionVars, connVars, logins>>

\* ... and reads its clock.
CheckAlive ==
    /\ At(Heart, "alive")
    /\ Connected(Heart)
    /\ IF Leaves(ses[Heart]) THEN End(Heart) \/ BeginOffline(Heart, ses[Heart]) ELSE End(Heart)
    /\ UNCHANGED <<managerVars, sessionVars, connVars, logins>>

CheckAuthing(s) ==
    /\ Idle(Collector)
    /\ Known(s)
    /\ state[s] = "Authing"
    /\ BeginOffline(Collector, s)
    /\ UNCHANGED <<managerVars, sessionVars, connVars, logins>>

Reclaimable(s) == s \in bySession /\ state[s] = "Offline"

\* GC takes the lock and finds s dead ...
Collect(s) ==
    /\ Idle(Collector)
    /\ Reclaimable(s)
    /\ Begin(Collector, s, "close")
    /\ UNCHANGED <<managerVars, sessionVars, connVars, logins>>

\* ... and closes it, whatever the handlers without the lock did meanwhile.
Close ==
    /\ At(Collector, "close")
    /\ LET s == ses[Collector] IN
       /\ state' = [state EXCEPT ![s] = "Closed"]
       /\ byPlayer' = [p \in Players |-> IF p = playerID[s] THEN NoSession ELSE byPlayer[p]]
       /\ bySession' = bySession \ {s}
    /\ End(Collector)
    /\ UNCHANGED <<nextID, playerID, conn, notified, connVars, logins>>

-----------------------------------------------------------------------------
\* What a goroutine goes on with once it is in a handler.
ReadWork(c) ==
    \/ CloseConn(c) \/ CloseState(c)
    \/ ResumeConn(c) \/ ResumeState(c) \/ ResumeBind(c)
    \/ Authing(c) \/ Permit(c)
    \/ Heartbeat(c) \/ MarkAlive(c)

LinkWork(v) == Bind(v) \/ Kick(v) \/ Authenticate(v)

Work(t) ==
    \/ OfflineConn(t) \/ OfflineState(t)
    \/ Silent(t) \/ Service(t) \/ Trace(t)
    \/ Reply(t) \/ Send(t)
    \/ t \in Conns /\ ReadWork(t)
    \/ t \in Links /\ LinkWork(t)
    \/ t = Heart /\ CheckAlive
    \/ t = Collector /\ Close

\* Where a goroutine uses the connection it found not to be nil.
Uses == {"send", "trace", "mark", "alive"}

\* It is nil by now.
Panic(t) ==
    /\ crashed = NoSession
    /\ pc[t] \in Uses
    /\ ~Connected(t)
    /\ crashed' = Subject(t)
    /\ UNCHANGED <<managerVars, sessionVars, connVars, logins, locals, raced>>

\* What starts a handler.
Arrival ==
    \/ \E c \in Conns : Teardown(c) \/ ReadError(c) \/ FirstLogin(c)
    \/ \E c \in Conns, s \in Sessions :
          \/ Resume(c, s) \/ LoginAgain(c, s) \/ Routed(c, s)
          \/ KickedByRead(c, s) \/ HeartbeatReq(c, s)
    \/ \E s \in Sessions, p \in Players : LoginRsp(s, p)
    \/ \E s \in Sessions : Push(s) \/ CheckHeartbeat(s) \/ CheckAuthing(s) \/ Collect(s)

\* The sessions goroutine t works on.
WorksOn(t) == {ses[t], vic[t]} \ {NoSession}

Observe ==
    raced' = raced \cup
        {s \in Sessions : \E t, u \in Threads : t # u /\ s \in WorksOn(t)' /\ s \in WorksOn(u)'}

Busy == {t \in Threads : ~Idle(t)}

Starts(Handler) ==
    /\ crashed = NoSession
    /\ Handler
    /\ Cardinality(Busy') <= MaxBusy
    /\ UNCHANGED crashed
    /\ Observe

Goes(t) == crashed = NoSession /\ Work(t) /\ UNCHANGED crashed /\ Observe

Next == Starts(Arrival) \/ \E t \in Threads : Goes(t) \/ Panic(t)

Spec == Init /\ [][Next]_vars

-----------------------------------------------------------------------------
\* A reply for a session is never written to a connection of another one, in
\* whatever order handlers write the two links: a session's connection carries
\* its id, or its read loop is about to set it.
RepliesGoHome ==
    \A s \in Sessions : conn[s] # NoConn =>
        \/ sessionID[conn[s]] = s
        \/ sessionID[conn[s]] = NoSession /\ ses[conn[s]] = s /\ pc[conn[s]] \in {"resumeState", "resumeBind"}

\* No handler works on s.
Quiet(s) == \A t \in Threads : s \notin WorksOn(t)

\* What Gate proves of handlers that are not interrupted (LinkCoherent,
\* StateCoherent, OfflineIsNotified, AttachedNotOffline) holds of every session
\* on which no two handlers overlapped, between its handlers; and no handler
\* panics on the nil connection of such a session, in Reply, sendToService,
\* onHeartbeat or checkHeartbeat, whatever is done to the others.
UnracedIsCoherent ==
    \A s \in Sessions \ raced :
        /\ crashed # s
        /\ Quiet(s) =>
              /\ conn[s] # NoConn =>
                    /\ sessionID[conn[s]] = s /\ conn[s] \in reading
                    /\ state[s] \in {"Online", "Authing", "Authenticated"}
                    /\ notified[s] # "offline"
              /\ state[s] \in {"Online", "Authing"} => conn[s] # NoConn /\ playerID[s] = NoPlayer
              /\ state[s] = "Offline" /\ playerID[s] # NoPlayer => notified[s] = "offline"
              /\ s \in bySession <=> state[s] \notin {"Init", "Closed"}

\* No registered session holds on to a connection whose read loop has ended,
\* however onSessionOffline, onConnClose and handleResume overlap: a read error,
\* the one thing certain to release it, is still to come.
NoConnLeaked ==
    \A s \in bySession : conn[s] # NoConn => conn[s] \in reading \/ At(conn[s], "closeConn")
=============================================================================
