-------------------------------- MODULE Gate --------------------------------
(***************************************************************************)
(* The gate's session layer (src/Server/internal/gate): client             *)
(* connections, sessions, the two indexes of SessionManager, login,        *)
(* resume, kick, timeouts and garbage collection, and the lifecycle        *)
(* notices the gate sends on to the game server.                           *)
(*                                                                         *)
(* One action is one call of a handler: OnEnvelope on a connection's read  *)
(* loop, OnServiceEnvelope on a remote client's read loop, the body of a   *)
(* heartbeatLoop or gcLoop tick for one session, onConnClose.  Handlers    *)
(* interleave; a handler is not interrupted (GateRace splits them).        *)
(*                                                                         *)
(* Clock readings (LastSeen, AuthStart, lastAlive) are abstracted: a       *)
(* timeout may fire whenever the state it looks at is one it applies to    *)
(* (GateTimers has the clocks).                                            *)
(***************************************************************************)
EXTENDS Integers, FiniteSets

CONSTANTS
    Conns,       \* client connections that are ever accepted
    Players,     \* role ids, the non-zero PlayerId values
    NoConn,      \* a nil *Conn
    NoPlayer,    \* PlayerId 0
    MaxSession,  \* bound on the session ids handed out
    MaxLogins,   \* bound on the LoginReqs of one session in flight
    KickLimit,   \* unknown_msg_kick_count of gate.yaml
    MaxUnknown   \* bound on UnknownMsgCount

ASSUME GateAssumption ==
    /\ NoConn \notin Conns
    /\ NoPlayer \notin Players
    /\ MaxSession \in Nat /\ MaxLogins \in Nat /\ MaxUnknown \in Nat
    /\ KickLimit \in Nat \ {0}

VARIABLES
    \* SessionManager and Gate
    bySession, byPlayer, nextID, unknownMsgKickCount,
    \* Session
    state, playerID, conn, unknownMsgCount,
    \* Conn: the session id it carries, its read loop, the conns Close()d
    sessionID, reading, closed,
    \* LoginReqs of a session not yet answered; the session's last notice
    \* to the game server
    logins, notified

connVars == <<sessionID, reading, closed>>
sessionVars == <<state, playerID, conn, unknownMsgCount, notified>>
managerVars == <<bySession, byPlayer, nextID, unknownMsgKickCount>>
vars == <<bySession, byPlayer, nextID, unknownMsgKickCount, state, playerID,
          conn, unknownMsgCount, sessionID, reading, closed, logins, notified>>

Sessions == 1 .. MaxSession
NoSession == 0

States == {"Init", "Online", "Authing", "Authenticated", "Offline", "Closed"}

Notices == [kind : {"none", "resume", "offline"}, player : Players \cup {NoPlayer}]

NoNotice == [kind |-> "none", player |-> NoPlayer]
ResumeNotice(p) == [kind |-> "resume", player |-> p]
OfflineNotice(p) == [kind |-> "offline", player |-> p]

-----------------------------------------------------------------------------
Init ==
    /\ bySession = {}
    /\ byPlayer = [p \in Players |-> NoSession]
    /\ nextID = 0
    /\ unknownMsgKickCount = KickLimit
    /\ state = [s \in Sessions |-> "Init"]
    /\ playerID = [s \in Sessions |-> NoPlayer]
    /\ conn = [s \in Sessions |-> NoConn]
    /\ unknownMsgCount = [s \in Sessions |-> 0]
    /\ sessionID = [c \in Conns |-> NoSession]
    /\ reading = [c \in Conns |-> "idle"]
    /\ closed = {}
    /\ logins = [s \in Sessions |-> 0]
    /\ notified = [s \in Sessions |-> NoNotice]

-----------------------------------------------------------------------------
(* onSessionOffline, applied to each session of T.                         *)

\* The sessions onSessionOffline does not return from at once.
Leaving(T) ==
    {s \in T : state[s] # "Closed" /\ ~(state[s] = "Offline" /\ conn[s] = NoConn)}

\* Variant: s.Conn is not cleared.
UnlinkedForgotten(T) == conn

Unlinked(T) == [s \in Sessions |-> IF s \in Leaving(T) THEN NoConn ELSE conn[s]]

ClosedWith(T) == closed \cup ({conn[s] : s \in Leaving(T)} \ {NoConn})

GoneOffline(T) == [s \in Sessions |-> IF s \in Leaving(T) THEN "Offline" ELSE state[s]]

\* Variant: wasOnline is computed after the state is overwritten.
OfflineNoticesLate(T) == notified

\* notifyPlayerOffline: silent for a session that has no player yet.
OfflineNotices(T) ==
    [s \in Sessions |->
        IF s \in Leaving(T) /\ state[s] # "Offline" /\ playerID[s] # NoPlayer
        THEN OfflineNotice(playerID[s]) ELSE notified[s]]

OnSessionOffline(T) ==
    /\ conn' = Unlinked(T)
    /\ closed' = ClosedWith(T)
    /\ state' = GoneOffline(T)
    /\ notified' = OfflineNotices(T)

\* Kick takes a session offline when it is known and has a connection.
Kickable(s) == s \in bySession /\ conn[s] # NoConn

-----------------------------------------------------------------------------
(* Client connections: ReadLoop, writeLoop, Send.                          *)

\* handleConn / handleWSConn: the loops of a new connection start.
Accept(c) ==
    /\ reading[c] = "idle"
    /\ reading' = [reading EXCEPT ![c] = "reading"]
    /\ UNCHANGED <<sessionID, closed, logins, sessionVars, managerVars>>

CloseConn(c) ==
    /\ closed' = closed \cup {c}
    /\ UNCHANGED <<sessionID, reading, logins, sessionVars, managerVars>>

\* writeLoop fails to write, or Send finds the queue full for the fifth time.
ConnTeardown(c) ==
    /\ reading[c] # "idle"
    /\ c \notin closed
    /\ CloseConn(c)

\* The session onConnClose works on, if any: it is found by id, whatever
\* connection that session now has.
ClosedSession(c) == {sessionID[c]} \cap bySession

\* ReadEnvelope fails; onConnClose runs and the read loop ends.
ReadError(c) ==
    /\ reading[c] = "reading"
    /\ reading' = [reading EXCEPT ![c] = "ended"]
    /\ LET T == ClosedSession(c) IN
       /\ conn' = [s \in Sessions |-> IF s \in T THEN NoConn ELSE conn[s]]
       /\ state' = [s \in Sessions |-> IF s \in T THEN "Offline" ELSE state[s]]
       /\ notified' = [s \in Sessions |->
                          IF s \in T /\ playerID[s] # NoPlayer
                          THEN OfflineNotice(playerID[s]) ELSE notified[s]]
    /\ UNCHANGED <<sessionID, closed, logins, playerID, unknownMsgCount, managerVars>>

-----------------------------------------------------------------------------
(* handleResume.                                                           *)

\* Variant: the "resume on bound conn" test is dropped.
UnboundDropped(c) == reading[c] = "reading"

\* c is read and carries no session yet.
Unbound(c) == reading[c] = "reading" /\ sessionID[c] = NoSession

\* A ResumeReq on a connection that already carries a session.
ResumeOnBoundConn(c) ==
    /\ reading[c] = "reading"
    /\ sessionID[c] # NoSession
    /\ CloseConn(c)

\* Undecodable request, unknown session or bad token; or a session that is
\* being authenticated.
ResumeRejected(c) ==
    /\ Unbound(c)
    /\ CloseConn(c)

Resumable(s) == s \in bySession /\ state[s] \notin {"Authing", "Closed"}

\* Variant: the nil test on the old connection is dropped.
ReplacedUnchecked(s, c) == {conn[s]} \ {c}

\* The connection a resume replaces is closed.
Replaced(s, c) == {conn[s]} \ {NoConn, c}

\* Variant: the game server is not told.
ResumeNoticesDropped(s) == notified

\* notifyPlayerResume: silent for a session that has no player yet.
ResumeNotices(s) ==
    IF playerID[s] = NoPlayer THEN notified
    ELSE [notified EXCEPT ![s] = ResumeNotice(playerID[s])]

ResumedState(s) == IF playerID[s] = NoPlayer THEN "Online" ELSE "Authenticated"

Resume(c, s) ==
    /\ Unbound(c)
    /\ Resumable(s)
    /\ closed' = closed \cup Replaced(s, c)
    /\ conn' = [conn EXCEPT ![s] = c]
    /\ sessionID' = [sessionID EXCEPT ![c] = s]
    /\ state' = [state EXCEPT ![s] = ResumedState(s)]
    /\ notified' = ResumeNotices(s)
    /\ unknownMsgKickCount' = 0
    /\ UNCHANGED <<bySession, byPlayer, nextID, playerID, unknownMsgCount,
                   reading, logins>>

-----------------------------------------------------------------------------
(* OnEnvelope, the other messages.  A heartbeat, a routed business message *)
(* or a rate-limited login changes only clocks and counters that are not   *)
(* modelled.                                                               *)

\* Anything but a LoginReq on a connection without a session.
RejectUnbound(c) ==
    /\ Unbound(c)
    /\ CloseConn(c)

\* createSessionForConn: a new session, Online, with c as its connection.
CreateSession(c, s) ==
    /\ nextID' = s
    /\ bySession' = bySession \cup {s}
    /\ conn' = [conn EXCEPT ![s] = c]
    /\ state' = [state EXCEPT ![s] = "Online"]
    /\ sessionID' = [sessionID EXCEPT ![c] = s]

\* The first LoginReq is passed on to the service; the session stays Online.
FirstLogin(c) ==
    /\ Unbound(c)
    /\ nextID < MaxSession
    /\ MaxLogins > 0
    /\ CreateSession(c, nextID + 1)
    /\ logins' = [logins EXCEPT ![nextID + 1] = @ + 1]
    /\ UNCHANGED <<byPlayer, unknownMsgKickCount, playerID, unknownMsgCount,
                   notified, reading, closed>>

\* The session of the connection was collected.
RejectNoSession(c) ==
    /\ reading[c] = "reading"
    /\ sessionID[c] # NoSession
    /\ sessionID[c] \notin bySession
    /\ CloseConn(c)

\* A message on c reaches session s: it is registered and not Offline.
Serves(c, s) ==
    /\ reading[c] = "reading"
    /\ sessionID[c] = s
    /\ s \in bySession
    /\ state[s] # "Offline"

\* LoginReq of a session that is Online.
LoginAgain(c, s) ==
    /\ Serves(c, s)
    /\ state[s] = "Online"
    /\ logins[s] < MaxLogins
    /\ state' = [state EXCEPT ![s] = "Authing"]
    /\ logins' = [logins EXCEPT ![s] = @ + 1]
    /\ UNCHANGED <<playerID, conn, unknownMsgCount, notified, connVars, managerVars>>

\* handleDuplicateLogin: LoginReq of an authenticated session that arrives on
\* a connection the session no longer uses.
LoginDuplicate(c, s) ==
    /\ Serves(c, s)
    /\ state[s] = "Authenticated"
    /\ conn[s] # c
    /\ Kickable(s)
    /\ OnSessionOffline({s})
    /\ UNCHANGED <<playerID, unknownMsgCount, sessionID, reading, logins, managerVars>>

\* Variant: off by one.
KickForUnknownLate(n) == unknownMsgKickCount > 0 /\ n > unknownMsgKickCount

KickForUnknown(n) == unknownMsgKickCount > 0 /\ n >= unknownMsgKickCount

\* A message without a route.
UnknownMsg(c, s) ==
    /\ Serves(c, s)
    /\ state[s] # "Online"
    /\ unknownMsgCount[s] < MaxUnknown
    /\ unknownMsgCount' = [unknownMsgCount EXCEPT ![s] = @ + 1]
    /\ OnSessionOffline(IF KickForUnknown(unknownMsgCount[s] + 1) THEN {s} ELSE {})
    /\ UNCHANGED <<playerID, sessionID, reading, logins, managerVars>>

-----------------------------------------------------------------------------
(* OnServiceEnvelope.                                                      *)

\* Variant: only a session that has not logged in is displaced.
DisplacedOnline(s, p) ==
    {t \in {byPlayer[p]} \ {NoSession, s} : Kickable(t) /\ state[t] = "Online"}

\* The session a login of p by s displaces: the one the index holds for p.
Displaced(s, p) == {t \in {byPlayer[p]} \ {NoSession, s} : Kickable(t)}

\* SessionManager.BindPlayer: both ways under the lock.
BindPlayer(s, p) ==
    /\ byPlayer' = [byPlayer EXCEPT ![p] = s]
    /\ playerID' = [playerID EXCEPT ![s] = p]

LoginRsp(s, p) ==
    /\ logins[s] > 0
    /\ s \in bySession
    /\ logins' = [logins EXCEPT ![s] = @ - 1]
    /\ BindPlayer(s, p)
    /\ conn' = Unlinked(Displaced(s, p))
    /\ closed' = ClosedWith(Displaced(s, p))
    /\ state' = [GoneOffline(Displaced(s, p)) EXCEPT ![s] = "Authenticated"]
    /\ notified' = OfflineNotices(Displaced(s, p))
    /\ unknownMsgKickCount' = 0
    /\ UNCHANGED <<bySession, nextID, unknownMsgCount, sessionID, reading>>

\* The LoginReq or its answer is lost on the way, the service answers with an
\* error, or the session is gone when the answer comes.
LoginLost(s) ==
    /\ logins[s] > 0
    /\ logins' = [logins EXCEPT ![s] = @ - 1]
    /\ UNCHANGED <<connVars, sessionVars, managerVars>>

-----------------------------------------------------------------------------
(* heartbeatLoop and gcLoop.                                               *)

HeartbeatTimeout(s) ==
    /\ s \in bySession
    /\ state[s] = "Online"
    /\ conn[s] # NoConn
    /\ OnSessionOffline({s})
    /\ UNCHANGED <<playerID, unknownMsgCount, sessionID, reading, logins, managerVars>>

AuthTimeout(s) ==
    /\ s \in bySession
    /\ state[s] = "Authing"
    /\ OnSessionOffline({s})
    /\ UNCHANGED <<playerID, unknownMsgCount, sessionID, reading, logins, managerVars>>

\* Variant: the player index is not cleaned.
CollectedNothing(dead) == {}

\* The index entries GC deletes: those of the players of the dead sessions,
\* whatever session the entry holds.
Collected(dead) == {playerID[s] : s \in dead} \ {NoPlayer}

\* Variant: a session that never logged in is collected while connected.
ReclaimableOnline(s) == s \in bySession /\ state[s] \in {"Offline", "Online"}

\* Variant: a session of a player waits for the player for good.
ReclaimableLoggedOut(s) ==
    s \in bySession /\ state[s] = "Offline" /\ playerID[s] = NoPlayer

Reclaimable(s) == s \in bySession /\ state[s] = "Offline"

\* SessionManager.GC holds the lock throughout: dead are the Offline sessions
\* not seen for the timeout.
GC(dead) ==
    /\ dead # {}
    /\ \A s \in dead : Reclaimable(s)
    /\ bySession' = bySession \ dead
    /\ byPlayer' = [p \in Players |-> IF p \in Collected(dead) THEN NoSession ELSE byPlayer[p]]
    /\ state' = [s \in Sessions |-> IF s \in dead THEN "Closed" ELSE state[s]]
    /\ UNCHANGED <<nextID, unknownMsgKickCount, playerID, conn, unknownMsgCount,
                   notified, connVars, logins>>

-----------------------------------------------------------------------------
ConnStep(c) ==
    \/ Accept(c)
    \/ ConnTeardown(c)
    \/ ReadError(c)
    \/ ResumeOnBoundConn(c)
    \/ ResumeRejected(c)
    \/ \E s \in Sessions : Resume(c, s)
    \/ RejectUnbound(c)
    \/ FirstLogin(c)
    \/ RejectNoSession(c)
    \/ \E s \in Sessions : LoginAgain(c, s)
    \/ \E s \in Sessions : LoginDuplicate(c, s)
    \/ \E s \in Sessions : UnknownMsg(c, s)

SessionStep(s) ==
    \/ \E p \in Players : LoginRsp(s, p)
    \/ LoginLost(s)
    \/ HeartbeatTimeout(s)
    \/ AuthTimeout(s)

Next ==
    \/ \E c \in Conns : ConnStep(c)
    \/ \E s \in Sessions : SessionStep(s)
    \/ \E dead \in SUBSET Sessions : GC(dead)

Spec == Init /\ [][Next]_vars

\* What the runtime's scheduling gives: the read of a closed connection fails
\* (its buffer is finite), and gcLoop's ticker reaches a session that stays
\* Offline past its deadline.  A client and the service owe nothing.
Fairness ==
    /\ \A c \in Conns : WF_vars(c \in closed /\ ReadError(c))
    /\ \A s \in Sessions : WF_vars(\E dead \in SUBSET Sessions : s \in dead /\ GC(dead))

FairSpec == Spec /\ Fairness

-----------------------------------------------------------------------------
\* Every variable keeps the range its Go type and the bounds give it.
TypeOK ==
    /\ bySession \subseteq Sessions
    /\ byPlayer \in [Players -> Sessions \cup {NoSession}]
    /\ nextID \in 0 .. MaxSession
    /\ unknownMsgKickCount \in {0, KickLimit}
    /\ state \in [Sessions -> States]
    /\ playerID \in [Sessions -> Players \cup {NoPlayer}]
    /\ conn \in [Sessions -> Conns \cup {NoConn}]
    /\ unknownMsgCount \in [Sessions -> 0 .. MaxUnknown]
    /\ sessionID \in [Conns -> Sessions \cup {NoSession}]
    /\ reading \in [Conns -> {"idle", "reading", "ended"}]
    /\ closed \subseteq Conns
    /\ logins \in [Sessions -> 0 .. MaxLogins]
    /\ notified \in [Sessions -> Notices]

\* A session's connection carries that session's id and is still being read:
\* Reply never writes to a connection of another session, and a read error is
\* still to come for every attached connection (createSessionForConn,
\* handleResume, onConnClose write the two links separately).
LinkCoherent ==
    \A s \in Sessions : conn[s] # NoConn =>
        sessionID[conn[s]] = s /\ reading[conn[s]] = "reading"

\* Session.State against Session.Conn, PlayerID and the bySession index: only
\* ids already handed out are used, an Offline session has let go of its
\* connection, Online and Authing sessions have one and no player, an
\* Authenticated session has a player.
StateCoherent ==
    \A s \in Sessions :
        /\ state[s] = "Init" <=> s > nextID
        /\ s \in bySession <=> state[s] \notin {"Init", "Closed"}
        /\ conn[s] # NoConn => state[s] \in {"Online", "Authing", "Authenticated"}
        /\ state[s] \in {"Online", "Authing"} => conn[s] # NoConn /\ playerID[s] = NoPlayer
        /\ state[s] = "Authenticated" => playerID[s] # NoPlayer

\* Once a player's session is Offline the last thing the game server was told
\* about that session is that this player went offline, whichever of read
\* error, kick, timeout or displacement took it there.
OfflineIsNotified ==
    \A s \in Sessions : state[s] = "Offline" /\ playerID[s] # NoPlayer =>
        notified[s] = OfflineNotice(playerID[s])

\* The game server is never left believing that an attached session is
\* offline: every path that attaches one again announces it.
AttachedNotOffline ==
    \A s \in Sessions : conn[s] # NoConn => notified[s].kind # "offline"

\* While the unknown-message limit is in force no attached session is at it.
KickLimitEnforced ==
    unknownMsgKickCount > 0 =>
        \A s \in Sessions : conn[s] # NoConn => unknownMsgCount[s] < unknownMsgKickCount

\* What a session has before anything happened to it: no player, unknown message
\* or LoginReq before it is created, and no notice to the game server before it
\* has a player (both notify functions return at once for PlayerId 0).
FreshCoherent ==
    \A s \in Sessions :
        /\ state[s] = "Init" =>
              unknownMsgCount[s] = 0 /\ logins[s] = 0 /\ playerID[s] = NoPlayer
        /\ playerID[s] = NoPlayer => notified[s] = NoNotice

\* BindPlayer and GC keep the player index free of collected sessions, as far
\* as a session is indexed under the player it now has.
IndexNotDangling ==
    \A s \in Sessions, p \in Players :
        byPlayer[p] = s /\ playerID[s] = p => s \in bySession

\* The conjunction is inductive.
IInv ==
    /\ TypeOK
    /\ LinkCoherent
    /\ StateCoherent
    /\ FreshCoherent
    /\ OfflineIsNotified
    /\ AttachedNotOffline
    /\ KickLimitEnforced
    /\ IndexNotDangling

\* When a login takes over a player's index entry, the session that held the
\* entry is left without a connection by the same step.
DisplacedIsDetached ==
    [][\A p \in Players, s \in Sessions :
          byPlayer[p] = s /\ byPlayer'[p] \notin {s, NoSession} => conn'[s] = NoConn]_vars

\* The life of a session as its owner may rely on it (SessionLifecycle): ids
\* are taken in order, a session is closed only from a detached state and for
\* good, and onSessionOffline, onConnClose and handleResume move it between
\* attached and detached.
phaseOf(s) ==
    CASE state[s] = "Init" -> "absent"
      [] state[s] = "Closed" -> "closed"
      [] conn[s] # NoConn -> "attached"
      [] OTHER -> "detached"

phase == [s \in Sessions |-> phaseOf(s)]

Lifecycle == INSTANCE SessionLifecycle WITH MaxSession <- MaxSession, phase <- phase

LifecycleSpec == Lifecycle!Spec

\* A session does not hold on to a connection that was closed under it.
ClosedConnReleased ==
    \A c \in Conns, s \in Sessions :
        conn[s] = c /\ c \in closed ~> conn[s] # c

\* When every connection has ended, every session is reclaimed, except one
\* that an answer to its LoginReq made Authenticated without a connection.
QuietGateReclaims ==
    (\A c \in Conns : reading[c] = "ended") ~>
        \A s \in bySession : state[s] = "Authenticated"
=============================================================================
