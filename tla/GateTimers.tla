------------------------------ MODULE GateTimers ------------------------------
(***************************************************************************)
(* The clocks of one session of the gate (src/Server/internal/gate): the   *)
(* login limiter's window, AuthStart, LastSeen, the connection's lastSeen  *)
(* and read deadline, and the tickers of heartbeatLoop and gcLoop that     *)
(* compare them.                                                           *)
(*                                                                         *)
(* A clock reading t is kept as its age, now - t.  An age stops growing    *)
(* once it is past every bound it is compared with, so time is unbounded.  *)
(* An age that nothing looks at in a state (AuthStart and inState of most, *)
(* the read deadline without a connection) stands still.                   *)
(* The session has one connection at a time: what an old one does to its   *)
(* successor, also after a kick and a resume at once, is Gate's subject.   *)
(***************************************************************************)
EXTENDS Integers, FiniteSets

CONSTANTS
    HeartbeatInterval, HeartbeatTimeout, GcInterval, LoginTimeout, \* gate.yaml
    LoginRateLimitCount, LoginRateLimitWindow,                     \* gate.yaml
    ReadTimeout,  \* conn_read_timeout_sec of gate.yaml
    PongTimeout,  \* the 60 seconds of NewWSConn
    MaxLogins     \* bound on the LoginReqs in flight

ASSUME TimersAssumption ==
    /\ HeartbeatInterval \in Nat \ {0} /\ GcInterval \in Nat \ {0}
    /\ HeartbeatTimeout \in Nat \ {0} /\ LoginTimeout \in Nat \ {0}
    /\ LoginRateLimitCount \in Nat \ {0} /\ LoginRateLimitWindow \in Nat \ {0}
    /\ ReadTimeout \in Nat \ {0} /\ PongTimeout \in Nat \ {0}
    /\ MaxLogins \in Nat \ {0}

VARIABLES
    state, hasPlayer,          \* Session.State; PlayerID # 0
    conn, alive, readLeft,     \* kind of Session.Conn; age of its lastSeen; time to its read deadline
    closing,                   \* the gate closed the connection; its read has yet to fail
    seen, authStart,           \* ages of LastSeen, AuthStart
    windowStart, attempts,     \* age of LoginWindowStart; LoginAttempts, 0 while it is zero
    pending,                   \* LoginReqs sent on and not answered
    heartbeatLeft, gcLeft,     \* time to the next tick of each loop
    passed,                    \* age -> LoginReqs the limiter passed at that age
    inState                    \* age of the last change of state

sessionVars == <<state, hasPlayer, seen, authStart, pending>>
connVars == <<conn, alive, readLeft, closing>>
limitVars == <<windowStart, attempts, passed>>
tickVars == <<heartbeatLeft, gcLeft>>
vars == <<state, hasPlayer, conn, alive, readLeft, closing, seen, authStart, windowStart, attempts,
          pending, heartbeatLeft, gcLeft, passed, inState>>

NoConn == "none"
Kinds == {"tcp", "ws"}
Window == 0 .. LoginRateLimitWindow

Init ==
    /\ state = "Init" /\ hasPlayer = FALSE
    /\ conn = NoConn /\ alive = 0 /\ readLeft = 0 /\ closing = FALSE
    /\ seen = 0 /\ authStart = 0
    /\ windowStart = 0 /\ attempts = 0
    /\ pending = 0
    /\ heartbeatLeft = HeartbeatInterval /\ gcLeft = GcInterval
    /\ passed = [a \in Window |-> 0]
    /\ inState = 0

-----------------------------------------------------------------------------
(* What handlers have in common.                                           *)

Attached == conn # NoConn

\* SetReadDeadline of a new connection.
DeadlineOf(k) == IF k = "tcp" THEN ReadTimeout ELSE PongTimeout

\* ReadLoop: any data marks the connection alive; BufferedConn then sets a new
\* deadline, a WebSocket does so only for a pong.
Received ==
    /\ alive' = 0
    /\ readLeft' = IF conn = "tcp" THEN ReadTimeout ELSE readLeft
    /\ UNCHANGED <<conn, closing>>

NewConn(k) ==
    /\ conn' = k
    /\ alive' = 0
    /\ readLeft' = DeadlineOf(k)
    /\ closing' = FALSE

\* Variant: a window ends one tick early.
WindowOverEarly == attempts = 0 \/ windowStart >= LoginRateLimitWindow

\* The limiter's window is over, or there was none.
WindowOver == attempts = 0 \/ windowStart > LoginRateLimitWindow

\* LoginAttempts with this attempt; further ones past the limit do not matter.
Attempts ==
    IF WindowOver THEN 1
    ELSE IF attempts > LoginRateLimitCount THEN attempts ELSE attempts + 1

AllowLogin == Attempts <= LoginRateLimitCount

\* allowLogin, whatever it returns.
CountLogin ==
    /\ attempts' = Attempts
    /\ windowStart' = IF WindowOver THEN 0 ELSE windowStart
    /\ passed' = IF AllowLogin THEN [passed EXCEPT ![0] = @ + 1] ELSE passed

\* What onSessionOffline and onConnClose write.
Detach ==
    /\ state' = "Offline"
    /\ conn' = NoConn
    /\ alive' = 0
    /\ readLeft' = 0
    /\ seen' = 0
    /\ inState' = 0

\* onSessionOffline also closes the connection.
SessionOffline == Detach /\ closing' = TRUE

-----------------------------------------------------------------------------
(* The client.                                                             *)

\* The first LoginReq creates the session, counts and is sent on.
FirstLogin(k) ==
    /\ state = "Init"
    /\ state' = "Online"
    /\ NewConn(k)
    /\ seen' = 0
    /\ CountLogin
    /\ pending' = 1
    /\ UNCHANGED <<hasPlayer, authStart, tickVars, inState>>

\* Variant: AuthStart is that of the last LoginReq, also of an ignored one.
AuthStartsAlways == AllowLogin /\ state \in {"Online", "Authing"}

\* The login timeout starts with the LoginReq that makes the session Authing.
AuthStarts == AllowLogin /\ state = "Online"

\* A later LoginReq: rate limited, or ignored while Authing or Authenticated.
LoginReq ==
    /\ Attached
    /\ pending < MaxLogins
    /\ Received
    /\ CountLogin
    /\ authStart' = IF AuthStarts THEN 0 ELSE authStart
    /\ IF AllowLogin /\ state = "Online"
       THEN state' = "Authing" /\ seen' = 0 /\ pending' = pending + 1 /\ inState' = 0
       ELSE UNCHANGED <<state, seen, pending, inState>>
    /\ UNCHANGED <<hasPlayer, tickVars>>

\* A heartbeat or a routed message.  Before the LoginReq is answered or repeated
\* the session is Online and both are rejected.
Message ==
    /\ Attached
    /\ Received
    /\ seen' = IF state = "Online" THEN seen ELSE 0
    /\ UNCHANGED <<state, hasPlayer, authStart, pending, limitVars, tickVars, inState>>

\* A message without a route; the limit on these is Kicked.
UnknownMessage ==
    /\ Attached
    /\ state # "Online"
    /\ Received
    /\ UNCHANGED <<sessionVars, limitVars, tickVars, inState>>

\* The pong handler of a WebSocket moves its deadline and nothing else.
Pong ==
    /\ conn = "ws"
    /\ readLeft' = PongTimeout
    /\ UNCHANGED <<sessionVars, conn, alive, closing, limitVars, tickVars, inState>>

\* Variant: a resume keeps the age of the last data.
ResumedAliveKept(k) ==
    conn' = k /\ alive' = alive /\ readLeft' = DeadlineOf(k) /\ closing' = FALSE

\* handleResume: the new connection has just carried the request.
ResumedConn(k) == NewConn(k)

Resume(k) ==
    /\ state \in {"Online", "Authenticated", "Offline"}
    /\ ResumedConn(k)
    /\ seen' = 0
    /\ state' = IF hasPlayer THEN "Authenticated" ELSE "Online"
    /\ UNCHANGED <<hasPlayer, authStart, pending, limitVars, tickVars, inState>>

\* The connection fails, at the latest when its read deadline passes.
Disconnect ==
    /\ Attached
    /\ Detach
    /\ UNCHANGED <<hasPlayer, authStart, pending, closing, limitVars, tickVars>>

\* Displaced by a login elsewhere, or too many unknown messages.
Kicked ==
    /\ Attached
    /\ SessionOffline
    /\ UNCHANGED <<hasPlayer, authStart, pending, limitVars, tickVars>>

\* The read of a connection the gate closed fails, and onConnClose writes State
\* and LastSeen again: a login may have been answered in between.
LateReadError ==
    /\ closing
    /\ closing' = FALSE
    /\ Detach
    /\ UNCHANGED <<hasPlayer, authStart, pending, limitVars, tickVars>>

-----------------------------------------------------------------------------
(* The service's answer.                                                   *)

LoginRsp ==
    /\ pending > 0
    /\ state # "Closed"
    /\ state' = "Authenticated"
    /\ hasPlayer' = TRUE
    /\ pending' = pending - 1
    /\ UNCHANGED <<seen, authStart, connVars, limitVars, tickVars, inState>>

LoginLost ==
    /\ pending > 0
    /\ pending' = pending - 1
    /\ UNCHANGED <<state, hasPlayer, seen, authStart, connVars, limitVars, tickVars, inState>>

-----------------------------------------------------------------------------
(* The tickers.                                                            *)

\* A WebSocket gets half as long again.
TimeoutOf(k) == IF k = "ws" THEN HeartbeatTimeout + HeartbeatTimeout \div 2 ELSE HeartbeatTimeout

CheckHeartbeat ==
    /\ heartbeatLeft = 0
    /\ heartbeatLeft' = HeartbeatInterval
    /\ IF state = "Online" /\ Attached /\ alive > TimeoutOf(conn)
       THEN SessionOffline
       ELSE UNCHANGED <<state, connVars, seen, inState>>
    /\ UNCHANGED <<hasPlayer, authStart, pending, limitVars, gcLeft>>

\* Variant: one tick early.
ExpiredEarly == state = "Offline" /\ seen >= HeartbeatTimeout

\* Variant: the session of a player waits for the player for good.
ExpiredLoggedOut == state = "Offline" /\ ~hasPlayer /\ seen > HeartbeatTimeout

Expired == state = "Offline" /\ seen > HeartbeatTimeout

LoginExpired == state = "Authing" /\ authStart > LoginTimeout

\* checkAuthingTimeout, then GC, which finds LastSeen just written.
CollectTick ==
    /\ gcLeft = 0
    /\ gcLeft' = GcInterval
    /\ \/ LoginExpired /\ SessionOffline
       \/ /\ ~LoginExpired
          /\ state' = IF Expired THEN "Closed" ELSE state
          /\ UNCHANGED <<connVars, seen, inState>>
    /\ UNCHANGED <<hasPlayer, authStart, pending, limitVars, heartbeatLeft>>

\* An age past its bound stays there.
Older(a, bound) == IF a <= bound THEN a + 1 ELSE a

AliveBound == TimeoutOf("ws") + HeartbeatInterval
InStateBound == HeartbeatTimeout + LoginTimeout + GcInterval

\* Time passes unless a tick is due, a read deadline has come or the read of a
\* closed connection has yet to fail: the runtime is on time.
Pass ==
    /\ heartbeatLeft > 0 /\ gcLeft > 0
    /\ Attached => readLeft > 0
    /\ ~closing
    /\ heartbeatLeft' = heartbeatLeft - 1
    /\ gcLeft' = gcLeft - 1
    /\ readLeft' = IF Attached THEN readLeft - 1 ELSE readLeft
    /\ alive' = IF Attached THEN Older(alive, AliveBound) ELSE alive
    /\ seen' = Older(seen, HeartbeatTimeout)
    /\ authStart' = IF state = "Authing" THEN Older(authStart, LoginTimeout) ELSE authStart
    /\ windowStart' = IF attempts > 0 THEN Older(windowStart, LoginRateLimitWindow) ELSE windowStart
    /\ passed' = [a \in Window |-> IF a = 0 THEN 0 ELSE passed[a - 1]]
    /\ inState' = IF state \in {"Authing", "Offline"} THEN Older(inState, InStateBound) ELSE inState
    /\ UNCHANGED <<state, hasPlayer, conn, closing, attempts, pending>>

Next ==
    \/ \E k \in Kinds : FirstLogin(k) \/ Resume(k)
    \/ LoginReq \/ Message \/ UnknownMessage \/ Pong
    \/ Disconnect \/ Kicked \/ LateReadError
    \/ LoginRsp \/ LoginLost
    \/ CheckHeartbeat \/ CollectTick
    \/ Pass

Spec == Init /\ [][Next]_vars

-----------------------------------------------------------------------------
\* The passes of the last LoginRateLimitWindow, each with its age.
Passes == UNION {{a} \X (1 .. passed[a]) : a \in Window}

\* The fixed window of allowLogin: in any stretch of LoginRateLimitWindow, also
\* one that straddles two windows, fewer than twice the limit of a session's
\* LoginReqs reach the service.
PassesBounded == Cardinality(Passes) < 2 * LoginRateLimitCount

\* checkAuthingTimeout runs with gcLoop's ticks: however often the client repeats
\* its LoginReq or sends other messages, a session does not stay Authing longer
\* than the login timeout and one interval.
LoginResolved == state = "Authing" => inState <= LoginTimeout + GcInterval

\* checkHeartbeat: an Online session whose connection has carried nothing, over
\* resumes and changes of its kind, is taken offline within the timeout of that
\* kind and one interval.
SilentIsFound ==
    state = "Online" /\ Attached => alive <= TimeoutOf(conn) + HeartbeatInterval

\* A session that stays Offline is collected within the timeout and one interval
\* of the loss of its connection ...
OfflineIsCollected == state = "Offline" => inState <= HeartbeatTimeout + GcInterval

\* ... and not before the timeout: for that long its client can resume it,
\* whatever timer, error or kick took it offline.
KeptForResume ==
    [][state # "Closed" /\ state' = "Closed" =>
          state = "Offline" /\ inState > HeartbeatTimeout]_vars
=============================================================================
