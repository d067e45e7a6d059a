---------------------------- MODULE TimersProofs ----------------------------
(***************************************************************************)
(* The bounds the clocks of the gate keep, for any intervals, timeouts and *)
(* limits of gate.yaml.                                                    *)
(***************************************************************************)
EXTENDS GateTimers, FiniteSetTheorems, TLAPS

\* Every variable keeps the range its Go type and the model's ages give it.
Types ==
    /\ state \in {"Init", "Online", "Authing", "Authenticated", "Offline", "Closed"}
    /\ hasPlayer \in BOOLEAN
    /\ conn \in Kinds \cup {NoConn}
    /\ closing \in BOOLEAN
    /\ alive \in Nat /\ readLeft \in Nat /\ seen \in Nat /\ authStart \in Nat
    /\ windowStart \in 0 .. LoginRateLimitWindow + 1 /\ attempts \in Nat
    /\ pending \in Nat
    /\ heartbeatLeft \in 0 .. HeartbeatInterval /\ gcLeft \in 0 .. GcInterval
    /\ passed \in [Window -> Nat]
    /\ inState \in Nat

\* An Authing session's AuthStart is when it became so; once that is past the
\* timeout, the next tick of gcLoop comes before the bound.
AuthingClock ==
    state = "Authing" =>
        IF authStart <= LoginTimeout THEN inState = authStart
        ELSE inState + gcLeft <= LoginTimeout + GcInterval

\* So is an Offline session's LastSeen, which has no connection to move it.
OfflineClock ==
    /\ state \in {"Init", "Offline", "Closed"} => ~Attached
    /\ state = "Offline" =>
        IF seen <= HeartbeatTimeout THEN inState = seen
        ELSE HeartbeatTimeout < inState /\ inState + gcLeft <= HeartbeatTimeout + GcInterval

\* A connection that is past its timeout is found by the next tick of
\* heartbeatLoop.
SilenceClock ==
    state = "Online" /\ Attached /\ alive > TimeoutOf(conn) =>
        alive + heartbeatLeft <= TimeoutOf(conn) + HeartbeatInterval

\* The passes of the current window of the limiter and of the one before.
Current == {p \in Passes : p[1] <= windowStart}
Earlier == {p \in Passes : p[1] > windowStart}

\* The current window counted its passes.  The first pass of a window is out of
\* sight as soon as the next window begins.
LimitCounts ==
    /\ IsFiniteSet(Current) /\ IsFiniteSet(Earlier)
    /\ Cardinality(Current) <= attempts /\ Cardinality(Current) <= LoginRateLimitCount
    /\ Cardinality(Earlier) < LoginRateLimitCount
    /\ attempts = 0 => Passes = {}
    /\ attempts > 0 /\ windowStart \in Window => passed[windowStart] > 0
    /\ windowStart \notin Window =>
        Cardinality(Current) < LoginRateLimitCount /\ passed[0] = 0

IInv ==
    /\ Types
    /\ AuthingClock
    /\ OfflineClock
    /\ SilenceClock
    /\ LimitCounts

USE TimersAssumption

LEMMA TimeoutType ==
    ASSUME NEW k
    PROVE  TimeoutOf(k) \in Nat
  BY DEF TimeoutOf

-----------------------------------------------------------------------------
(* The limiter's arithmetic.                                               *)

LEMMA CountTypes ==
    ASSUME Types, CountLogin
    PROVE  /\ windowStart' \in 0 .. LoginRateLimitWindow + 1
           /\ attempts' \in Nat /\ attempts' > 0
           /\ passed' \in [Window -> Nat]
  <1>1. Attempts \in Nat /\ Attempts > 0
    BY DEF Types, Attempts
  <1>2. passed' \in [Window -> Nat]
    BY DEF Types, CountLogin, Window
  <1>3. QED
    BY <1>1, <1>2 DEF Types, CountLogin

LEMMA PassTypes ==
    ASSUME Types, Pass
    PROVE  passed' \in [Window -> Nat]
  BY DEF Types, Pass, Window

LEMMA DeadlineType ==
    ASSUME NEW k
    PROVE  DeadlineOf(k) \in Nat
  BY DEF DeadlineOf

LEMMA ClosingType ==
    ASSUME closing \in BOOLEAN, closing' \in {closing, TRUE, FALSE}
    PROVE  closing' \in BOOLEAN
  OBVIOUS

LEMMA TypesStep ==
    ASSUME Types, [Next]_vars
    PROVE  Types'
  <1>1. CASE UNCHANGED vars
    BY <1>1 DEF vars, Types
  <1>2. ASSUME NEW k \in Kinds, FirstLogin(k) PROVE Types'
    BY <1>2, CountTypes, DeadlineType DEF FirstLogin, NewConn, Types, tickVars
  <1>3. ASSUME NEW k \in Kinds, Resume(k) PROVE Types'
    BY <1>3, DeadlineType DEF Resume, ResumedConn, NewConn, Types, tickVars, limitVars
  <1>4. CASE LoginReq
    BY <1>4, CountTypes DEF LoginReq, Received, Types, tickVars
  <1>5. CASE Message \/ UnknownMessage \/ Pong
    BY <1>5 DEF Message, UnknownMessage, Pong, Received, Types, tickVars, limitVars, sessionVars
  <1>6. CASE Disconnect \/ Kicked \/ LateReadError
    <2>1. closing' \in BOOLEAN
      BY <1>6, ClosingType DEF Disconnect, Kicked, LateReadError, SessionOffline, Types
    <2>2. QED
      BY <1>6, <2>1 DEF Disconnect, Kicked, LateReadError, SessionOffline, Detach, Types, tickVars, limitVars
  <1>7. CASE LoginRsp \/ LoginLost
    <2>1. pending > 0 /\ pending' = pending - 1 /\ pending' \in Nat
      BY <1>7 DEF LoginRsp, LoginLost, Types
    <2>2. CASE LoginRsp
      BY <2>1, <2>2 DEF LoginRsp, Types, tickVars, limitVars, connVars
    <2>3. CASE LoginLost
      BY <2>1, <2>3 DEF LoginLost, Types, tickVars, limitVars, connVars
    <2>4. QED
      BY <1>7, <2>2, <2>3
  <1>8. CASE CheckHeartbeat
    <2>1. closing' \in BOOLEAN
      BY <1>8, ClosingType DEF CheckHeartbeat, SessionOffline, Types, connVars
    <2>2. QED
      BY <1>8, <2>1 DEF CheckHeartbeat, SessionOffline, Detach, Types, limitVars, connVars
  <1>9. CASE CollectTick
    <2>1. closing' \in BOOLEAN
      BY <1>9, ClosingType DEF CollectTick, SessionOffline, Types, connVars
    <2>2. QED
      BY <1>9, <2>1 DEF CollectTick, SessionOffline, Detach, Types, limitVars, connVars
  <1>10. CASE Pass
    BY <1>10, PassTypes DEF Pass, Older, Types, Attached
  <1>11. QED
    BY <1>1, <1>2, <1>3, <1>4, <1>5, <1>6, <1>7, <1>8, <1>9, <1>10 DEF Next

-----------------------------------------------------------------------------
(* The clocks.                                                             *)

LEMMA AuthingStep ==
    ASSUME Types, AuthingClock, [Next]_vars
    PROVE  AuthingClock'
  <1>1. ASSUME UNCHANGED <<state, authStart, inState, gcLeft>> PROVE AuthingClock'
    BY <1>1 DEF AuthingClock
  <1>2. ASSUME state' # "Authing" PROVE AuthingClock'
    BY <1>2 DEF AuthingClock
  <1>3. CASE UNCHANGED vars
    BY <1>1, <1>3 DEF vars
  <1>4. ASSUME NEW k \in Kinds, FirstLogin(k) \/ Resume(k) PROVE AuthingClock'
    BY <1>2, <1>4 DEF FirstLogin, Resume
  <1>5. CASE LoginReq
    <2>1. CASE AllowLogin /\ state = "Online"
      BY <1>5, <2>1 DEF LoginReq, AuthStarts, AuthingClock
    <2>2. CASE ~(AllowLogin /\ state = "Online")
      BY <1>1, <1>5, <2>2 DEF LoginReq, AuthStarts, tickVars
    <2>3. QED
      BY <2>1, <2>2
  <1>6. CASE Message \/ UnknownMessage \/ Pong \/ LoginLost
    BY <1>1, <1>6 DEF Message, UnknownMessage, Pong, LoginLost, sessionVars, tickVars
  <1>7. CASE Disconnect \/ Kicked \/ LateReadError \/ LoginRsp
    BY <1>2, <1>7 DEF Disconnect, Kicked, LateReadError, SessionOffline, Detach, LoginRsp
  <1>8. CASE CheckHeartbeat
    BY <1>1, <1>2, <1>8 DEF CheckHeartbeat, SessionOffline, Detach
  <1>9. CASE CollectTick
    <2>1. CASE LoginExpired
      BY <1>2, <1>9, <2>1 DEF CollectTick, SessionOffline, Detach
    <2>2. CASE ~LoginExpired
      BY <1>9, <2>2 DEF CollectTick, LoginExpired, Expired, AuthingClock, Types
    <2>3. QED
      BY <2>1, <2>2
  <1>10. CASE Pass
    <2>1. CASE state = "Authing"
      BY <1>10, <2>1 DEF Pass, Older, InStateBound, AuthingClock, Types
    <2>2. CASE state # "Authing"
      BY <1>2, <1>10, <2>2 DEF Pass
    <2>3. QED
      BY <2>1, <2>2
  <1>11. QED
    BY <1>3, <1>4, <1>5, <1>6, <1>7, <1>8, <1>9, <1>10 DEF Next

LEMMA OfflineStep ==
    ASSUME Types, OfflineClock, [Next]_vars
    PROVE  OfflineClock'
  <1>1. ASSUME UNCHANGED <<state, conn, seen, inState, gcLeft>> PROVE OfflineClock'
    BY <1>1 DEF OfflineClock, Attached
  <1>2. ASSUME state' \notin {"Init", "Offline", "Closed"} PROVE OfflineClock'
    BY <1>2 DEF OfflineClock
  <1>3. ASSUME Detach PROVE OfflineClock'
    BY <1>3 DEF OfflineClock, Attached, Detach
  <1>4. CASE UNCHANGED vars
    BY <1>1, <1>4 DEF vars
  <1>5. ASSUME NEW k \in Kinds, FirstLogin(k) \/ Resume(k) PROVE OfflineClock'
    BY <1>2, <1>5 DEF FirstLogin, Resume
  <1>6. CASE LoginReq \/ Message \/ UnknownMessage
    <2>1. state \notin {"Init", "Offline", "Closed"}
      BY <1>6 DEF OfflineClock, LoginReq, Message, UnknownMessage
    <2>2. state' \in {state, "Authing"}
      BY <1>6 DEF LoginReq, Message, UnknownMessage, sessionVars
    <2>3. QED
      BY <1>2, <2>1, <2>2
  <1>7. CASE Pong \/ LoginLost
    BY <1>1, <1>7 DEF Pong, LoginLost, sessionVars, connVars, tickVars
  <1>8. CASE LoginRsp
    BY <1>2, <1>8 DEF LoginRsp
  <1>9. CASE Disconnect \/ Kicked \/ LateReadError
    BY <1>3, <1>9 DEF Disconnect, Kicked, LateReadError, SessionOffline
  <1>10. CASE CheckHeartbeat
    BY <1>1, <1>3, <1>10 DEF CheckHeartbeat, SessionOffline, connVars
  <1>11. CASE CollectTick
    BY <1>3, <1>11 DEF CollectTick, SessionOffline, LoginExpired, Expired, OfflineClock, Attached, Types, connVars
  <1>12. CASE Pass
    BY <1>12 DEF Pass, Older, InStateBound, OfflineClock, Attached, Types
  <1>13. QED
    BY <1>4, <1>5, <1>6, <1>7, <1>8, <1>9, <1>10, <1>11, <1>12 DEF Next

LEMMA SilenceStep ==
    ASSUME Types, SilenceClock, [Next]_vars
    PROVE  SilenceClock'
  <1>1. TimeoutOf(conn) \in Nat /\ TimeoutOf(conn') \in Nat
    BY TimeoutType
  <1>2. ASSUME UNCHANGED <<state, conn, alive, heartbeatLeft>> PROVE SilenceClock'
    BY <1>2 DEF SilenceClock, Attached
  <1>3. ASSUME state' # "Online" \/ conn' = NoConn \/ alive' = 0 PROVE SilenceClock'
    BY <1>1, <1>3 DEF SilenceClock, Attached
  <1>4. CASE UNCHANGED vars
    BY <1>2, <1>4 DEF vars
  <1>5. ASSUME NEW k \in Kinds, FirstLogin(k) \/ Resume(k) PROVE SilenceClock'
    BY <1>3, <1>5 DEF FirstLogin, Resume, ResumedConn, NewConn
  <1>6. CASE LoginReq \/ Message \/ UnknownMessage
    BY <1>3, <1>6 DEF LoginReq, Message, UnknownMessage, Received
  <1>7. CASE Pong \/ LoginLost
    BY <1>2, <1>7 DEF Pong, LoginLost, sessionVars, connVars, tickVars
  <1>8. CASE LoginRsp \/ Disconnect \/ Kicked \/ LateReadError
    BY <1>3, <1>8 DEF LoginRsp, Disconnect, Kicked, LateReadError, SessionOffline, Detach
  <1>9. CASE CheckHeartbeat
    <2>1. CASE Detach
      BY <1>3, <2>1 DEF Detach
    <2>2. CASE UNCHANGED <<state, connVars>> /\ ~(state = "Online" /\ Attached /\ alive > TimeoutOf(conn))
      BY <2>2 DEF SilenceClock, Attached, connVars
    <2>3. QED
      BY <1>9, <2>1, <2>2 DEF CheckHeartbeat, SessionOffline
  <1>10. CASE CollectTick
    BY <1>2, <1>3, <1>10 DEF CollectTick, SessionOffline, Detach, Expired, connVars
  <1>11. CASE Pass
    <2>1. /\ UNCHANGED <<state, conn>> /\ heartbeatLeft > 0 /\ heartbeatLeft' = heartbeatLeft - 1
          /\ Attached => alive' \in {alive, alive + 1}
      BY <1>11 DEF Pass, Older
    <2>2. heartbeatLeft \in 0 .. HeartbeatInterval /\ alive \in Nat
      BY DEF Types
    <2>3. QED
      BY <1>1, <2>1, <2>2 DEF SilenceClock, Attached
  <1>12. QED
    BY <1>4, <1>5, <1>6, <1>7, <1>8, <1>9, <1>10, <1>11 DEF Next

-----------------------------------------------------------------------------
(* The limiter.                                                            *)

LEMMA WindowType == Window \subseteq Nat /\ 0 \in Window
  BY DEF Window

\* What a pass is ...
LEMMA PassAt ==
    ASSUME Types
    PROVE  /\ \A p \in Passes : p = <<p[1], p[2]>> /\ p[1] \in Window /\ p[2] \in 1 .. passed[p[1]]
           /\ \A a \in Window : \A i \in 1 .. passed[a] : <<a, i>> \in Passes
  BY DEF Passes

\* ... before and after a step.
LEMMA PassAtNext ==
    ASSUME Types'
    PROVE  /\ \A p \in Passes' : p = <<p[1], p[2]>> /\ p[1] \in Window /\ p[2] \in 1 .. passed'[p[1]]
           /\ \A a \in Window : \A i \in 1 .. passed'[a] : <<a, i>> \in Passes'
  BY DEF Passes

\* Passes that are one tick older are no more than those they were.
LEMMA OlderNoMore ==
    ASSUME NEW S, NEW T, IsFiniteSet(T),
           \A p \in S : p = <<p[1], p[2]>> /\ p[1] \in Int /\ <<p[1] - 1, p[2]>> \in T
    PROVE  IsFiniteSet(S) /\ Cardinality(S) <= Cardinality(T)
  <1> DEFINE f == [p \in S |-> <<p[1] - 1, p[2]>>]
  <1>1. f \in [S -> T]
    OBVIOUS
  <1>2. ASSUME NEW p \in S, NEW q \in S, f[p] = f[q] PROVE p = q
    <2>1. p[1] - 1 = q[1] - 1 /\ p[2] = q[2]
      BY <1>2
    <2>2. p[1] = q[1]
      <3>1. p[1] \in Int /\ q[1] \in Int
        OBVIOUS
      <3> HIDE DEF f
      <3>2. QED
        BY <2>1, <3>1
    <2>3. QED
      BY <2>1, <2>2
  <1>3. f \in Injection(S, T)
    BY <1>1, <1>2 DEF Injection, IsInjective
  <1>4. QED
    BY <1>3, FS_Injection

LEMMA LimitFrame ==
    ASSUME LimitCounts, UNCHANGED limitVars
    PROVE  LimitCounts'
  BY DEF LimitCounts, Current, Earlier, Passes, limitVars

\* Every handler that calls allowLogin.
LEMMA LimitCount ==
    ASSUME Types, Types', LimitCounts, CountLogin
    PROVE  LimitCounts'
  <1> DEFINE e == <<0, passed[0] + 1>>
  <1>1. /\ windowStart \in 0 .. LoginRateLimitWindow + 1 /\ attempts \in Nat
        /\ passed \in [Window -> Nat] /\ 0 \in Window /\ Window \subseteq Nat
    BY WindowType DEF Types
  <1>2. ASSUME AllowLogin PROVE Passes' = Passes \cup {e} /\ e \notin Passes
    <2>1. passed' = [passed EXCEPT ![0] = passed[0] + 1]
      BY <1>2 DEF CountLogin
    <2>2. /\ passed'[0] = passed[0] + 1 /\ passed[0] \in Nat
          /\ \A a \in Window : a # 0 => passed'[a] = passed[a]
      BY <1>1, <2>1
    <2>3. ASSUME NEW p \in Passes' PROVE p \in Passes \cup {e}
      <3>1. p = <<p[1], p[2]>> /\ p[1] \in Window /\ p[2] \in 1 .. passed'[p[1]]
        BY PassAtNext
      <3>2. p[2] \in 1 .. passed[p[1]] \/ (p[1] = 0 /\ p[2] = passed[0] + 1)
        BY <2>2, <3>1
      <3>3. QED
        BY <3>1, <3>2, PassAt
    <2>4. ASSUME NEW p \in Passes PROVE p \in Passes'
      <3>1. p = <<p[1], p[2]>> /\ p[1] \in Window /\ p[2] \in 1 .. passed[p[1]]
        BY PassAt
      <3>2. p[2] \in 1 .. passed'[p[1]]
        BY <2>2, <3>1
      <3>3. QED
        BY <3>1, <3>2, PassAtNext
    <2>5. e \in Passes'
      BY <1>1, <2>2, PassAtNext
    <2>6. e \notin Passes
      <3>1. ASSUME e \in Passes PROVE FALSE
        <4>1. e[2] \in 1 .. passed[e[1]]
          BY <3>1, PassAt
        <4>2. QED
          BY <2>2, <4>1
      <3>2. QED
        BY <3>1
    <2>7. QED
      BY <2>3, <2>4, <2>5, <2>6
  <1>3. Cardinality(Current) \in Nat /\ Cardinality(Earlier) \in Nat
    BY FS_CardinalityType DEF LimitCounts
  <1>4. CASE WindowOver
    <2>1. /\ windowStart' = 0 /\ attempts' = 1 /\ AllowLogin
          /\ passed' = [passed EXCEPT ![0] = passed[0] + 1] /\ 0 + 1 > 0
      BY <1>4 DEF CountLogin, Attempts, AllowLogin
    <2>2. \A p \in Passes : p[1] > 0
      <3>1. CASE attempts = 0
        BY <3>1 DEF LimitCounts
      <3>2. CASE windowStart > LoginRateLimitWindow
        <4>1. passed[0] = 0
          BY <1>1, <3>2 DEF LimitCounts, Window
        <4>2. \A p \in Passes : p[1] \in Nat /\ p[1] # 0
          BY <1>1, <4>1, PassAt
        <4>3. QED
          BY <4>2
      <3>3. QED
        BY <1>4, <3>1, <3>2 DEF WindowOver
    <2>3. Current' = {e}
      <3>1. Current' = {p \in Passes' : p[1] <= 0}
        BY <2>1 DEF Current
      <3>2. \A p \in Passes : p[1] \in Nat /\ ~(p[1] <= 0)
        BY <1>1, <2>2, PassAt
      <3>3. e[1] <= 0
        OBVIOUS
      <3>4. QED
        BY <1>2, <2>1, <3>1, <3>2, <3>3
    <2>4. Earlier' = Passes
      <3>1. Earlier' = {p \in Passes' : p[1] > 0}
        BY <2>1 DEF Earlier
      <3>2. ~(e[1] > 0)
        OBVIOUS
      <3>3. QED
        BY <1>2, <2>1, <2>2, <3>1, <3>2
    <2>5. IsFiniteSet(Passes) /\ Cardinality(Passes) < LoginRateLimitCount
      <3>1. CASE attempts = 0
        BY <3>1, FS_EmptySet DEF LimitCounts
      <3>2. CASE windowStart > LoginRateLimitWindow
        <4>1. \A p \in Passes : p[1] <= windowStart
          BY <1>1, <3>2, PassAt DEF Window
        <4>2. Current = Passes
          BY <4>1 DEF Current
        <4>3. windowStart \notin Window
          BY <3>2, <1>1 DEF Window
        <4>4. QED
          BY <4>2, <4>3 DEF LimitCounts
      <3>3. QED
        BY <1>4, <3>1, <3>2 DEF WindowOver
    <2>6. IsFiniteSet({e}) /\ Cardinality({e}) = 1
      BY FS_Singleton
    <2>7. passed'[0] > 0
      BY <1>1, <2>1
    <2>8. QED
      BY <1>1, <2>1, <2>3, <2>4, <2>5, <2>6, <2>7 DEF LimitCounts
  <1>5. CASE ~WindowOver /\ AllowLogin
    <2>1. /\ UNCHANGED windowStart /\ attempts' = attempts + 1 /\ attempts' <= LoginRateLimitCount
          /\ attempts > 0 /\ windowStart \in Window
          /\ passed' = [passed EXCEPT ![0] = passed[0] + 1]
      BY <1>1, <1>5 DEF CountLogin, Attempts, AllowLogin, WindowOver, Window
    <2>2. e[1] <= windowStart /\ ~(e[1] > windowStart)
      BY <1>1
    <2>3. Current' = Current \cup {e} /\ Earlier' = Earlier
      BY <1>2, <1>5, <2>1, <2>2 DEF Current, Earlier
    <2>4. e \notin Current
      BY <1>2, <1>5 DEF Current
    <2>5. IsFiniteSet(Current') /\ Cardinality(Current') = Cardinality(Current) + 1
      BY <2>3, <2>4, FS_AddElement DEF LimitCounts
    <2>6. Cardinality(Current') <= attempts' /\ Cardinality(Current') <= LoginRateLimitCount
      <3>1. Cardinality(Current) <= attempts
        BY DEF LimitCounts
      <3>2. QED
        BY <1>1, <1>3, <2>1, <2>5, <3>1
    <2>7. passed'[windowStart] > 0
      <3>1. passed[windowStart] > 0 /\ passed[windowStart] \in Nat
        BY <1>1, <2>1 DEF LimitCounts
      <3>2. QED
        BY <1>1, <2>1, <3>1
    <2>8. QED
      BY <2>1, <2>3, <2>5, <2>6, <2>7, <1>1 DEF LimitCounts
  <1>6. CASE ~WindowOver /\ ~AllowLogin
    <2>1. /\ UNCHANGED <<windowStart, passed>> /\ attempts' \in {attempts, attempts + 1}
          /\ attempts > 0
      BY <1>1, <1>6 DEF CountLogin, Attempts, WindowOver
    <2>2. UNCHANGED <<Current, Earlier, Passes>>
      BY <2>1 DEF Current, Earlier, Passes
    <2>3. QED
      BY <1>1, <1>3, <2>1, <2>2 DEF LimitCounts
  <1>7. QED
    BY <1>4, <1>5, <1>6

\* A tick makes every pass and the window older.
LEMMA LimitPass ==
    ASSUME Types, Types', LimitCounts, Pass
    PROVE  LimitCounts'
  <1>1. /\ windowStart \in 0 .. LoginRateLimitWindow + 1 /\ attempts \in Nat
        /\ passed \in [Window -> Nat] /\ 0 \in Window /\ Window \subseteq Nat
        /\ UNCHANGED attempts
        /\ passed' = [a \in Window |-> IF a = 0 THEN 0 ELSE passed[a - 1]]
        /\ windowStart' = IF attempts > 0 THEN Older(windowStart, LoginRateLimitWindow) ELSE windowStart
    BY WindowType DEF Types, Pass
  <1>2. ASSUME NEW p \in Passes'
        PROVE  p = <<p[1], p[2]>> /\ p[1] \in Window \ {0} /\ <<p[1] - 1, p[2]>> \in Passes
    <2>1. p = <<p[1], p[2]>> /\ p[1] \in Window /\ p[2] \in 1 .. passed'[p[1]]
      BY PassAtNext
    <2>2. p[1] # 0
      BY <1>1, <2>1
    <2>3. p[1] - 1 \in Window /\ p[2] \in 1 .. passed[p[1] - 1]
      <3>1. p[1] \in Nat /\ p[1] - 1 \in Window
        BY <2>1, <2>2 DEF Window
      <3>2. passed'[p[1]] = passed[p[1] - 1]
        BY <1>1, <2>1, <2>2
      <3>3. QED
        BY <2>1, <3>1, <3>2
    <2>4. QED
      BY <2>1, <2>2, <2>3, PassAt
  <1>3. CASE attempts = 0
    <2>1. Passes' = {}
      BY <1>2, <1>3 DEF LimitCounts
    <2>2. Current' = {} /\ Earlier' = {}
      BY <2>1 DEF Current, Earlier
    <2>3. passed'[0] = 0
      BY <1>1
    <2>4. QED
      BY <1>1, <1>3, <2>1, <2>2, <2>3, FS_EmptySet DEF LimitCounts
  <1>4. CASE attempts > 0 /\ windowStart \in Window
    <2>1. windowStart' = windowStart + 1
      BY <1>1, <1>4 DEF Older, Window
    <2>2. ASSUME NEW p \in Current' PROVE p = <<p[1], p[2]>> /\ p[1] \in Int /\ <<p[1] - 1, p[2]>> \in Current
      <3>1. p \in Passes' /\ p[1] <= windowStart + 1
        BY <2>1 DEF Current
      <3>2. QED
        BY <1>1, <1>2, <3>1 DEF Current
    <2>3. ASSUME NEW p \in Earlier' PROVE p = <<p[1], p[2]>> /\ p[1] \in Int /\ <<p[1] - 1, p[2]>> \in Earlier
      <3>1. p \in Passes' /\ p[1] > windowStart + 1
        BY <2>1 DEF Earlier
      <3>2. QED
        BY <1>1, <1>2, <3>1 DEF Earlier
    <2>4. IsFiniteSet(Current') /\ Cardinality(Current') <= Cardinality(Current)
      BY <2>2, OlderNoMore DEF LimitCounts
    <2>5. IsFiniteSet(Earlier') /\ Cardinality(Earlier') <= Cardinality(Earlier)
      BY <2>3, OlderNoMore DEF LimitCounts
    <2>6. /\ Cardinality(Current) \in Nat /\ Cardinality(Earlier) \in Nat
          /\ Cardinality(Current') \in Nat /\ Cardinality(Earlier') \in Nat
      BY <2>4, <2>5, FS_CardinalityType DEF LimitCounts
    <2>7. windowStart' \in Window => passed'[windowStart'] > 0
      BY <1>1, <1>4, <2>1 DEF LimitCounts
    <2>8. ASSUME windowStart' \notin Window PROVE Cardinality(Current') < LoginRateLimitCount
      <3> DEFINE first == <<windowStart, 1>>
      <3>1. windowStart = LoginRateLimitWindow
        BY <1>1, <1>4, <2>1, <2>8 DEF Window
      <3>2. first \in Passes /\ first[1] <= windowStart
        BY <1>1, <1>4, PassAt DEF LimitCounts
      <3>3. first \in Current
        BY <3>2 DEF Current
      <3>4. ASSUME NEW p \in Current' PROVE <<p[1] - 1, p[2]>> \in Current \ {first}
        <4>1. p[1] \in Window /\ <<p[1] - 1, p[2]>> \in Current
          BY <1>2, <2>2, <3>4 DEF Current
        <4>2. p[1] - 1 # windowStart
          BY <3>1, <4>1 DEF Window
        <4>3. QED
          BY <4>1, <4>2
      <3>5. IsFiniteSet(Current \ {first}) /\ Cardinality(Current \ {first}) = Cardinality(Current) - 1
        BY <3>3, FS_RemoveElement DEF LimitCounts
      <3>6. Cardinality(Current') <= Cardinality(Current \ {first})
        BY <2>2, <3>4, <3>5, OlderNoMore
      <3>7. QED
        BY <2>6, <3>5, <3>6 DEF LimitCounts
    <2>9. passed'[0] = 0
      BY <1>1
    <2>10. QED
      BY <1>1, <1>4, <2>4, <2>5, <2>6, <2>7, <2>8, <2>9 DEF LimitCounts
  <1>5. CASE attempts > 0 /\ windowStart \notin Window
    <2>1. UNCHANGED windowStart /\ windowStart = LoginRateLimitWindow + 1
      BY <1>1, <1>5 DEF Older, Window
    <2>2. ASSUME NEW p \in Current' PROVE p = <<p[1], p[2]>> /\ p[1] \in Int /\ <<p[1] - 1, p[2]>> \in Current
      <3>1. p \in Passes' /\ p[1] <= windowStart
        BY <2>1 DEF Current
      <3>2. p[1] \in Int /\ p[1] - 1 <= windowStart
        <4>1. p[1] \in Nat
          BY <1>1, <1>2, <3>1
        <4>2. QED
          BY <1>1, <3>1, <4>1
      <3>3. QED
        BY <1>1, <1>2, <3>1, <3>2 DEF Current
    <2>3. Earlier' = {}
      <3>1. \A p \in Passes' : ~(p[1] > windowStart')
        <4>1. \A p \in Passes' : p[1] \in 0 .. LoginRateLimitWindow
          BY <1>2 DEF Window
        <4>2. QED
          BY <2>1, <4>1
      <3>2. QED
        BY <3>1 DEF Earlier
    <2>4. IsFiniteSet(Current') /\ Cardinality(Current') <= Cardinality(Current)
      BY <2>2, OlderNoMore DEF LimitCounts
    <2>5. Cardinality(Current) \in Nat /\ Cardinality(Current') \in Nat
      BY <2>4, FS_CardinalityType DEF LimitCounts
    <2>6. passed'[0] = 0
      BY <1>1
    <2>7. QED
      BY <1>1, <1>5, <2>1, <2>3, <2>4, <2>5, <2>6, FS_EmptySet DEF LimitCounts
  <1>6. QED
    BY <1>1, <1>3, <1>4, <1>5

LEMMA LimitStep ==
    ASSUME Types, Types', LimitCounts, [Next]_vars
    PROVE  LimitCounts'
  <1>1. CASE UNCHANGED limitVars
    BY <1>1, LimitFrame
  <1>2. ASSUME NEW k \in Kinds, FirstLogin(k) \/ Resume(k) PROVE LimitCounts'
    BY <1>1, <1>2, LimitCount DEF FirstLogin, Resume
  <1>3. CASE LoginReq
    BY <1>3, LimitCount DEF LoginReq
  <1>4. CASE Message \/ UnknownMessage \/ Pong \/ Disconnect \/ Kicked \/ LateReadError
            \/ LoginRsp \/ LoginLost
    BY <1>1, <1>4 DEF Message, UnknownMessage, Pong, Disconnect, Kicked, LateReadError,
                     LoginRsp, LoginLost
  <1>5. CASE CheckHeartbeat \/ CollectTick
    BY <1>1, <1>5 DEF CheckHeartbeat, CollectTick
  <1>6. CASE UNCHANGED vars
    BY <1>1, <1>6 DEF vars, limitVars
  <1>7. QED
    BY <1>2, <1>3, <1>4, <1>5, <1>6, LimitPass DEF Next

-----------------------------------------------------------------------------
LEMMA InitIInv == Init => IInv
  <1> SUFFICES ASSUME Init PROVE IInv
    OBVIOUS
  <1>1. Types
    <2>1. passed \in [Window -> Nat] /\ windowStart \in 0 .. LoginRateLimitWindow + 1
      BY DEF Init
    <2>2. heartbeatLeft \in 0 .. HeartbeatInterval /\ gcLeft \in 0 .. GcInterval
      BY DEF Init
    <2>3. QED
      BY <2>1, <2>2 DEF Init, Types
  <1>2. AuthingClock /\ OfflineClock /\ SilenceClock
    BY DEF Init, AuthingClock, OfflineClock, SilenceClock, Attached
  <1>3. LimitCounts
    <2>1. Passes = {} /\ passed[0] = 0
      BY WindowType DEF Init, Passes
    <2>2. Current = {} /\ Earlier = {}
      BY <2>1 DEF Current, Earlier
    <2>3. QED
      BY <2>1, <2>2, FS_EmptySet DEF Init, LimitCounts
  <1>4. QED
    BY <1>1, <1>2, <1>3 DEF IInv

\* The ages of a session and the time to the tickers' next ticks stay in step,
\* and the limiter's passes within its windows' counts.
THEOREM InvariantHolds == Spec => []IInv
  <1>1. IInv /\ [Next]_vars => IInv'
    BY TypesStep, AuthingStep, OfflineStep, SilenceStep, LimitStep DEF IInv
  <1>2. QED
    BY <1>1, InitIInv, PTL DEF Spec

\* allowLogin: in any stretch of the window's length fewer than twice the limit
\* of a session's LoginReqs are sent on.  The window is fixed, so nearly twice
\* the limit is what a client can get.
THEOREM LimiterBounds == Spec => []PassesBounded
  <1>1. IInv => PassesBounded
    <2> SUFFICES ASSUME IInv PROVE PassesBounded
      OBVIOUS
    <2>1. Current \cup Earlier = Passes /\ Current \cap Earlier = {}
      <3>1. \A p \in Passes : p[1] \in Nat /\ windowStart \in Nat
        BY PassAt, WindowType DEF IInv, Types
      <3>2. \A p \in Passes : (p[1] <= windowStart) # (p[1] > windowStart)
        BY <3>1
      <3>3. QED
        BY <3>2 DEF Current, Earlier
    <2>2. IsFiniteSet(Current) /\ IsFiniteSet(Earlier)
      BY DEF IInv, LimitCounts
    <2>3. Cardinality(Current) \in Nat /\ Cardinality(Earlier) \in Nat
      BY <2>2, FS_CardinalityType
    <2>4. Cardinality(Passes) = Cardinality(Current) + Cardinality(Earlier) - Cardinality({})
      BY <2>1, <2>2, FS_Union
    <2>5. Cardinality(Passes) = Cardinality(Current) + Cardinality(Earlier)
      BY <2>3, <2>4, FS_EmptySet
    <2>6. QED
      BY <2>3, <2>5 DEF IInv, LimitCounts, PassesBounded
  <1>2. QED
    BY <1>1, InvariantHolds, PTL

\* checkAuthingTimeout resolves a login within its timeout and one interval,
\* whatever the client and the service do.
THEOREM LoginsAreResolved == Spec => []LoginResolved
  <1>1. IInv => LoginResolved
    BY DEF IInv, Types, AuthingClock, LoginResolved
  <1>2. QED
    BY <1>1, InvariantHolds, PTL

\* checkHeartbeat finds a silent connection within the timeout of its kind and
\* one interval.
THEOREM SilenceIsFound == Spec => []SilentIsFound
  <1>1. IInv => SilentIsFound
    BY TimeoutType DEF IInv, Types, SilenceClock, SilentIsFound
  <1>2. QED
    BY <1>1, InvariantHolds, PTL

\* An Offline session is collected within the timeout and one interval.
THEOREM OfflineEnds == Spec => []OfflineIsCollected
  <1>1. IInv => OfflineIsCollected
    BY DEF IInv, Types, OfflineClock, OfflineIsCollected
  <1>2. QED
    BY <1>1, InvariantHolds, PTL

\* A session is closed only after it was Offline for longer than the timeout, in
\* which its client could resume it.
THEOREM ResumeIsPossible == Spec => KeptForResume
  <1>1. IInv /\ [Next]_vars =>
            [state # "Closed" /\ state' = "Closed" =>
                state = "Offline" /\ inState > HeartbeatTimeout]_vars
    <2> SUFFICES ASSUME IInv, [Next]_vars, state # "Closed", state' = "Closed"
                 PROVE  state = "Offline" /\ inState > HeartbeatTimeout
      OBVIOUS
    <2>1. CollectTick
      BY DEF Next, vars, FirstLogin, Resume, LoginReq, Message, UnknownMessage, Pong, Disconnect,
             Kicked, LateReadError, SessionOffline, Detach, LoginRsp, LoginLost, CheckHeartbeat, Pass, sessionVars
    <2>2. state = "Offline" /\ seen > HeartbeatTimeout
      BY <2>1 DEF CollectTick, Expired, SessionOffline, Detach
    <2>3. QED
      BY <2>2 DEF IInv, Types, OfflineClock
  <1>2. QED
    BY <1>1, InvariantHolds, PTL DEF Spec, KeptForResume
=============================================================================
