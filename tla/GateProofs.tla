----------------------------- MODULE GateProofs -----------------------------
(***************************************************************************)
(* Proofs about Gate, for any connections, players and bounds.             *)
(***************************************************************************)
EXTENDS Gate, TLAPS

LEMMA NoticeTypes ==
    /\ NoNotice \in Notices
    /\ \A p \in Players \cup {NoPlayer} :
          OfflineNotice(p) \in Notices /\ ResumeNotice(p) \in Notices
  BY DEF Notices, NoNotice, OfflineNotice, ResumeNotice

LEMMA InitIInv == Init => IInv
<1> SUFFICES ASSUME Init PROVE IInv
  OBVIOUS
<1>1. TypeOK
  BY GateAssumption, NoticeTypes DEF Init, TypeOK, Sessions, NoSession, States
<1>2. LinkCoherent /\ StateCoherent /\ FreshCoherent
  BY DEF Init, LinkCoherent, StateCoherent, FreshCoherent, Sessions
<1>3. OfflineIsNotified /\ AttachedNotOffline /\ KickLimitEnforced
  BY DEF Init, OfflineIsNotified, AttachedNotOffline, KickLimitEnforced
<1>4. IndexNotDangling
  BY DEF Init, IndexNotDangling, Sessions, NoSession
<1>. QED
  BY <1>1, <1>2, <1>3, <1>4 DEF IInv

LEMMA FrameStep ==
    ASSUME IInv, UNCHANGED <<sessionVars, managerVars, sessionID>>,
           reading' \in [Conns -> {"idle", "reading", "ended"}],
           \A c \in Conns : reading[c] = "reading" => reading'[c] = "reading",
           closed' \subseteq Conns, logins' \in [Sessions -> 0 .. MaxLogins],
           \A s \in Sessions : logins'[s] <= logins[s]
    PROVE  IInv'
<1>1. TypeOK'
  BY GateAssumption, NoticeTypes
  DEF IInv, TypeOK, Sessions, NoSession, States, sessionVars, managerVars
<1>2. LinkCoherent'
  BY GateAssumption
  DEF IInv, TypeOK, LinkCoherent, StateCoherent, Sessions, NoSession, sessionVars,
      managerVars
<1>3. StateCoherent'
  BY GateAssumption
  DEF IInv, TypeOK, StateCoherent, Sessions, NoSession, States, sessionVars, managerVars
<1>4. FreshCoherent'
  BY GateAssumption
  DEF IInv, TypeOK, StateCoherent, FreshCoherent, Sessions, NoNotice, OfflineNotice,
      sessionVars, managerVars
<1>5. OfflineIsNotified'
  BY GateAssumption
  DEF IInv, TypeOK, StateCoherent, FreshCoherent, OfflineIsNotified, OfflineNotice,
      NoNotice, sessionVars, managerVars
<1>6. AttachedNotOffline'
  BY GateAssumption
  DEF IInv, TypeOK, StateCoherent, FreshCoherent, AttachedNotOffline, OfflineNotice,
      ResumeNotice, NoNotice, sessionVars, managerVars
<1>7. KickLimitEnforced'
  BY GateAssumption
  DEF IInv, TypeOK, StateCoherent, FreshCoherent, KickLimitEnforced, Sessions,
      sessionVars, managerVars
<1>8. IndexNotDangling'
  BY GateAssumption
  DEF IInv, TypeOK, StateCoherent, FreshCoherent, IndexNotDangling, Sessions, NoSession,
      sessionVars, managerVars
<1>. QED
  BY <1>1, <1>2, <1>3, <1>4, <1>5, <1>6, <1>7, <1>8 DEF IInv

LEMMA OfflineStep ==
    ASSUME IInv, NEW T \in SUBSET bySession, OnSessionOffline(T),
           UNCHANGED <<playerID, sessionID, reading, logins, managerVars>>,
           unknownMsgCount' \in [Sessions -> 0 .. MaxUnknown],
           \A s \in Sessions : unknownMsgCount'[s] # unknownMsgCount[s] =>
               /\ s \in bySession
               /\ conn'[s] # NoConn /\ unknownMsgKickCount > 0 =>
                     unknownMsgCount'[s] < unknownMsgKickCount
    PROVE  IInv'
<1>1. TypeOK'
  <2>1. closed' \subseteq Conns
    BY DEF IInv, TypeOK, OnSessionOffline, ClosedWith, Leaving
  <2>2. notified' \in [Sessions -> Notices]
    BY NoticeTypes DEF IInv, TypeOK, OnSessionOffline, OfflineNotices
  <2>3. state' \in [Sessions -> States] /\ conn' \in [Sessions -> Conns \cup {NoConn}]
    BY DEF IInv, TypeOK, States, OnSessionOffline, GoneOffline, Unlinked
  <2>. QED
    BY <2>1, <2>2, <2>3 DEF IInv, TypeOK, managerVars
<1>2. LinkCoherent'
  BY GateAssumption
  DEF IInv, TypeOK, LinkCoherent, StateCoherent, Sessions, NoSession, OnSessionOffline,
      Unlinked, ClosedWith, GoneOffline, OfflineNotices, Leaving, managerVars
<1>3. StateCoherent'
  BY GateAssumption
  DEF IInv, TypeOK, StateCoherent, Sessions, NoSession, States, OnSessionOffline,
      Unlinked, ClosedWith, GoneOffline, OfflineNotices, Leaving, managerVars
<1>4. FreshCoherent'
  BY GateAssumption
  DEF IInv, TypeOK, StateCoherent, FreshCoherent, Sessions, NoNotice, OfflineNotice,
      OnSessionOffline, Unlinked, ClosedWith, GoneOffline, OfflineNotices, Leaving,
      managerVars
<1>5. OfflineIsNotified'
  BY GateAssumption
  DEF IInv, TypeOK, StateCoherent, FreshCoherent, OfflineIsNotified, OfflineNotice,
      NoNotice, OnSessionOffline, Unlinked, ClosedWith, GoneOffline, OfflineNotices,
      Leaving, managerVars
<1>6. AttachedNotOffline'
  BY GateAssumption
  DEF IInv, TypeOK, StateCoherent, FreshCoherent, AttachedNotOffline, OfflineNotice,
      ResumeNotice, NoNotice, OnSessionOffline, Unlinked, ClosedWith, GoneOffline,
      OfflineNotices, Leaving, managerVars
<1>7. KickLimitEnforced'
  BY GateAssumption
  DEF IInv, TypeOK, StateCoherent, FreshCoherent, KickLimitEnforced, Sessions,
      OnSessionOffline, Unlinked, ClosedWith, GoneOffline, OfflineNotices, Leaving,
      managerVars
<1>8. IndexNotDangling'
  BY GateAssumption
  DEF IInv, TypeOK, StateCoherent, FreshCoherent, IndexNotDangling, Sessions, NoSession,
      OnSessionOffline, Unlinked, ClosedWith, GoneOffline, OfflineNotices, Leaving,
      managerVars
<1>. QED
  BY <1>1, <1>2, <1>3, <1>4, <1>5, <1>6, <1>7, <1>8 DEF IInv

LEMMA ReadErrorStep ==
    ASSUME IInv, NEW c \in Conns, ReadError(c)
    PROVE  IInv'
<1>1. TypeOK'
  BY GateAssumption, NoticeTypes
  DEF IInv, TypeOK, Sessions, NoSession, States, ReadError, ClosedSession, managerVars
<1>2. LinkCoherent'
  <2> SUFFICES ASSUME NEW s \in Sessions, conn'[s] # NoConn
               PROVE  sessionID[conn[s]] = s /\ conn[s] # c /\ conn'[s] = conn[s]
    BY DEF IInv, TypeOK, LinkCoherent, ReadError
  <2>1. conn'[s] = conn[s] /\ s \notin ClosedSession(c)
    BY DEF ReadError
  <2>2. s \in bySession /\ sessionID[conn[s]] = s
    BY <2>1 DEF IInv, TypeOK, LinkCoherent, StateCoherent
  <2>. QED
    BY <2>1, <2>2 DEF ClosedSession
<1>3. StateCoherent'
  BY GateAssumption
  DEF IInv, TypeOK, StateCoherent, Sessions, NoSession, States, ReadError,
      ClosedSession, managerVars
<1>4. FreshCoherent'
  BY GateAssumption
  DEF IInv, TypeOK, StateCoherent, FreshCoherent, Sessions, NoNotice, OfflineNotice,
      ReadError, ClosedSession, managerVars
<1>5. OfflineIsNotified'
  BY GateAssumption
  DEF IInv, TypeOK, StateCoherent, FreshCoherent, OfflineIsNotified, OfflineNotice,
      NoNotice, ReadError, ClosedSession, managerVars
<1>6. AttachedNotOffline'
  BY GateAssumption
  DEF IInv, TypeOK, StateCoherent, FreshCoherent, AttachedNotOffline, OfflineNotice,
      ResumeNotice, NoNotice, ReadError, ClosedSession, managerVars
<1>7. KickLimitEnforced'
  BY GateAssumption
  DEF IInv, TypeOK, StateCoherent, FreshCoherent, KickLimitEnforced, Sessions,
      ReadError, ClosedSession, managerVars
<1>8. IndexNotDangling'
  BY GateAssumption
  DEF IInv, TypeOK, StateCoherent, FreshCoherent, IndexNotDangling, Sessions, NoSession,
      ReadError, ClosedSession, managerVars
<1>. QED
  BY <1>1, <1>2, <1>3, <1>4, <1>5, <1>6, <1>7, <1>8 DEF IInv

LEMMA ResumeStep ==
    ASSUME IInv, NEW c \in Conns, NEW s \in Sessions, Resume(c, s)
    PROVE  IInv'
<1>1. TypeOK'
  BY GateAssumption, NoticeTypes
  DEF IInv, TypeOK, Sessions, NoSession, States, Resume, Unbound, Resumable, Replaced,
      ResumeNotices, ResumedState
<1>2. LinkCoherent'
  BY GateAssumption
  DEF IInv, TypeOK, LinkCoherent, StateCoherent, Sessions, NoSession, Resume, Unbound,
      Resumable, Replaced, ResumeNotices, ResumedState
<1>3. StateCoherent'
  BY GateAssumption
  DEF IInv, TypeOK, StateCoherent, Sessions, NoSession, States, Resume, Unbound,
      Resumable, Replaced, ResumeNotices, ResumedState
<1>4. FreshCoherent'
  BY GateAssumption
  DEF IInv, TypeOK, StateCoherent, FreshCoherent, Sessions, NoNotice, OfflineNotice,
      Resume, Unbound, Resumable, Replaced, ResumeNotices, ResumedState
<1>5. OfflineIsNotified'
  BY GateAssumption
  DEF IInv, TypeOK, StateCoherent, FreshCoherent, OfflineIsNotified, OfflineNotice,
      NoNotice, Resume, Unbound, Resumable, Replaced, ResumeNotices, ResumedState
<1>6. AttachedNotOffline'
  BY GateAssumption
  DEF IInv, TypeOK, StateCoherent, FreshCoherent, AttachedNotOffline, OfflineNotice,
      ResumeNotice, NoNotice, Resume, Unbound, Resumable, Replaced, ResumeNotices,
      ResumedState
<1>7. KickLimitEnforced'
  BY GateAssumption
  DEF IInv, TypeOK, StateCoherent, FreshCoherent, KickLimitEnforced, Sessions, Resume,
      Unbound, Resumable, Replaced, ResumeNotices, ResumedState
<1>8. IndexNotDangling'
  BY GateAssumption
  DEF IInv, TypeOK, StateCoherent, FreshCoherent, IndexNotDangling, Sessions, NoSession,
      Resume, Unbound, Resumable, Replaced, ResumeNotices, ResumedState
<1>. QED
  BY <1>1, <1>2, <1>3, <1>4, <1>5, <1>6, <1>7, <1>8 DEF IInv

LEMMA FirstLoginStep ==
    ASSUME IInv, NEW c \in Conns, FirstLogin(c)
    PROVE  IInv'
<1>1. TypeOK'
  <2>1. nextID + 1 \in Sessions /\ logins[nextID + 1] = 0
    BY GateAssumption
    DEF IInv, TypeOK, StateCoherent, FreshCoherent, FirstLogin, CreateSession, Sessions
  <2>2. logins' \in [Sessions -> 0 .. MaxLogins]
    BY <2>1, GateAssumption DEF IInv, TypeOK, FirstLogin, CreateSession
  <2>3. state' \in [Sessions -> States] /\ bySession' \subseteq Sessions
    BY <2>1 DEF IInv, TypeOK, FirstLogin, CreateSession, States
  <2>4. nextID' \in 0 .. MaxSession
    BY GateAssumption DEF IInv, TypeOK, FirstLogin, CreateSession
  <2>5. conn' \in [Sessions -> Conns \cup {NoConn}]
        /\ sessionID' \in [Conns -> Sessions \cup {NoSession}]
    BY <2>1 DEF IInv, TypeOK, FirstLogin, CreateSession
  <2>. QED
    BY <2>2, <2>3, <2>4, <2>5 DEF IInv, TypeOK, FirstLogin, CreateSession
<1>2. LinkCoherent'
  BY GateAssumption
  DEF IInv, TypeOK, LinkCoherent, StateCoherent, Sessions, NoSession, FirstLogin,
      CreateSession, Unbound
<1>3. StateCoherent'
  <2>1. nextID + 1 \in Sessions /\ state[nextID + 1] = "Init"
    BY GateAssumption DEF IInv, TypeOK, StateCoherent, FirstLogin, CreateSession, Sessions
  <2>2. playerID[nextID + 1] = NoPlayer /\ c # NoConn
    BY <2>1, GateAssumption DEF IInv, FreshCoherent
  <2>3. ASSUME NEW s \in Sessions
        PROVE  /\ state'[s] = IF s = nextID + 1 THEN "Online" ELSE state[s]
               /\ conn'[s] = IF s = nextID + 1 THEN c ELSE conn[s]
               /\ s > nextID' <=> s > nextID /\ s # nextID + 1
               /\ s \in bySession' <=> s \in bySession \/ s = nextID + 1
               /\ playerID'[s] = playerID[s]
    BY <2>1, GateAssumption DEF IInv, TypeOK, FirstLogin, CreateSession, Sessions
  <2>. QED
    BY <2>1, <2>2, <2>3 DEF IInv, StateCoherent
<1>4. FreshCoherent'
  BY GateAssumption
  DEF IInv, TypeOK, StateCoherent, FreshCoherent, Sessions, NoNotice, OfflineNotice,
      FirstLogin, CreateSession, Unbound
<1>5. OfflineIsNotified'
  BY GateAssumption
  DEF IInv, TypeOK, StateCoherent, FreshCoherent, OfflineIsNotified, OfflineNotice,
      NoNotice, FirstLogin, CreateSession, Unbound
<1>6. AttachedNotOffline'
  BY GateAssumption
  DEF IInv, TypeOK, StateCoherent, FreshCoherent, AttachedNotOffline, OfflineNotice,
      ResumeNotice, NoNotice, FirstLogin, CreateSession, Unbound
<1>7. KickLimitEnforced'
  BY GateAssumption
  DEF IInv, TypeOK, StateCoherent, FreshCoherent, KickLimitEnforced, Sessions, FirstLogin,
      CreateSession, Unbound
<1>8. IndexNotDangling'
  BY GateAssumption
  DEF IInv, TypeOK, StateCoherent, FreshCoherent, IndexNotDangling, Sessions, NoSession,
      FirstLogin, CreateSession, Unbound
<1>. QED
  BY <1>1, <1>2, <1>3, <1>4, <1>5, <1>6, <1>7, <1>8 DEF IInv

LEMMA LoginAgainStep ==
    ASSUME IInv, NEW c \in Conns, NEW s \in Sessions, LoginAgain(c, s)
    PROVE  IInv'
<1>1. TypeOK'
  <2>1. logins' \in [Sessions -> 0 .. MaxLogins]
    BY GateAssumption DEF IInv, TypeOK, LoginAgain
  <2>2. state' \in [Sessions -> States]
    BY DEF IInv, TypeOK, LoginAgain, States
  <2>. QED
    BY <2>1, <2>2 DEF IInv, TypeOK, LoginAgain, connVars, managerVars
<1>2. LinkCoherent'
  BY GateAssumption
  DEF IInv, TypeOK, LinkCoherent, StateCoherent, Sessions, NoSession, LoginAgain,
      Serves, connVars, managerVars
<1>3. StateCoherent'
  BY GateAssumption
  DEF IInv, TypeOK, StateCoherent, Sessions, NoSession, States, LoginAgain, Serves,
      connVars, managerVars
<1>4. FreshCoherent'
  BY GateAssumption
  DEF IInv, TypeOK, StateCoherent, FreshCoherent, Sessions, NoNotice, OfflineNotice,
      LoginAgain, Serves, connVars, managerVars
<1>5. OfflineIsNotified'
  BY GateAssumption
  DEF IInv, TypeOK, StateCoherent, FreshCoherent, OfflineIsNotified, OfflineNotice,
      NoNotice, LoginAgain, Serves, connVars, managerVars
<1>6. AttachedNotOffline'
  BY GateAssumption
  DEF IInv, TypeOK, StateCoherent, FreshCoherent, AttachedNotOffline, OfflineNotice,
      ResumeNotice, NoNotice, LoginAgain, Serves, connVars, managerVars
<1>7. KickLimitEnforced'
  BY GateAssumption
  DEF IInv, TypeOK, StateCoherent, FreshCoherent, KickLimitEnforced, Sessions,
      LoginAgain, Serves, connVars, managerVars
<1>8. IndexNotDangling'
  BY GateAssumption
  DEF IInv, TypeOK, StateCoherent, FreshCoherent, IndexNotDangling, Sessions, NoSession,
      LoginAgain, Serves, connVars, managerVars
<1>. QED
  BY <1>1, <1>2, <1>3, <1>4, <1>5, <1>6, <1>7, <1>8 DEF IInv

LEMMA LoginRspStep ==
    ASSUME IInv, NEW s \in Sessions, NEW p \in Players, LoginRsp(s, p)
    PROVE  IInv'
<1>1. TypeOK'
  <2>1. closed' \subseteq Conns
    BY DEF IInv, TypeOK, LoginRsp, BindPlayer, ClosedWith, Leaving, Displaced, Kickable
  <2>2. notified' \in [Sessions -> Notices]
    BY NoticeTypes DEF IInv, TypeOK, LoginRsp, BindPlayer, OfflineNotices
  <2>3. state' \in [Sessions -> States] /\ conn' \in [Sessions -> Conns \cup {NoConn}]
    BY DEF IInv, TypeOK, States, LoginRsp, BindPlayer, GoneOffline, Unlinked
  <2>4. logins' \in [Sessions -> 0 .. MaxLogins]
    BY GateAssumption DEF IInv, TypeOK, LoginRsp, BindPlayer
  <2>5. byPlayer' \in [Players -> Sessions \cup {NoSession}]
        /\ playerID' \in [Sessions -> Players \cup {NoPlayer}]
    BY DEF IInv, TypeOK, LoginRsp, BindPlayer
  <2>. QED
    BY <2>1, <2>2, <2>3, <2>4, <2>5 DEF IInv, TypeOK, LoginRsp, BindPlayer
<1>2. LinkCoherent'
  BY GateAssumption
  DEF IInv, TypeOK, LinkCoherent, StateCoherent, Sessions, NoSession, LoginRsp, BindPlayer,
      Displaced, Kickable, Unlinked, ClosedWith, GoneOffline, OfflineNotices, Leaving
<1>3. StateCoherent'
  BY GateAssumption
  DEF IInv, TypeOK, StateCoherent, Sessions, NoSession, States, LoginRsp, BindPlayer,
      Displaced, Kickable, Unlinked, ClosedWith, GoneOffline, OfflineNotices, Leaving
<1>4. FreshCoherent'
  BY GateAssumption
  DEF IInv, TypeOK, StateCoherent, FreshCoherent, Sessions, NoNotice, OfflineNotice,
      LoginRsp, BindPlayer, Displaced, Kickable, Unlinked, ClosedWith, GoneOffline,
      OfflineNotices, Leaving
<1>5. OfflineIsNotified'
  BY GateAssumption
  DEF IInv, TypeOK, StateCoherent, FreshCoherent, OfflineIsNotified, OfflineNotice,
      NoNotice, LoginRsp, BindPlayer, Displaced, Kickable, Unlinked, ClosedWith, GoneOffline,
      OfflineNotices, Leaving
<1>6. AttachedNotOffline'
  BY GateAssumption
  DEF IInv, TypeOK, StateCoherent, FreshCoherent, AttachedNotOffline, OfflineNotice,
      ResumeNotice, NoNotice, LoginRsp, BindPlayer, Displaced, Kickable, Unlinked, ClosedWith,
      GoneOffline, OfflineNotices, Leaving
<1>7. KickLimitEnforced'
  BY GateAssumption
  DEF IInv, TypeOK, StateCoherent, FreshCoherent, KickLimitEnforced, Sessions, LoginRsp,
      BindPlayer, Displaced, Kickable, Unlinked, ClosedWith, GoneOffline, OfflineNotices,
      Leaving
<1>8. IndexNotDangling'
  BY GateAssumption
  DEF IInv, TypeOK, StateCoherent, FreshCoherent, IndexNotDangling, Sessions, NoSession,
      LoginRsp, BindPlayer, Displaced, Kickable, Unlinked, ClosedWith, GoneOffline,
      OfflineNotices, Leaving
<1>. QED
  BY <1>1, <1>2, <1>3, <1>4, <1>5, <1>6, <1>7, <1>8 DEF IInv

LEMMA GCStep ==
    ASSUME IInv, NEW dead \in SUBSET Sessions, GC(dead)
    PROVE  IInv'
<1>1. TypeOK'
  BY GateAssumption, NoticeTypes
  DEF IInv, TypeOK, Sessions, NoSession, States, GC, Reclaimable, Collected, connVars
<1>2. LinkCoherent'
  BY GateAssumption
  DEF IInv, TypeOK, LinkCoherent, StateCoherent, Sessions, NoSession, GC, Reclaimable,
      Collected, connVars
<1>3. StateCoherent'
  BY GateAssumption
  DEF IInv, TypeOK, StateCoherent, Sessions, NoSession, States, GC, Reclaimable,
      Collected, connVars
<1>4. FreshCoherent'
  BY GateAssumption
  DEF IInv, TypeOK, StateCoherent, FreshCoherent, Sessions, NoNotice, OfflineNotice, GC,
      Reclaimable, Collected, connVars
<1>5. OfflineIsNotified'
  BY GateAssumption
  DEF IInv, TypeOK, StateCoherent, FreshCoherent, OfflineIsNotified, OfflineNotice,
      NoNotice, GC, Reclaimable, Collected, connVars
<1>6. AttachedNotOffline'
  BY GateAssumption
  DEF IInv, TypeOK, StateCoherent, FreshCoherent, AttachedNotOffline, OfflineNotice,
      ResumeNotice, NoNotice, GC, Reclaimable, Collected, connVars
<1>7. KickLimitEnforced'
  BY GateAssumption
  DEF IInv, TypeOK, StateCoherent, FreshCoherent, KickLimitEnforced, Sessions, GC,
      Reclaimable, Collected, connVars
<1>8. IndexNotDangling'
  BY GateAssumption
  DEF IInv, TypeOK, StateCoherent, FreshCoherent, IndexNotDangling, Sessions, NoSession,
      GC, Reclaimable, Collected, connVars
<1>. QED
  BY <1>1, <1>2, <1>3, <1>4, <1>5, <1>6, <1>7, <1>8 DEF IInv

LEMMA UnknownMsgStep ==
    ASSUME IInv, NEW c \in Conns, NEW s \in Sessions, UnknownMsg(c, s)
    PROVE  IInv'
<1> DEFINE n == unknownMsgCount[s] + 1
           T == IF KickForUnknown(n) THEN {s} ELSE {}
<1>1. T \in SUBSET bySession /\ OnSessionOffline(T) /\ s \in bySession
  BY DEF UnknownMsg, Serves
<1>2. unknownMsgCount' \in [Sessions -> 0 .. MaxUnknown]
  BY GateAssumption DEF UnknownMsg, IInv, TypeOK
<1>3. /\ unknownMsgCount'[s] = n
      /\ \A t \in Sessions \ {s} : unknownMsgCount'[t] = unknownMsgCount[t]
  BY DEF UnknownMsg, IInv, TypeOK
<1>4. ASSUME unknownMsgKickCount > 0, conn'[s] # NoConn
      PROVE  n < unknownMsgKickCount
  <2>1. ~KickForUnknown(n)
    BY <1>1, <1>4 DEF OnSessionOffline, Unlinked, Leaving, IInv, StateCoherent
  <2>. QED
    BY <2>1, <1>4, GateAssumption DEF KickForUnknown, IInv, TypeOK
<1>. QED
  BY <1>1, <1>2, <1>3, <1>4, OfflineStep DEF UnknownMsg

-----------------------------------------------------------------------------
LEMMA NextStep ==
    ASSUME IInv, [Next]_vars
    PROVE  IInv'
<1>1. CASE UNCHANGED vars
  BY <1>1, FrameStep DEF vars, sessionVars, managerVars, IInv, TypeOK
<1>2. ASSUME NEW c \in Conns, ConnStep(c) PROVE IInv'
  <2>1. CASE Accept(c)
    BY <2>1, FrameStep DEF Accept, sessionVars, managerVars, IInv, TypeOK
  <2>2. ASSUME CloseConn(c) PROVE IInv'
    BY <2>2, FrameStep DEF CloseConn, sessionVars, managerVars, IInv, TypeOK
  <2>3. CASE ReadError(c)
    BY <2>3, ReadErrorStep
  <2>4. CASE \E s \in Sessions : Resume(c, s)
    BY <2>4, ResumeStep
  <2>5. CASE FirstLogin(c)
    BY <2>5, FirstLoginStep
  <2>6. CASE \E s \in Sessions : LoginAgain(c, s)
    BY <2>6, LoginAgainStep
  <2>7. ASSUME NEW s \in Sessions, LoginDuplicate(c, s) PROVE IInv'
    <3>1. {s} \in SUBSET bySession /\ OnSessionOffline({s})
      BY <2>7 DEF LoginDuplicate, Serves
    <3>. QED
      BY <3>1, <2>7, OfflineStep DEF LoginDuplicate, IInv, TypeOK
  <2>8. ASSUME NEW s \in Sessions, UnknownMsg(c, s) PROVE IInv'
    BY <2>8, UnknownMsgStep
  <2>. QED
    BY <1>2, <2>1, <2>2, <2>3, <2>4, <2>5, <2>6, <2>7, <2>8
    DEF ConnStep, ConnTeardown, ResumeOnBoundConn, ResumeRejected, RejectUnbound,
        RejectNoSession
<1>3. ASSUME NEW s \in Sessions, SessionStep(s) PROVE IInv'
  <2>1. CASE \E p \in Players : LoginRsp(s, p)
    BY <2>1, LoginRspStep
  <2>2. CASE LoginLost(s)
    <3>1. /\ logins' \in [Sessions -> 0 .. MaxLogins]
          /\ \A t \in Sessions : logins'[t] <= logins[t]
      BY <2>2, GateAssumption DEF LoginLost, IInv, TypeOK
    <3>. QED
      BY <3>1, <2>2, FrameStep
      DEF LoginLost, connVars, sessionVars, managerVars, IInv, TypeOK
  <2>3. CASE HeartbeatTimeout(s) \/ AuthTimeout(s)
    <3>1. {s} \in SUBSET bySession /\ OnSessionOffline({s})
      BY <2>3 DEF HeartbeatTimeout, AuthTimeout
    <3>. QED
      BY <3>1, <2>3, OfflineStep DEF HeartbeatTimeout, AuthTimeout, IInv, TypeOK
  <2>. QED
    BY <1>3, <2>1, <2>2, <2>3 DEF SessionStep
<1>. QED
  BY <1>1, <1>2, <1>3, GCStep DEF Next

\* IInv holds of every reachable state of the gate, whatever the number of
\* connections, players, sessions and logins, and whatever the kick limit.
THEOREM InvariantHolds == Spec => []IInv
<1>1. Init => IInv
  BY InitIInv
<1>2. IInv /\ [Next]_vars => IInv'
  BY NextStep
<1>. QED
  BY <1>1, <1>2, PTL DEF Spec

\* The variables of the gate stay within their types.
THEOREM TypeCorrect == Spec => []TypeOK
<1>1. IInv => TypeOK
  BY DEF IInv
<1>. QED
  BY <1>1, InvariantHolds, PTL

\* A login that takes over a player's index entry leaves the session that held
\* it without a connection, in the same step (onLoginRsp, BindPlayer, Kick).
THEOREM DisplacementDetaches == Spec => DisplacedIsDetached
<1> DEFINE Takeover ==
      \A p \in Players, s \in Sessions :
          byPlayer[p] = s /\ byPlayer'[p] \notin {s, NoSession} => conn'[s] = NoConn
<1>1. IInv /\ [Next]_vars => [Takeover]_vars
  <2> SUFFICES ASSUME IInv, Next, NEW p \in Players, NEW s \in Sessions,
                      byPlayer[p] = s, byPlayer'[p] \notin {s, NoSession}
               PROVE  conn'[s] = NoConn
    OBVIOUS
  <2>1. \E t \in Sessions, q \in Players : LoginRsp(t, q)
    <3>1. UNCHANGED managerVars => FALSE
      BY DEF managerVars
    <3>2. ASSUME NEW dead \in SUBSET Sessions, GC(dead) PROVE FALSE
      BY <3>2 DEF GC
    <3>3. ASSUME NEW c \in Conns, ConnStep(c) PROVE FALSE
      BY <3>1, <3>3
      DEF ConnStep, Accept, CloseConn, ConnTeardown, ReadError, ResumeOnBoundConn,
          ResumeRejected, Resume, RejectUnbound, FirstLogin, CreateSession, RejectNoSession,
          LoginAgain, LoginDuplicate, UnknownMsg
    <3>4. ASSUME NEW t \in Sessions, SessionStep(t), ~\E q \in Players : LoginRsp(t, q)
          PROVE  FALSE
      BY <3>1, <3>4 DEF SessionStep, LoginLost, HeartbeatTimeout, AuthTimeout
    <3>. QED
      BY <3>2, <3>3, <3>4 DEF Next
  <2>2. PICK t \in Sessions, q \in Players : LoginRsp(t, q)
    BY <2>1
  <2>3. q = p /\ s # t /\ s # NoSession
    BY <2>2 DEF LoginRsp, BindPlayer, IInv, TypeOK, Sessions, NoSession
  <2>4. conn'[s] = IF s \in Leaving(Displaced(t, p)) THEN NoConn ELSE conn[s]
    BY <2>2, <2>3 DEF LoginRsp, BindPlayer, Unlinked
  <2>5. conn[s] # NoConn => s \in Leaving(Displaced(t, p))
    BY <2>3 DEF Leaving, Displaced, Kickable, IInv, StateCoherent
  <2>. QED
    BY <2>4, <2>5
<1>. QED
  BY <1>1, InvariantHolds, PTL DEF Spec, DisplacedIsDetached

\* A session of a player that is Offline has been reported offline to the game
\* server, whichever of onConnClose, Kick and the timers took it there.
THEOREM NoticesFollowSessions == Spec => []OfflineIsNotified
<1>1. IInv => OfflineIsNotified
  BY DEF IInv
<1>. QED
  BY <1>1, InvariantHolds, PTL

\* An attached session was not reported offline last: handleResume announces it
\* again (notifyPlayerResume).
THEOREM AttachedIsAnnounced == Spec => []AttachedNotOffline
<1>1. IInv => AttachedNotOffline
  BY DEF IInv
<1>. QED
  BY <1>1, InvariantHolds, PTL

\* The two links between a session and its connection agree, as handleResume,
\* createSessionForConn and onConnClose write them.
THEOREM LinksAgree == Spec => []LinkCoherent
<1>1. IInv => LinkCoherent
  BY DEF IInv
<1>. QED
  BY <1>1, InvariantHolds, PTL

\* The state of a session agrees with its connection, its player and bySession.
THEOREM StatesAgree == Spec => []StateCoherent
<1>1. IInv => StateCoherent
  BY DEF IInv
<1>. QED
  BY <1>1, InvariantHolds, PTL

\* While the limit is in force no attached session has reached it: UnknownMsg
\* kicks at the limit, and only a login or a resume lifts it, for all sessions.
THEOREM KickLimitHolds == Spec => []KickLimitEnforced
<1>1. IInv => KickLimitEnforced
  BY DEF IInv
<1>. QED
  BY <1>1, InvariantHolds, PTL

\* BindPlayer and GC together never leave a player's index entry on a session
\* that was collected while it belonged to the player.
THEOREM IndexStaysLive == Spec => []IndexNotDangling
<1>1. IInv => IndexNotDangling
  BY DEF IInv
<1>. QED
  BY <1>1, InvariantHolds, PTL

-----------------------------------------------------------------------------
(* The gate implements SessionLifecycle.                                   *)

LEMMA PhaseValue ==
    ASSUME IInv, NEW s \in Sessions
    PROVE  /\ phase[s] \in {"absent", "attached", "detached", "closed"}
           /\ phase[s] = "absent" <=> s > nextID
           /\ phase[s] = "closed" <=> state[s] = "Closed"
           /\ phase[s] = "attached" <=> conn[s] # NoConn
<1>1. phase[s] = phaseOf(s)
  BY DEF phase
<1>. QED
  BY <1>1 DEF phaseOf, IInv, TypeOK, States, StateCoherent

LEMMA PhaseValueNext ==
    ASSUME IInv', NEW s \in Sessions
    PROVE  /\ phase'[s] \in {"absent", "attached", "detached", "closed"}
           /\ phase'[s] = "absent" <=> s > nextID'
           /\ phase'[s] = "closed" <=> state'[s] = "Closed"
           /\ phase'[s] = "attached" <=> conn'[s] # NoConn
<1>1. phase'[s] = phaseOf(s)'
  BY DEF phase
<1>. QED
  BY <1>1 DEF phaseOf, IInv, TypeOK, States, StateCoherent

\* A session whose lifetime the step neither starts nor ends, and which has a
\* connection after the step as it had before, keeps its phase.
LEMMA PhaseKept ==
    ASSUME IInv, IInv', NEW s \in Sessions,
           s > nextID <=> s > nextID', state[s] = "Closed" <=> state'[s] = "Closed",
           conn[s] = NoConn <=> conn'[s] = NoConn
    PROVE  phase'[s] = phase[s]
  BY PhaseValue, PhaseValueNext

\* The steps of SessionLifecycle, from the value each session's phase takes.
LEMMA PhaseMove ==
    ASSUME IInv, IInv', NEW s \in Sessions,
           \A t \in Sessions \ {s} : phase'[t] = phase[t]
    PROVE  /\ phase'[s] = phase[s] => UNCHANGED phase
           /\ phase[s] = "attached" /\ phase'[s] = "detached" => Lifecycle!Detach(s)
           /\ phase[s] = "detached" /\ phase'[s] = "attached" => Lifecycle!Attach(s)
<1>1. phase = [t \in Sessions |-> phase[t]] /\ phase' = [t \in Sessions |-> phase'[t]]
  BY DEF phase
<1>2. ASSUME NEW v, phase'[s] = v PROVE phase' = [phase EXCEPT ![s] = v]
  BY <1>1, <1>2
<1>3. phase'[s] = phase[s] => phase' = phase
  BY <1>1, <1>2
<1>. QED
  BY <1>2, <1>3 DEF Lifecycle!Detach, Lifecycle!Attach

\* At most session s goes offline.
LEMMA OfflinePhase ==
    ASSUME IInv, IInv', NEW s \in Sessions, UNCHANGED nextID,
           \A t \in Sessions : state[t] = "Closed" <=> state'[t] = "Closed",
           \A t \in Sessions \ {s} : conn'[t] = conn[t],
           conn'[s] \in {conn[s], NoConn}
    PROVE  Lifecycle!Detach(s) \/ UNCHANGED phase
<1>1. \A t \in Sessions \ {s} : phase'[t] = phase[t]
  BY PhaseKept
<1>2. CASE conn'[s] = conn[s]
  BY <1>1, <1>2, PhaseKept, PhaseMove
<1>3. CASE conn'[s] = NoConn /\ conn[s] # NoConn
  <2>1. phase[s] = "attached"
    BY <1>3, PhaseValue
  <2>2. phase'[s] = "detached"
    BY <1>3, <2>1, PhaseValue, PhaseValueNext
  <2>. QED
    BY <1>1, <2>1, <2>2, PhaseMove
<1>. QED
  BY <1>2, <1>3

LEMMA ResumePhase ==
    ASSUME IInv, IInv', NEW c \in Conns, NEW s \in Sessions, Resume(c, s)
    PROVE  Lifecycle!Attach(s) \/ UNCHANGED phase
<1>1. \A t \in Sessions : state[t] = "Closed" <=> state'[t] = "Closed"
  BY DEF Resume, Resumable, ResumedState, IInv, TypeOK
<1>2. \A t \in Sessions \ {s} : phase'[t] = phase[t]
  BY <1>1, PhaseKept DEF Resume, IInv, TypeOK
<1>3. phase'[s] = "attached" /\ nextID' = nextID
  BY PhaseValueNext, GateAssumption DEF Resume, IInv, TypeOK
<1>4. phase[s] \in {"attached", "detached"}
  BY <1>1, <1>3, PhaseValue, PhaseValueNext
<1>. QED
  BY <1>2, <1>3, <1>4, PhaseMove

LEMMA FirstLoginPhase ==
    ASSUME IInv, IInv', NEW c \in Conns, FirstLogin(c)
    PROVE  \E s \in Sessions : Lifecycle!Create(s)
<1> DEFINE s == nextID + 1
<1>1. s \in Sessions /\ state[s] = "Init" /\ nextID \in Nat /\ nextID' = s
  BY GateAssumption DEF FirstLogin, CreateSession, IInv, TypeOK, StateCoherent, Sessions
<1>2. ASSUME NEW t \in Sessions \ {s} PROVE phase'[t] = phase[t]
  <2>1. conn'[t] = conn[t] /\ state'[t] = state[t]
    BY DEF FirstLogin, CreateSession, IInv, TypeOK
  <2>2. t > nextID <=> t > nextID'
    BY <1>1, GateAssumption DEF Sessions
  <2>. QED
    BY <2>1, <2>2, PhaseKept
<1>3. phase[s] = "absent"
  BY <1>1, PhaseValue
<1>4. phase'[s] = "attached"
  BY <1>1, PhaseValueNext, GateAssumption DEF FirstLogin, CreateSession, IInv, TypeOK
<1>5. \A t \in 1 .. s - 1 : phase[t] # "absent"
  <2> SUFFICES ASSUME NEW t \in 1 .. s - 1 PROVE phase[t] # "absent"
    OBVIOUS
  <2>1. t \in Sessions /\ ~(t > nextID)
    BY <1>1, GateAssumption DEF Sessions
  <2>. QED
    BY <2>1, PhaseValue
<1>6. phase' = [phase EXCEPT ![s] = "attached"]
  BY <1>1, <1>2, <1>4 DEF phase
<1>. QED
  BY <1>1, <1>3, <1>5, <1>6 DEF Lifecycle!Create

LEMMA GCPhase ==
    ASSUME IInv, IInv', NEW dead \in SUBSET Sessions, GC(dead)
    PROVE  Lifecycle!Collect(dead)
<1>1. ASSUME NEW s \in Sessions \ dead PROVE phase'[s] = phase[s]
  BY PhaseKept DEF GC
<1>2. ASSUME NEW s \in dead PROVE phase[s] = "detached" /\ phase'[s] = "closed"
  <2>1. state[s] = "Offline" /\ conn[s] = NoConn /\ ~(s > nextID)
    BY <1>2 DEF GC, Reclaimable, IInv, StateCoherent
  <2>2. state'[s] = "Closed"
    BY <1>2 DEF GC
  <2>. QED
    BY <1>2, <2>1, <2>2, PhaseValue, PhaseValueNext
<1>3. phase' = [s \in Sessions |-> phase'[s]]
  BY DEF phase
<1>. QED
  BY <1>1, <1>2, <1>3 DEF GC, Lifecycle!Collect, Lifecycle!Sessions, Sessions

LEMMA LifecycleStep ==
    ASSUME IInv, IInv', [Next]_vars
    PROVE  [Lifecycle!Next]_phase
<1>0. Lifecycle!Sessions = Sessions
  BY DEF Lifecycle!Sessions, Sessions
<1>1. ASSUME UNCHANGED <<state, conn, nextID>> PROVE UNCHANGED phase
  BY <1>1 DEF phase, phaseOf
<1>2. ASSUME NEW s \in Sessions, s \in bySession, OnSessionOffline({s}), UNCHANGED managerVars
      PROVE  Lifecycle!Detach(s) \/ UNCHANGED phase
  BY <1>2, OfflinePhase DEF OnSessionOffline, Unlinked, GoneOffline, Leaving, managerVars,
     IInv, TypeOK, StateCoherent
<1>3. ASSUME NEW c \in Conns, ConnStep(c) PROVE [Lifecycle!Next]_phase
  <2>1. CASE Accept(c) \/ CloseConn(c)
    BY <2>1, <1>1 DEF Accept, CloseConn, sessionVars, managerVars
  <2>2. CASE ReadError(c)
    <3>1. CASE ClosedSession(c) = {}
      BY <3>1, <2>2, <1>1 DEF ReadError, managerVars, IInv, TypeOK
    <3>2. ASSUME NEW s \in Sessions, ClosedSession(c) = {s}
          PROVE  Lifecycle!Detach(s) \/ UNCHANGED phase
      BY <3>2, <2>2, OfflinePhase
      DEF ReadError, ClosedSession, managerVars, IInv, TypeOK, StateCoherent
    <3>. QED
      BY <3>1, <3>2, <1>0 DEF ClosedSession, Lifecycle!Next, IInv, TypeOK
  <2>3. CASE \E s \in Sessions : Resume(c, s)
    BY <2>3, ResumePhase, <1>0 DEF Lifecycle!Next
  <2>4. CASE FirstLogin(c)
    BY <2>4, FirstLoginPhase, <1>0 DEF Lifecycle!Next
  <2>5. ASSUME NEW s \in Sessions, LoginAgain(c, s) PROVE UNCHANGED phase
    <3>1. \A t \in Sessions : phase'[t] = phase[t]
      BY <2>5, PhaseKept DEF LoginAgain, managerVars, IInv, TypeOK
    <3>. QED
      BY <3>1 DEF phase
  <2>6. ASSUME NEW s \in Sessions, LoginDuplicate(c, s) \/ UnknownMsg(c, s)
        PROVE  Lifecycle!Detach(s) \/ UNCHANGED phase
    <3>1. CASE OnSessionOffline({s})
      BY <3>1, <2>6, <1>2 DEF LoginDuplicate, UnknownMsg, Serves
    <3>2. CASE OnSessionOffline({}) /\ UnknownMsg(c, s)
      <4>1. UNCHANGED <<state, conn, nextID>>
        BY <3>2 DEF OnSessionOffline, Unlinked, GoneOffline, Leaving, UnknownMsg,
           managerVars, IInv, TypeOK
      <4>. QED
        BY <4>1, <1>1
    <3>. QED
      BY <2>6, <3>1, <3>2 DEF LoginDuplicate, UnknownMsg
  <2>. QED
    BY <1>3, <2>1, <2>2, <2>3, <2>4, <2>5, <2>6, <1>0
    DEF ConnStep, ConnTeardown, ResumeOnBoundConn, ResumeRejected, RejectUnbound,
        RejectNoSession, Lifecycle!Next
<1>4. ASSUME NEW s \in Sessions, SessionStep(s) PROVE [Lifecycle!Next]_phase
  <2>1. ASSUME NEW p \in Players, LoginRsp(s, p) PROVE [Lifecycle!Next]_phase
    <3>1. \A t \in Sessions : state[t] = "Closed" <=> state'[t] = "Closed"
      BY <2>1 DEF LoginRsp, BindPlayer, GoneOffline, Leaving, IInv, TypeOK, StateCoherent
    <3>2. CASE Displaced(s, p) = {}
      <4>1. nextID' = nextID /\ \A t \in Sessions : conn'[t] = conn[t]
        BY <2>1, <3>2 DEF LoginRsp, BindPlayer, Unlinked, Leaving, IInv, TypeOK
      <4>. QED
        BY <3>1, <4>1, <2>1, OfflinePhase, <1>0 DEF Lifecycle!Next
    <3>3. ASSUME NEW t \in Sessions, Displaced(s, p) = {t}
          PROVE  Lifecycle!Detach(t) \/ UNCHANGED phase
      <4>1. nextID' = nextID /\ \A u \in Sessions \ {t} : conn'[u] = conn[u]
        BY <2>1, <3>3 DEF LoginRsp, BindPlayer, Unlinked, Leaving
      <4>2. conn'[t] \in {conn[t], NoConn}
        BY <2>1, <3>3 DEF LoginRsp, BindPlayer, Unlinked
      <4>. QED
        BY <3>1, <4>1, <4>2, OfflinePhase
    <3>4. Displaced(s, p) = {} \/ \E t \in Sessions : Displaced(s, p) = {t}
      BY DEF Displaced, IInv, TypeOK
    <3>. QED
      BY <3>2, <3>3, <3>4, <1>0 DEF Lifecycle!Next
  <2>2. CASE LoginLost(s)
    BY <2>2, <1>1 DEF LoginLost, sessionVars, managerVars
  <2>3. CASE HeartbeatTimeout(s) \/ AuthTimeout(s)
    BY <2>3, <1>2, <1>0 DEF HeartbeatTimeout, AuthTimeout, Lifecycle!Next
  <2>. QED
    BY <1>4, <2>1, <2>2, <2>3 DEF SessionStep
<1>5. ASSUME NEW dead \in SUBSET Sessions, GC(dead) PROVE [Lifecycle!Next]_phase
  BY <1>5, GCPhase, <1>0 DEF Lifecycle!Next
<1>. QED
  BY <1>1, <1>3, <1>4, <1>5 DEF Next, vars

\* Every behaviour of the gate is, seen through phase, a behaviour of
\* SessionLifecycle: in particular no timer, kick or login ever closes a session
\* that has a connection, and a closed session never comes back.
THEOREM GateImplementsLifecycle == Spec => LifecycleSpec
<1>1. Init => Lifecycle!Init
  BY DEF Init, Lifecycle!Init, Lifecycle!Sessions, phase, phaseOf, Sessions
<1>2. IInv /\ IInv' /\ [Next]_vars => [Lifecycle!Next]_phase
  BY LifecycleStep
<1>. QED
  BY <1>1, <1>2, InvariantHolds, PTL DEF Spec, LifecycleSpec, Lifecycle!Spec
=============================================================================
