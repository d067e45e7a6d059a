------------------------------ MODULE RaceProofs ------------------------------
(***************************************************************************)
(* What the goroutines of the gate keep of a session and its connection in *)
(* every interleaving, and all of it where no two of them met, for any     *)
(* number of connections, players, links, sessions and handlers at a time. *)
(***************************************************************************)
EXTENDS GateRace, TLAPS

Places == {"idle", "offlineConn", "offlineState", "service", "trace", "reply", "send",
           "closeConn", "closeState", "resumeConn", "resumeState", "resumeBind", "authing",
           "permit", "beat", "mark", "bind", "kick", "auth", "alive", "close"}

\* Every variable keeps the range its Go type gives it.
ManagerTypes ==
    /\ bySession \subseteq Sessions /\ nextID \in 0 .. MaxSession
    /\ byPlayer \in [Players -> Sessions \cup {NoSession}]
    /\ sessionID \in [Conns -> Sessions \cup {NoSession}]
    /\ reading \subseteq Conns

SessionTypes ==
    /\ state \in [Sessions -> {"Init", "Online", "Authing", "Authenticated", "Offline", "Closed"}]
    /\ playerID \in [Sessions -> Players \cup {NoPlayer}]
    /\ conn \in [Sessions -> Conns \cup {NoConn}]
    /\ notified \in [Sessions -> {"none", "offline", "resume"}]

LocalTypes ==
    /\ pc \in [Threads -> Places]
    /\ ses \in [Threads -> Sessions \cup {NoSession}]
    /\ vic \in [Threads -> Sessions \cup {NoSession}]
    /\ role \in [Threads -> Players \cup {NoPlayer}]
    /\ msg \in [Threads -> {"none", "login", "route", "offline", "resume"}]

Types == ManagerTypes /\ SessionTypes /\ LocalTypes /\ raced \subseteq Sessions

Offlining == {"offlineConn", "offlineState"}
Sending == {"service", "trace"}
Closing == {"closeConn", "closeState"}
Resuming == {"resumeConn", "resumeState", "resumeBind"}

\* The places a goroutine of each kind passes.
PlacesOf(t) ==
    {"idle"} \cup Offlining \cup Sending \cup
    (IF t \in Conns
     THEN Closing \cup Resuming \cup {"authing", "permit", "beat", "mark", "reply", "send"}
     ELSE IF t \in Links THEN {"bind", "kick", "auth", "reply", "send"}
     ELSE IF t = Heart THEN {"alive"} ELSE {"close"})

\* Where a goroutine can be and what it holds there.
Sound(t) ==
    /\ pc[t] \in PlacesOf(t)
    /\ Idle(t) <=> ses[t] = NoSession
    /\ pc[t] \in Offlining \cup {"kick"} => vic[t] # NoSession
    /\ vic[t] # NoSession =>
          /\ pc[t] \in Offlining \cup Sending \cup {"kick"}
          /\ vic[t] = ses[t] <=> t \notin Links
    /\ pc[t] \in Sending =>
          /\ msg[t] # "none"
          /\ vic[t] # NoSession => msg[t] = "offline"
          /\ t \notin Conns => vic[t] # NoSession
    /\ t \in Links /\ pc[t] \in Offlining \cup Sending \cup {"bind", "kick", "auth"} =>
          role[t] \in Players
    /\ ses[t] <= nextID /\ vic[t] <= nextID
    /\ t \in Conns =>
          /\ t \notin reading =>
                pc[t] \in {"idle"} \cup Closing \/ (pc[t] \in Sending /\ msg[t] = "offline")
          /\ pc[t] = "closeConn" => sessionID[t] = ses[t]
          /\ pc[t] \in Resuming => sessionID[t] = NoSession
          /\ pc[t] \in Sending /\ msg[t] = "resume" => sessionID[t] = ses[t]

Locals == \A t \in Threads : Sound(t)

\* Session ids are handed out in order.
Born ==
    /\ bySession \subseteq 1 .. nextID
    /\ \A s \in Sessions : s > nextID =>
          /\ state[s] = "Init" /\ playerID[s] = NoPlayer
          /\ conn[s] = NoConn /\ notified[s] = "none"
    /\ \A p \in Players : byPlayer[p] <= nextID

\* Where two goroutines work on a session, it is raced.
Solo == \A t, u \in Threads : \A s \in Sessions :
           t # u /\ s \in WorksOn(t) /\ s \in WorksOn(u) => s \in raced

\* The connection of a session is its own, is read from, and the session lives.
Attached(s) ==
    conn[s] # NoConn =>
        /\ sessionID[conn[s]] = s /\ conn[s] \in reading
        /\ state[s] \in {"Online", "Authing", "Authenticated"}
        /\ notified[s] # "offline"

\* Nothing is told of a session without a player.
ToldOfPlayer(s) == playerID[s] = NoPlayer => notified[s] = "none"

\* SessionManager has s, and s has not been closed.
Registered(s) == s \in bySession /\ state[s] \notin {"Init", "Closed"}

\* What a handler finds and leaves of a session nobody else works on.
Coherent(s) ==
    /\ Attached(s)
    /\ state[s] \in {"Online", "Authing"} => conn[s] # NoConn /\ playerID[s] = NoPlayer
    /\ state[s] = "Offline" /\ playerID[s] # NoPlayer => notified[s] = "offline"
    /\ s \in bySession <=> state[s] \notin {"Init", "Closed"}
    /\ ToldOfPlayer(s)

\* A resume has attached s to the connection c.
Resumed(c, s) ==
    conn[s] = c /\ state[s] = IF playerID[s] = NoPlayer THEN "Online" ELSE "Authenticated"

\* What t counts on of the session s it tells the service about.
Sends(t, s) ==
    /\ msg[t] \in {"login", "route"} => Coherent(s)
    /\ msg[t] = "resume" => Resumed(t, s)
    /\ msg[t] = "offline" => conn[s] = NoConn /\ state[s] = "Offline"
    /\ pc[t] = "trace" => conn[s] # NoConn /\ (msg[t] \in Notices => playerID[s] # NoPlayer)

\* What t counts on in the middle of its handler, of a session s it works on and
\* nobody else does.  s is not its own session but the one it takes offline when
\* s = vic[t] and t is a service link; byPlayer may name one that is gone.
Midway(t, s) ==
    /\ ToldOfPlayer(s)
    /\ pc[t] # "kick" \/ s # vic[t] => Registered(s)
    /\ pc[t] \in {"resumeConn", "authing", "permit", "beat", "mark", "bind", "reply", "send",
                 "alive", "close"} => Coherent(s)
    /\ pc[t] = "authing" => state[s] = "Online"
    /\ pc[t] = "permit" => state[s] = "Authing"
    /\ pc[t] \in {"send", "mark", "alive"} => conn[s] # NoConn
    /\ pc[t] = "close" => state[s] = "Offline"
    /\ pc[t] = "resumeConn" => state[s] # "Authing"
    /\ pc[t] = "resumeState" => conn[s] = t
    /\ pc[t] = "resumeBind" => Resumed(t, s)
    /\ pc[t] = "closeState" => conn[s] = NoConn
    /\ pc[t] = "kick" /\ s = vic[t] => Coherent(s)
    /\ pc[t] = "auth" \/ (vic[t] # NoSession /\ s # vic[t]) => Attached(s)
    /\ pc[t] \in Offlining /\ s = vic[t] => state[s] # "Offline"
    /\ pc[t] = "offlineState" /\ s = vic[t] => conn[s] = NoConn
    /\ pc[t] \in Sending /\ s = Subject(t) => Sends(t, s)

\* A session nobody raced for is as its only handler left it.
Steady == \A s \in Sessions \ raced :
    /\ Quiet(s) => Coherent(s)
    /\ \A t \in Threads : s \in WorksOn(t) => Midway(t, s)

\* The gate panics only on a session on which two handlers met.
Fatal == crashed # NoSession => crashed \in raced

Core ==
    /\ Types /\ Locals /\ Born
    /\ RepliesGoHome /\ NoConnLeaked
    /\ Solo /\ Steady

IInv == Core /\ Fatal

-----------------------------------------------------------------------------
\* What goroutine t can count on of session s, whether it works on it or not.
Held(t, s) == IF s \in WorksOn(t) THEN Midway(t, s) ELSE Coherent(s)

\* A step of t leaves the other goroutines where they are.
Only(t) ==
    /\ \A u \in Threads \ {t} :
          /\ pc'[u] = pc[u] /\ ses'[u] = ses[u] /\ vic'[u] = vic[u]
          /\ role'[u] = role[u] /\ msg'[u] = msg[u]
    /\ \A c \in Conns \ {t} : sessionID'[c] = sessionID[c] /\ (c \in reading' <=> c \in reading)
    /\ nextID' >= nextID

\* A step does not touch s.
Untouched(s) ==
    /\ state'[s] = state[s] /\ playerID'[s] = playerID[s]
    /\ conn'[s] = conn[s] /\ notified'[s] = notified[s]
    /\ s \in bySession' <=> s \in bySession
    /\ Registered(s) /\ Attached(s) => Attached(s)'

\* What a step of t does to s: to its own session, and to another.
Each(t, s) ==
    IF s \in WorksOn(t) \cup WorksOn(t)'
    THEN Held(t, s) => Held(t, s)'
    ELSE \/ Untouched(s)
         \/ Coherent(s)' /\ \A u \in Threads : s \notin WorksOn(u)

\* A goroutine is of one kind.
LEMMA Kinds ==
    /\ \A c \in Conns :
          c \in Threads /\ c \notin Links /\ c # Heart /\ c # Collector /\ c # NoConn
    /\ \A v \in Links : v \in Threads /\ v \notin Conns /\ v # Heart /\ v # Collector
    /\ Heart \in Threads /\ Heart # Collector /\ Heart \notin Conns \cup Links
    /\ Collector \in Threads /\ Collector \notin Conns \cup Links
    /\ \A p \in Players : p # NoPlayer
    /\ \A s \in Sessions : Link(s) \in Links /\ s # NoSession
  <1>1. ASSUME NEW s \in Sessions PROVE Link(s) \in Links
    BY RaceAssumption DEF Links, Link, Sessions
  <1>2. QED
    BY <1>1, RaceAssumption DEF Threads, Links, Sessions, NoSession

\* s is among the sessions of t when t has it as its own or takes it offline.
LEMMA Works ==
    ASSUME NEW t \in Threads, NEW s \in Sessions
    PROVE  /\ s \in WorksOn(t) <=> s \in {ses[t], vic[t]}
           /\ s \in WorksOn(t)' <=> s \in {ses'[t], vic'[t]}
           /\ s # NoSession
  BY DEF WorksOn, Sessions, NoSession

\* The other goroutines stay where they may be.
LEMMA SoundFrame ==
    ASSUME Types, Types', Locals, NEW t \in Threads, Only(t), Sound(t)'
    PROVE  Locals'
  <1>1. SUFFICES ASSUME NEW u \in Threads, u # t PROVE Sound(u)'
    BY DEF Locals
  <1>2. /\ Sound(u) /\ ses[u] \in Nat /\ vic[u] \in Nat
        /\ nextID \in Nat /\ nextID' \in Nat /\ nextID' >= nextID
    BY <1>1, RaceAssumption
    DEF Locals, Only, Types, ManagerTypes, LocalTypes, Sessions, NoSession
  <1>3. /\ pc'[u] = pc[u] /\ ses'[u] = ses[u] /\ vic'[u] = vic[u]
        /\ role'[u] = role[u] /\ msg'[u] = msg[u]
    BY <1>1 DEF Only
  <1>4. u \in Conns => sessionID'[u] = sessionID[u] /\ (u \in reading' <=> u \in reading)
    BY <1>1 DEF Only
  <1>5. QED
    BY <1>2, <1>3, <1>4 DEF Sound, PlacesOf, Idle, At

\* Handlers keep what holds of the sessions nobody raced for, one step of one
\* goroutine at a time.
LEMMA Frame ==
    ASSUME Solo, Steady, Observe, NEW t \in Threads, Only(t),
           \A s \in Sessions : Each(t, s)
    PROVE  Solo' /\ Steady'
  <1>1. Solo'
    BY DEF Solo, Observe
  <1>2. raced \subseteq raced'
    BY DEF Observe
  <1>3. ASSUME NEW u \in Threads, u # t
        PROVE  /\ WorksOn(u)' = WorksOn(u) /\ Subject(u)' = Subject(u)
               /\ pc'[u] = pc[u] /\ vic'[u] = vic[u] /\ msg'[u] = msg[u]
    BY <1>3 DEF Only, WorksOn, Subject
  <1>4. SUFFICES ASSUME NEW s \in Sessions, s \notin raced'
                 PROVE  /\ Quiet(s)' => Coherent(s)'
                        /\ \A u \in Threads : s \in WorksOn(u)' => Midway(u, s)'
    BY <1>1 DEF Steady
  <1>5. /\ s \notin raced /\ Each(t, s)
        /\ Quiet(s) => Coherent(s)
        /\ \A u \in Threads : s \in WorksOn(u) => Midway(u, s)
    BY <1>2, <1>4 DEF Steady
  <1>6. CASE s \in WorksOn(t) \cup WorksOn(t)'
    <2>1. \A u \in Threads : u # t => s \notin WorksOn(u) /\ s \notin WorksOn(u)'
      BY <1>1, <1>3, <1>4, <1>5, <1>6 DEF Solo
    <2>2. Held(t, s)
      BY <1>5, <2>1 DEF Held, Quiet
    <2>3. Held(t, s)'
      BY <1>5, <1>6, <2>2 DEF Each
    <2>4. QED
      BY <2>1, <2>3 DEF Held, Quiet
  <1>7. CASE s \notin WorksOn(t) \cup WorksOn(t)'
    <2>1. \A u \in Threads : s \in WorksOn(u)' <=> s \in WorksOn(u)
      BY <1>3, <1>7
    <2>2. CASE Coherent(s)' /\ \A u \in Threads : s \notin WorksOn(u)
      BY <2>1, <2>2
    <2>3. CASE Untouched(s)
      <3>1. Coherent(s) => Coherent(s)'
        BY <2>3 DEF Untouched, Coherent, Registered, Attached, ToldOfPlayer
      <3>2. ASSUME NEW u \in Threads, s \in WorksOn(u)' PROVE Midway(u, s)'
        <4>1. u # t /\ s \in WorksOn(u) /\ Midway(u, s)
          BY <1>5, <1>7, <2>1, <3>2
        <4>2. Registered(s) /\ Attached(s) => Attached(s)'
          BY <2>3 DEF Untouched
        <4>3. /\ Registered(s)' <=> Registered(s)
              /\ ToldOfPlayer(s)' <=> ToldOfPlayer(s)
              /\ Resumed(u, s)' <=> Resumed(u, s)
              /\ state'[s] = state[s] /\ playerID'[s] = playerID[s] /\ conn'[s] = conn[s]
          BY <2>3 DEF Untouched, Registered, ToldOfPlayer, Resumed
        <4>4. Sends(u, s) => Sends(u, s)'
          BY <1>3, <3>1, <4>1, <4>3 DEF Sends
        <4>5. QED
          BY <1>3, <3>1, <4>1, <4>2, <4>3, <4>4 DEF Midway, Offlining, Sending
      <3>3. QED
        BY <1>5, <2>1, <3>1, <3>2 DEF Quiet
    <2>4. QED
      BY <1>5, <1>7, <2>2, <2>3 DEF Each
  <1>8. QED
    BY <1>6, <1>7

LEMMA InitCore == Init => IInv
  <1> SUFFICES ASSUME Init PROVE IInv
    OBVIOUS
  <1>1. Types
    BY RaceAssumption
    DEF Init, Types, ManagerTypes, SessionTypes, LocalTypes, Places, Sessions, NoSession
  <1>2. Locals
    BY Kinds
    DEF Init, Locals, Sound, PlacesOf, Idle, At, NoSession, Offlining, Sending, Closing, Resuming
  <1>3. Born /\ RepliesGoHome /\ NoConnLeaked
    BY DEF Init, Born, NoSession, RepliesGoHome, NoConnLeaked
  <1>4. \A t \in Threads : WorksOn(t) = {}
    BY DEF Init, WorksOn
  <1>5. Solo /\ Steady
    BY <1>4 DEF Init, Solo, Steady, Coherent, Attached, ToldOfPlayer
  <1>6. QED
    BY <1>1, <1>2, <1>3, <1>5 DEF Init, IInv, Core, Fatal

-----------------------------------------------------------------------------
\* A step moves only t's goroutine.
Moves(t) ==
    /\ LocalTypes'
    /\ \A u \in Threads \ {t} :
          /\ pc'[u] = pc[u] /\ ses'[u] = ses[u] /\ vic'[u] = vic[u]
          /\ role'[u] = role[u] /\ msg'[u] = msg[u]

\* A step writes only to the sessions t works on, and binds no connection.
Writes(t) ==
    /\ SessionTypes'
    /\ UNCHANGED <<bySession, byPlayer, nextID, sessionID, reading>>
    /\ \A s \in Sessions \ {ses[t], vic[t]} :
          /\ state'[s] = state[s] /\ playerID'[s] = playerID[s]
          /\ conn'[s] = conn[s] /\ notified'[s] = notified[s]
    /\ \A s \in Sessions : conn'[s] \in {conn[s], NoConn}

\* Every step of a handler but those that bind, add and remove.
LEMMA HandlerStep ==
    ASSUME Core, Observe, NEW t \in Threads, Moves(t), Writes(t), Sound(t)',
           pc[t] = "resumeState" => pc'[t] = "resumeBind" /\ ses'[t] = ses[t],
           pc[t] # "resumeBind",
           pc[t] = "closeConn" => conn'[ses[t]] = NoConn,
           \A s \in Sessions \cap {ses[t], vic[t], ses'[t], vic'[t]} : Held(t, s) => Held(t, s)'
    PROVE  Core'
  <1>1. Types'
    BY DEF Core, Types, ManagerTypes, Moves, Writes, Observe, Sessions
  <1>2. Only(t)
    BY DEF Core, Types, ManagerTypes, Only, Moves, Writes
  <1>3. Born'
    <2>1. ASSUME NEW s \in Sessions, s > nextID' PROVE s \notin {ses[t], vic[t]}
      BY <2>1, RaceAssumption
      DEF Core, Locals, Sound, Types, ManagerTypes, LocalTypes, Sessions, NoSession, Writes
    <2>2. QED
      BY <2>1 DEF Core, Born, Writes
  <1>4. RepliesGoHome'
    BY Kinds DEF Core, RepliesGoHome, Moves, Writes, Types, SessionTypes
  <1>5. NoConnLeaked'
    <2>1. ASSUME NEW s \in bySession', conn'[s] # NoConn
          PROVE  conn'[s] \in reading' \/ pc'[conn'[s]] = "closeConn"
      <3>1. /\ s \in bySession /\ s \in Sessions /\ conn'[s] = conn[s] /\ reading' = reading
            /\ conn[s] \in Conns /\ conn[s] \in Threads
        BY <2>1, Kinds DEF Core, Types, ManagerTypes, SessionTypes, Writes
      <3>2. conn[s] \in reading \/ pc[conn[s]] = "closeConn"
        BY <2>1, <3>1 DEF Core, NoConnLeaked, At
      <3>3. CASE conn[s] = t /\ pc[t] = "closeConn"
        <4>1. sessionID[t] = ses[t]
          BY <3>1, <3>3 DEF Core, Locals, Sound
        <4>2. sessionID[t] = s
          BY <2>1, <3>1, <3>3 DEF Core, RepliesGoHome
        <4>3. QED
          BY <2>1, <3>3, <4>1, <4>2
      <3>4. CASE ~(conn[s] = t /\ pc[t] = "closeConn")
        BY <3>1, <3>2, <3>4 DEF Moves
      <3>5. QED
        BY <3>3, <3>4
    <2>2. QED
      BY <2>1 DEF NoConnLeaked, At
  <1>6. ASSUME NEW s \in Sessions PROVE Each(t, s)
    <2>1. CASE s \in {ses[t], vic[t], ses'[t], vic'[t]}
      BY <2>1, Works DEF Each
    <2>2. CASE s \notin {ses[t], vic[t], ses'[t], vic'[t]}
      <3>1. Untouched(s)
        BY <2>2 DEF Writes, Untouched, Attached
      <3>2. QED
        BY <2>2, <3>1, Works DEF Each
    <2>3. QED
      BY <2>1, <2>2
  <1>7. QED
    BY <1>1, <1>2, <1>3, <1>4, <1>5, <1>6, Frame, SoundFrame DEF Core

\* A goroutine that was idle begins to work on s.
LEMMA BeginStep ==
    ASSUME Core, Observe, NEW t \in Threads, NEW s \in Sessions, Idle(t), s \in bySession,
           Moves(t), Sound(t)', ses'[t] = s, vic'[t] \in {NoSession, s},
           UNCHANGED <<managerVars, sessionVars, sessionID, reading>>,
           Coherent(s) => Midway(t, s)'
    PROVE  Core'
  <1> USE DEF managerVars, sessionVars
  <1>1. ses[t] = NoSession /\ vic[t] = NoSession /\ pc[t] = "idle"
    BY DEF Core, Locals, Sound, Idle, At, Offlining, Sending
  <1>2. Writes(t)
    BY DEF Core, Types, SessionTypes, Writes
  <1>3. ASSUME NEW x \in Sessions \cap {ses[t], vic[t], ses'[t], vic'[t]}, Held(t, x)
        PROVE  Held(t, x)'
    <2>1. x = s /\ x # NoSession
      BY <1>1 DEF Sessions, NoSession
    <2>2. Coherent(x) /\ x \in WorksOn(t)'
      BY <1>1, <1>3, <2>1, Works DEF Held
    <2>3. QED
      BY <2>1, <2>2 DEF Held
  <1>4. QED
    BY <1>1, <1>2, <1>3, HandlerStep

\* A goroutine goes on with its handler, or ends it.
LEMMA WorkingStep ==
    ASSUME Core, Observe, NEW t \in Threads, Moves(t), Writes(t), Sound(t)',
           pc[t] = "resumeState" => pc'[t] = "resumeBind" /\ ses'[t] = ses[t],
           pc[t] # "resumeBind",
           pc[t] = "closeConn" => conn'[ses[t]] = NoConn,
           {ses'[t], vic'[t]} \subseteq {ses[t], vic[t], NoSession},
           \A s \in Sessions : s \in {ses[t], vic[t]} /\ Midway(t, s) =>
               IF s \in {ses'[t], vic'[t]} THEN Midway(t, s)' ELSE Coherent(s)'
    PROVE  Core'
  <1>1. ASSUME NEW s \in Sessions \cap {ses[t], vic[t], ses'[t], vic'[t]}, Held(t, s)
        PROVE  Held(t, s)'
    <2>1. s \in {ses[t], vic[t]} /\ Midway(t, s)
      BY <1>1, Works DEF Held
    <2>2. QED
      BY <2>1, Works DEF Held
  <1>2. QED
    BY <1>1, HandlerStep

\* A registered session has an id that was handed out.
LEMMA IdsHandedOut ==
    ASSUME Core, NEW s \in bySession
    PROVE  s \in Sessions /\ s <= nextID /\ s # NoSession
  <1>1. s \in Sessions /\ s \in 1 .. nextID /\ nextID \in 0 .. MaxSession
    BY DEF Core, Born, Types, ManagerTypes
  <1>2. QED
    BY <1>1, RaceAssumption DEF NoSession

-----------------------------------------------------------------------------
(* What starts a handler.                                                  *)

LEMMA ResumeStep ==
    ASSUME Core, Observe, NEW c \in Conns, NEW s \in Sessions, Resume(c, s)
    PROVE  Core'
  <1> USE DEF managerVars, sessionVars, connVars, locals
  <1>1. /\ c \in Threads /\ Idle(c) /\ s \in bySession /\ s <= nextID /\ s # NoSession
        /\ ses[c] = NoSession /\ vic[c] = NoSession
        /\ c \in reading /\ sessionID[c] = NoSession
    BY Kinds, IdsHandedOut
    DEF Core, Locals, Sound, Offlining, Sending, Idle, At, Resume, Known, Begin, Unbound, Reads
  <1>2. Moves(c) /\ ses'[c] = s /\ vic'[c] \in {NoSession, s}
    BY <1>1
    DEF Core, Types, LocalTypes, Moves, Places, Resume, Begin, Unbound, Reads
  <1>3. Sound(c)'
    BY <1>1, Kinds
    DEF Core, Types, LocalTypes, Locals, Sound, PlacesOf, Offlining, Sending, Closing, Resuming,
        Idle, At, Resume, Begin, Unbound, Reads
  <1>4. Coherent(s) => Midway(c, s)'
    BY <1>1
    DEF Core, Types, LocalTypes, Midway, Sends, Resumed, Subject, Coherent, Attached, Registered,
        ToldOfPlayer, Offlining, Sending, Resume, Begin, Unbound, Reads
  <1>5. QED
    BY <1>1, <1>2, <1>3, <1>4, BeginStep
    DEF Resume, Begin

LEMMA LoginAgainStep ==
    ASSUME Core, Observe, NEW c \in Conns, NEW s \in Sessions, LoginAgain(c, s)
    PROVE  Core'
  <1> USE DEF managerVars, sessionVars, connVars, locals
  <1>1. /\ c \in Threads /\ Idle(c) /\ s \in bySession /\ s <= nextID /\ s # NoSession
        /\ ses[c] = NoSession /\ vic[c] = NoSession
        /\ c \in reading
    BY Kinds, IdsHandedOut
    DEF Core, Locals, Sound, Offlining, Sending, Idle, At, LoginAgain, Known, Begin, Serves, Reads
  <1>2. Moves(c) /\ ses'[c] = s /\ vic'[c] \in {NoSession, s}
    BY <1>1
    DEF Core, Types, LocalTypes, Moves, Places, LoginAgain, Begin, Serves, Reads
  <1>3. Sound(c)'
    BY <1>1, Kinds
    DEF Core, Types, LocalTypes, Locals, Sound, PlacesOf, Offlining, Sending, Closing, Resuming,
        Idle, At, LoginAgain, Begin, Serves, Reads
  <1>4. Coherent(s) => Midway(c, s)'
    BY <1>1
    DEF Core, Types, LocalTypes, Midway, Sends, Resumed, Subject, Coherent, Attached, Registered,
        ToldOfPlayer, Offlining, Sending, LoginAgain, Begin, Serves, Reads
  <1>5. QED
    BY <1>1, <1>2, <1>3, <1>4, BeginStep
    DEF LoginAgain, Begin

LEMMA RoutedStep ==
    ASSUME Core, Observe, NEW c \in Conns, NEW s \in Sessions, Routed(c, s)
    PROVE  Core'
  <1> USE DEF managerVars, sessionVars, connVars, locals
  <1>1. /\ c \in Threads /\ Idle(c) /\ s \in bySession /\ s <= nextID /\ s # NoSession
        /\ ses[c] = NoSession /\ vic[c] = NoSession
        /\ c \in reading
    BY Kinds, IdsHandedOut
    DEF Core, Locals, Sound, Offlining, Sending, Idle, At, Routed, Known, Serves, Reads
  <1>2. Moves(c) /\ ses'[c] = s /\ vic'[c] \in {NoSession, s}
    BY <1>1
    DEF Core, Types, LocalTypes, Moves, Places, Routed, Serves, Reads
  <1>3. Sound(c)'
    BY <1>1, Kinds
    DEF Core, Types, LocalTypes, Locals, Sound, PlacesOf, Offlining, Sending, Closing, Resuming,
        Idle, At, Routed, Serves, Reads
  <1>4. Coherent(s) => Midway(c, s)'
    BY <1>1
    DEF Core, Types, LocalTypes, Midway, Sends, Resumed, Subject, Coherent, Attached, Registered,
        ToldOfPlayer, Offlining, Sending, Routed, Serves, Reads
  <1>5. QED
    BY <1>1, <1>2, <1>3, <1>4, BeginStep
    DEF Routed

LEMMA KickedByReadStep ==
    ASSUME Core, Observe, NEW c \in Conns, NEW s \in Sessions, KickedByRead(c, s)
    PROVE  Core'
  <1> USE DEF managerVars, sessionVars, connVars, locals
  <1>1. /\ c \in Threads /\ Idle(c) /\ s \in bySession /\ s <= nextID /\ s # NoSession
        /\ ses[c] = NoSession /\ vic[c] = NoSession
        /\ c \in reading
    BY Kinds, IdsHandedOut
    DEF Core, Locals, Sound, Offlining, Sending, Idle, At, KickedByRead, Known, BeginOffline,
        Serves, Reads, Leaves
  <1>2. Moves(c) /\ ses'[c] = s /\ vic'[c] \in {NoSession, s}
    BY <1>1
    DEF Core, Types, LocalTypes, Moves, Places, KickedByRead, BeginOffline, Serves, Reads, Leaves
  <1>3. Sound(c)'
    BY <1>1, Kinds
    DEF Core, Types, LocalTypes, Locals, Sound, PlacesOf, Offlining, Sending, Closing, Resuming,
        Idle, At, KickedByRead, BeginOffline, Serves, Reads, Leaves
  <1>4. Coherent(s) => Midway(c, s)'
    BY <1>1
    DEF Core, Types, LocalTypes, Midway, Sends, Resumed, Subject, Coherent, Attached, Registered,
        ToldOfPlayer, Offlining, Sending, KickedByRead, BeginOffline, Serves, Reads, Leaves
  <1>5. QED
    BY <1>1, <1>2, <1>3, <1>4, BeginStep
    DEF KickedByRead, BeginOffline

LEMMA HeartbeatReqStep ==
    ASSUME Core, Observe, NEW c \in Conns, NEW s \in Sessions, HeartbeatReq(c, s)
    PROVE  Core'
  <1> USE DEF managerVars, sessionVars, connVars, locals
  <1>1. /\ c \in Threads /\ Idle(c) /\ s \in bySession /\ s <= nextID /\ s # NoSession
        /\ ses[c] = NoSession /\ vic[c] = NoSession
        /\ c \in reading
    BY Kinds, IdsHandedOut
    DEF Core, Locals, Sound, Offlining, Sending, Idle, At, HeartbeatReq, Known, Begin, Serves, Reads
  <1>2. Moves(c) /\ ses'[c] = s /\ vic'[c] \in {NoSession, s}
    BY <1>1
    DEF Core, Types, LocalTypes, Moves, Places, HeartbeatReq, Begin, Serves, Reads
  <1>3. Sound(c)'
    BY <1>1, Kinds
    DEF Core, Types, LocalTypes, Locals, Sound, PlacesOf, Offlining, Sending, Closing, Resuming,
        Idle, At, HeartbeatReq, Begin, Serves, Reads
  <1>4. Coherent(s) => Midway(c, s)'
    BY <1>1
    DEF Core, Types, LocalTypes, Midway, Sends, Resumed, Subject, Coherent, Attached, Registered,
        ToldOfPlayer, Offlining, Sending, HeartbeatReq, Begin, Serves, Reads
  <1>5. QED
    BY <1>1, <1>2, <1>3, <1>4, BeginStep
    DEF HeartbeatReq, Begin

LEMMA LoginRspStep ==
    ASSUME Core, Observe, NEW s \in Sessions, NEW p \in Players, LoginRsp(s, p)
    PROVE  Core'
  <1> USE DEF managerVars, sessionVars, connVars, locals
  <1>1. /\ Link(s) \in Threads /\ Idle(Link(s)) /\ s \in bySession /\ s <= nextID /\ s # NoSession
        /\ ses[Link(s)] = NoSession /\ vic[Link(s)] = NoSession /\ Link(s) \in Links
    BY Kinds, IdsHandedOut
    DEF Core, Locals, Sound, Offlining, Sending, Idle, At, LoginRsp, Known, Link
  <1>2. Moves(Link(s)) /\ ses'[Link(s)] = s /\ vic'[Link(s)] \in {NoSession, s}
    BY <1>1
    DEF Core, Types, LocalTypes, Moves, Places, LoginRsp, Link
  <1>3. Sound(Link(s))'
    BY <1>1, Kinds
    DEF Core, Types, LocalTypes, Locals, Sound, PlacesOf, Offlining, Sending, Closing, Resuming,
        Idle, At, LoginRsp, Link
  <1>4. Coherent(s) => Midway(Link(s), s)'
    BY <1>1
    DEF Core, Types, LocalTypes, Midway, Sends, Resumed, Subject, Coherent, Attached, Registered,
        ToldOfPlayer, Offlining, Sending, LoginRsp, Link
  <1>5. QED
    BY <1>1, <1>2, <1>3, <1>4, BeginStep
    DEF LoginRsp, Link

LEMMA PushStep ==
    ASSUME Core, Observe, NEW s \in Sessions, Push(s)
    PROVE  Core'
  <1> USE DEF managerVars, sessionVars, connVars, locals
  <1>1. /\ Link(s) \in Threads /\ Idle(Link(s)) /\ s \in bySession /\ s <= nextID /\ s # NoSession
        /\ ses[Link(s)] = NoSession /\ vic[Link(s)] = NoSession /\ Link(s) \in Links
    BY Kinds, IdsHandedOut
    DEF Core, Locals, Sound, Offlining, Sending, Idle, At, Push, Known, Begin
  <1>2. Moves(Link(s)) /\ ses'[Link(s)] = s /\ vic'[Link(s)] \in {NoSession, s}
    BY <1>1
    DEF Core, Types, LocalTypes, Moves, Places, Push, Begin
  <1>3. Sound(Link(s))'
    BY <1>1, Kinds
    DEF Core, Types, LocalTypes, Locals, Sound, PlacesOf, Offlining, Sending, Closing, Resuming,
        Idle, At, Push, Begin
  <1>4. Coherent(s) => Midway(Link(s), s)'
    BY <1>1
    DEF Core, Types, LocalTypes, Midway, Sends, Resumed, Subject, Coherent, Attached, Registered,
        ToldOfPlayer, Offlining, Sending, Push, Begin
  <1>5. QED
    BY <1>1, <1>2, <1>3, <1>4, BeginStep
    DEF Push, Begin

LEMMA CheckHeartbeatStep ==
    ASSUME Core, Observe, NEW s \in Sessions, CheckHeartbeat(s)
    PROVE  Core'
  <1> USE DEF managerVars, sessionVars, connVars, locals
  <1>1. /\ Heart \in Threads /\ Idle(Heart) /\ s \in bySession /\ s <= nextID /\ s # NoSession
        /\ ses[Heart] = NoSession /\ vic[Heart] = NoSession
    BY Kinds, IdsHandedOut
    DEF Core, Locals, Sound, Offlining, Sending, Idle, At, CheckHeartbeat, Known, Begin
  <1>2. Moves(Heart) /\ ses'[Heart] = s /\ vic'[Heart] \in {NoSession, s}
    BY <1>1
    DEF Core, Types, LocalTypes, Moves, Places, CheckHeartbeat, Begin
  <1>3. Sound(Heart)'
    BY <1>1, Kinds
    DEF Core, Types, LocalTypes, Locals, Sound, PlacesOf, Offlining, Sending, Closing, Resuming,
        Idle, At, CheckHeartbeat, Begin
  <1>4. Coherent(s) => Midway(Heart, s)'
    BY <1>1
    DEF Core, Types, LocalTypes, Midway, Sends, Resumed, Subject, Coherent, Attached, Registered,
        ToldOfPlayer, Offlining, Sending, CheckHeartbeat, Begin
  <1>5. QED
    BY <1>1, <1>2, <1>3, <1>4, BeginStep
    DEF CheckHeartbeat, Begin

LEMMA CheckAuthingStep ==
    ASSUME Core, Observe, NEW s \in Sessions, CheckAuthing(s)
    PROVE  Core'
  <1> USE DEF managerVars, sessionVars, connVars, locals
  <1>1. /\ Collector \in Threads /\ Idle(Collector) /\ s \in bySession /\ s <= nextID /\ s # NoSession
        /\ ses[Collector] = NoSession /\ vic[Collector] = NoSession
    BY Kinds, IdsHandedOut
    DEF Core, Locals, Sound, Offlining, Sending, Idle, At, CheckAuthing, Known, BeginOffline
  <1>2. Moves(Collector) /\ ses'[Collector] = s /\ vic'[Collector] \in {NoSession, s}
    BY <1>1
    DEF Core, Types, LocalTypes, Moves, Places, CheckAuthing, BeginOffline
  <1>3. Sound(Collector)'
    BY <1>1, Kinds
    DEF Core, Types, LocalTypes, Locals, Sound, PlacesOf, Offlining, Sending, Closing, Resuming,
        Idle, At, CheckAuthing, BeginOffline
  <1>4. Coherent(s) => Midway(Collector, s)'
    BY <1>1
    DEF Core, Types, LocalTypes, Midway, Sends, Resumed, Subject, Coherent, Attached, Registered,
        ToldOfPlayer, Offlining, Sending, CheckAuthing, BeginOffline
  <1>5. QED
    BY <1>1, <1>2, <1>3, <1>4, BeginStep
    DEF CheckAuthing, BeginOffline

LEMMA CollectStep ==
    ASSUME Core, Observe, NEW s \in Sessions, Collect(s)
    PROVE  Core'
  <1> USE DEF managerVars, sessionVars, connVars, locals
  <1>1. /\ Collector \in Threads /\ Idle(Collector) /\ s \in bySession /\ s <= nextID /\ s # NoSession
        /\ ses[Collector] = NoSession /\ vic[Collector] = NoSession
    BY Kinds, IdsHandedOut
    DEF Core, Locals, Sound, Offlining, Sending, Idle, At, Collect, Known, Begin, Reclaimable
  <1>2. Moves(Collector) /\ ses'[Collector] = s /\ vic'[Collector] \in {NoSession, s}
    BY <1>1
    DEF Core, Types, LocalTypes, Moves, Places, Collect, Begin, Reclaimable
  <1>3. Sound(Collector)'
    BY <1>1, Kinds
    DEF Core, Types, LocalTypes, Locals, Sound, PlacesOf, Offlining, Sending, Closing, Resuming,
        Idle, At, Collect, Begin, Reclaimable
  <1>4. Coherent(s) => Midway(Collector, s)'
    BY <1>1
    DEF Core, Types, LocalTypes, Midway, Sends, Resumed, Subject, Coherent, Attached, Registered,
        ToldOfPlayer, Offlining, Sending, Collect, Begin, Reclaimable
  <1>5. QED
    BY <1>1, <1>2, <1>3, <1>4, BeginStep
    DEF Collect, Begin

-----------------------------------------------------------------------------
(* What a handler goes on with.                                            *)

LEMMA CloseConnStep ==
    ASSUME Core, Observe, NEW c \in Conns, CloseConn(c)
    PROVE  Core'
  <1> USE DEF managerVars, sessionVars, connVars, locals
  <1>1. /\ c \in Threads /\ Sound(c) /\ ses[c] \in Sessions \ {NoSession}
        /\ vic[c] \in Sessions \cup {NoSession}
        /\ vic[c] = NoSession
    BY Kinds, RaceAssumption
    DEF Core, Types, ManagerTypes, LocalTypes, Locals, Sound, PlacesOf, Offlining, Sending, Idle,
        At, Sessions, NoSession, CloseConn
  <1>2. Moves(c)
    BY <1>1
    DEF Core, Types, LocalTypes, Moves, Places, CloseConn, Goto
  <1>3. Sound(c)'
    BY <1>1, Kinds
    DEF Core, Types, LocalTypes, Sound, PlacesOf, Offlining, Sending, Closing, Resuming, Idle, At,
        CloseConn, Goto
  <1>4. Writes(c)
    BY <1>1, Kinds
    DEF Core, Types, SessionTypes, Writes, CloseConn, Goto
  <1>5. ASSUME NEW s \in Sessions, s \in {ses[c], vic[c]}, Midway(c, s)
        PROVE  IF s \in {ses'[c], vic'[c]} THEN Midway(c, s)' ELSE Coherent(s)'
    BY <1>1, <1>5, Kinds
    DEF Core, Types, LocalTypes, SessionTypes, Sound, Midway, Sends, Resumed, Subject, Coherent,
        Attached, Registered, ToldOfPlayer, Offlining, Sending, Idle, At, CloseConn, Goto
  <1>6. QED
    BY <1>1, <1>2, <1>3, <1>4, <1>5, WorkingStep
    DEF Core, Types, LocalTypes, SessionTypes, At, CloseConn, Goto

LEMMA CloseStateStep ==
    ASSUME Core, Observe, NEW c \in Conns, CloseState(c)
    PROVE  Core'
  <1> USE DEF managerVars, sessionVars, connVars, locals
  <1>1. /\ c \in Threads /\ Sound(c) /\ ses[c] \in Sessions \ {NoSession}
        /\ vic[c] \in Sessions \cup {NoSession}
        /\ vic[c] = NoSession
    BY Kinds, RaceAssumption
    DEF Core, Types, ManagerTypes, LocalTypes, Locals, Sound, PlacesOf, Offlining, Sending, Idle,
        At, Sessions, NoSession, CloseState
  <1>2. Moves(c)
    BY <1>1
    DEF Core, Types, LocalTypes, Moves, Places, CloseState, ToService
  <1>3. Sound(c)'
    BY <1>1, Kinds
    DEF Core, Types, LocalTypes, Sound, PlacesOf, Offlining, Sending, Closing, Resuming, Idle, At,
        CloseState, ToService
  <1>4. Writes(c)
    BY <1>1, Kinds
    DEF Core, Types, SessionTypes, Writes, CloseState, ToService
  <1>5. ASSUME NEW s \in Sessions, s \in {ses[c], vic[c]}, Midway(c, s)
        PROVE  IF s \in {ses'[c], vic'[c]} THEN Midway(c, s)' ELSE Coherent(s)'
    BY <1>1, <1>5, Kinds
    DEF Core, Types, LocalTypes, SessionTypes, Sound, Midway, Sends, Resumed, Subject, Coherent,
        Attached, Registered, ToldOfPlayer, Offlining, Sending, Idle, At, CloseState, ToService
  <1>6. QED
    BY <1>1, <1>2, <1>3, <1>4, <1>5, WorkingStep
    DEF Core, Types, LocalTypes, SessionTypes, At, CloseState, ToService

LEMMA ResumeStateStep ==
    ASSUME Core, Observe, NEW c \in Conns, ResumeState(c)
    PROVE  Core'
  <1> USE DEF managerVars, sessionVars, connVars, locals
  <1>1. /\ c \in Threads /\ Sound(c) /\ ses[c] \in Sessions \ {NoSession}
        /\ vic[c] \in Sessions \cup {NoSession}
        /\ vic[c] = NoSession
    BY Kinds, RaceAssumption
    DEF Core, Types, ManagerTypes, LocalTypes, Locals, Sound, PlacesOf, Offlining, Sending, Idle,
        At, Sessions, NoSession, ResumeState
  <1>2. Moves(c)
    BY <1>1
    DEF Core, Types, LocalTypes, Moves, Places, ResumeState, Goto
  <1>3. Sound(c)'
    BY <1>1, Kinds
    DEF Core, Types, LocalTypes, Sound, PlacesOf, Offlining, Sending, Closing, Resuming, Idle, At,
        ResumeState, Goto
  <1>4. Writes(c)
    BY <1>1, Kinds
    DEF Core, Types, SessionTypes, Writes, ResumeState, Goto
  <1>5. ASSUME NEW s \in Sessions, s \in {ses[c], vic[c]}, Midway(c, s)
        PROVE  IF s \in {ses'[c], vic'[c]} THEN Midway(c, s)' ELSE Coherent(s)'
    BY <1>1, <1>5, Kinds
    DEF Core, Types, LocalTypes, SessionTypes, Sound, Midway, Sends, Resumed, Subject, Coherent,
        Attached, Registered, ToldOfPlayer, Offlining, Sending, Idle, At, ResumeState, Goto
  <1>6. QED
    BY <1>1, <1>2, <1>3, <1>4, <1>5, WorkingStep
    DEF Core, Types, LocalTypes, SessionTypes, At, ResumeState, Goto

LEMMA AuthingStep ==
    ASSUME Core, Observe, NEW c \in Conns, Authing(c)
    PROVE  Core'
  <1> USE DEF managerVars, sessionVars, connVars, locals
  <1>1. /\ c \in Threads /\ Sound(c) /\ ses[c] \in Sessions \ {NoSession}
        /\ vic[c] \in Sessions \cup {NoSession}
        /\ vic[c] = NoSession
    BY Kinds, RaceAssumption
    DEF Core, Types, ManagerTypes, LocalTypes, Locals, Sound, PlacesOf, Offlining, Sending, Idle,
        At, Sessions, NoSession, Authing
  <1>2. Moves(c)
    BY <1>1
    DEF Core, Types, LocalTypes, Moves, Places, Authing, Goto
  <1>3. Sound(c)'
    BY <1>1, Kinds
    DEF Core, Types, LocalTypes, Sound, PlacesOf, Offlining, Sending, Closing, Resuming, Idle, At,
        Authing, Goto
  <1>4. Writes(c)
    BY <1>1, Kinds
    DEF Core, Types, SessionTypes, Writes, Authing, Goto
  <1>5. ASSUME NEW s \in Sessions, s \in {ses[c], vic[c]}, Midway(c, s)
        PROVE  IF s \in {ses'[c], vic'[c]} THEN Midway(c, s)' ELSE Coherent(s)'
    BY <1>1, <1>5, Kinds
    DEF Core, Types, LocalTypes, SessionTypes, Sound, Midway, Sends, Resumed, Subject, Coherent,
        Attached, Registered, ToldOfPlayer, Offlining, Sending, Idle, At, Authing, Goto
  <1>6. QED
    BY <1>1, <1>2, <1>3, <1>4, <1>5, WorkingStep
    DEF Core, Types, LocalTypes, SessionTypes, At, Authing, Goto

LEMMA PermitStep ==
    ASSUME Core, Observe, NEW c \in Conns, Permit(c)
    PROVE  Core'
  <1> USE DEF managerVars, sessionVars, connVars, locals
  <1>1. /\ c \in Threads /\ Sound(c) /\ ses[c] \in Sessions \ {NoSession}
        /\ vic[c] \in Sessions \cup {NoSession}
        /\ vic[c] = NoSession
    BY Kinds, RaceAssumption
    DEF Core, Types, ManagerTypes, LocalTypes, Locals, Sound, PlacesOf, Offlining, Sending, Idle,
        At, Sessions, NoSession, Permit
  <1>2. Moves(c)
    BY <1>1
    DEF Core, Types, LocalTypes, Moves, Places, Permit, ToService, End
  <1>3. Sound(c)'
    BY <1>1, Kinds
    DEF Core, Types, LocalTypes, Sound, PlacesOf, Offlining, Sending, Closing, Resuming, Idle, At,
        Permit, ToService, End
  <1>4. Writes(c)
    BY <1>1, Kinds
    DEF Core, Types, SessionTypes, Writes, Permit, ToService, End
  <1>5. ASSUME NEW s \in Sessions, s \in {ses[c], vic[c]}, Midway(c, s)
        PROVE  IF s \in {ses'[c], vic'[c]} THEN Midway(c, s)' ELSE Coherent(s)'
    BY <1>1, <1>5, Kinds
    DEF Core, Types, LocalTypes, SessionTypes, Sound, Midway, Sends, Resumed, Subject, Coherent,
        Attached, Registered, ToldOfPlayer, Offlining, Sending, Idle, At, Permit, ToService, End
  <1>6. QED
    BY <1>1, <1>2, <1>3, <1>4, <1>5, WorkingStep
    DEF Core, Types, LocalTypes, SessionTypes, At, Permit, ToService, End

LEMMA HeartbeatStep ==
    ASSUME Core, Observe, NEW c \in Conns, Heartbeat(c)
    PROVE  Core'
  <1> USE DEF managerVars, sessionVars, connVars, locals
  <1>1. /\ c \in Threads /\ Sound(c) /\ ses[c] \in Sessions \ {NoSession}
        /\ vic[c] \in Sessions \cup {NoSession}
        /\ vic[c] = NoSession
    BY Kinds, RaceAssumption
    DEF Core, Types, ManagerTypes, LocalTypes, Locals, Sound, PlacesOf, Offlining, Sending, Idle,
        At, Sessions, NoSession, Heartbeat
  <1>2. Moves(c)
    BY <1>1
    DEF Core, Types, LocalTypes, Moves, Places, Heartbeat, Goto, End, Connected
  <1>3. Sound(c)'
    BY <1>1, Kinds
    DEF Core, Types, LocalTypes, Sound, PlacesOf, Offlining, Sending, Closing, Resuming, Idle, At,
        Heartbeat, Goto, End, Connected
  <1>4. Writes(c)
    BY <1>1, Kinds
    DEF Core, Types, SessionTypes, Writes, Heartbeat, Goto, End, Connected
  <1>5. ASSUME NEW s \in Sessions, s \in {ses[c], vic[c]}, Midway(c, s)
        PROVE  IF s \in {ses'[c], vic'[c]} THEN Midway(c, s)' ELSE Coherent(s)'
    BY <1>1, <1>5, Kinds
    DEF Core, Types, LocalTypes, SessionTypes, Sound, Midway, Sends, Resumed, Subject, Coherent,
        Attached, Registered, ToldOfPlayer, Offlining, Sending, Idle, At, Heartbeat, Goto, End,
        Connected
  <1>6. QED
    BY <1>1, <1>2, <1>3, <1>4, <1>5, WorkingStep
    DEF Core, Types, LocalTypes, SessionTypes, At, Heartbeat, Goto, End, Connected

LEMMA MarkAliveStep ==
    ASSUME Core, Observe, NEW c \in Conns, MarkAlive(c)
    PROVE  Core'
  <1> USE DEF managerVars, sessionVars, connVars, locals
  <1>1. /\ c \in Threads /\ Sound(c) /\ ses[c] \in Sessions \ {NoSession}
        /\ vic[c] \in Sessions \cup {NoSession}
        /\ vic[c] = NoSession
    BY Kinds, RaceAssumption
    DEF Core, Types, ManagerTypes, LocalTypes, Locals, Sound, PlacesOf, Offlining, Sending, Idle,
        At, Sessions, NoSession, MarkAlive
  <1>2. Moves(c)
    BY <1>1
    DEF Core, Types, LocalTypes, Moves, Places, MarkAlive, Goto, Connected
  <1>3. Sound(c)'
    BY <1>1, Kinds
    DEF Core, Types, LocalTypes, Sound, PlacesOf, Offlining, Sending, Closing, Resuming, Idle, At,
        MarkAlive, Goto, Connected
  <1>4. Writes(c)
    BY <1>1, Kinds
    DEF Core, Types, SessionTypes, Writes, MarkAlive, Goto, Connected
  <1>5. ASSUME NEW s \in Sessions, s \in {ses[c], vic[c]}, Midway(c, s)
        PROVE  IF s \in {ses'[c], vic'[c]} THEN Midway(c, s)' ELSE Coherent(s)'
    BY <1>1, <1>5, Kinds
    DEF Core, Types, LocalTypes, SessionTypes, Sound, Midway, Sends, Resumed, Subject, Coherent,
        Attached, Registered, ToldOfPlayer, Offlining, Sending, Idle, At, MarkAlive, Goto, Connected
  <1>6. QED
    BY <1>1, <1>2, <1>3, <1>4, <1>5, WorkingStep
    DEF Core, Types, LocalTypes, SessionTypes, At, MarkAlive, Goto, Connected

LEMMA KickStep ==
    ASSUME Core, Observe, NEW v \in Links, Kick(v)
    PROVE  Core'
  <1> USE DEF managerVars, sessionVars, connVars, locals
  <1>1. /\ v \in Threads /\ Sound(v) /\ ses[v] \in Sessions \ {NoSession}
        /\ vic[v] \in Sessions \cup {NoSession}
        /\ vic[v] # NoSession /\ vic[v] # ses[v] /\ NoSession <= nextID
    BY Kinds, RaceAssumption
    DEF Core, Types, ManagerTypes, LocalTypes, Locals, Sound, PlacesOf, Offlining, Sending, Idle,
        At, Sessions, NoSession, Kick
  <1>2. Moves(v)
    BY <1>1
    DEF Core, Types, LocalTypes, Moves, Places, Kick, Return, End, Leaves
  <1>3. Sound(v)'
    BY <1>1, Kinds
    DEF Core, Types, LocalTypes, Sound, PlacesOf, Offlining, Sending, Closing, Resuming, Idle, At,
        Kick, Return, End, Leaves
  <1>4. Writes(v)
    BY <1>1, Kinds
    DEF Core, Types, SessionTypes, Writes, Kick, Return, End, Leaves
  <1>5. ASSUME NEW s \in Sessions, s \in {ses[v], vic[v]}, Midway(v, s)
        PROVE  IF s \in {ses'[v], vic'[v]} THEN Midway(v, s)' ELSE Coherent(s)'
    BY <1>1, <1>5, Kinds
    DEF Core, Types, LocalTypes, SessionTypes, Sound, Midway, Sends, Resumed, Subject, Coherent,
        Attached, Registered, ToldOfPlayer, Offlining, Sending, Idle, At, Kick, Return, End, Leaves
  <1>6. QED
    BY <1>1, <1>2, <1>3, <1>4, <1>5, WorkingStep
    DEF Core, Types, LocalTypes, SessionTypes, At, Kick, Return, End, Leaves

LEMMA AuthenticateStep ==
    ASSUME Core, Observe, NEW v \in Links, Authenticate(v)
    PROVE  Core'
  <1> USE DEF managerVars, sessionVars, connVars, locals
  <1>1. /\ v \in Threads /\ Sound(v) /\ ses[v] \in Sessions \ {NoSession}
        /\ vic[v] \in Sessions \cup {NoSession}
        /\ vic[v] = NoSession /\ role[v] \in Players
    BY Kinds, RaceAssumption
    DEF Core, Types, ManagerTypes, LocalTypes, Locals, Sound, PlacesOf, Offlining, Sending, Idle,
        At, Sessions, NoSession, Authenticate
  <1>2. Moves(v)
    BY <1>1
    DEF Core, Types, LocalTypes, Moves, Places, Authenticate, Goto
  <1>3. Sound(v)'
    BY <1>1, Kinds
    DEF Core, Types, LocalTypes, Sound, PlacesOf, Offlining, Sending, Closing, Resuming, Idle, At,
        Authenticate, Goto
  <1>4. Writes(v)
    BY <1>1, Kinds
    DEF Core, Types, SessionTypes, Writes, Authenticate, Goto
  <1>5. ASSUME NEW s \in Sessions, s \in {ses[v], vic[v]}, Midway(v, s)
        PROVE  IF s \in {ses'[v], vic'[v]} THEN Midway(v, s)' ELSE Coherent(s)'
    BY <1>1, <1>5, Kinds
    DEF Core, Types, LocalTypes, SessionTypes, Sound, Midway, Sends, Resumed, Subject, Coherent,
        Attached, Registered, ToldOfPlayer, Offlining, Sending, Idle, At, Authenticate, Goto
  <1>6. QED
    BY <1>1, <1>2, <1>3, <1>4, <1>5, WorkingStep
    DEF Core, Types, LocalTypes, SessionTypes, At, Authenticate, Goto

LEMMA OfflineConnStep ==
    ASSUME Core, Observe, NEW t \in Threads, OfflineConn(t)
    PROVE  Core'
  <1> USE DEF managerVars, sessionVars, connVars, locals
  <1>1. /\ t \in Threads /\ Sound(t) /\ ses[t] \in Sessions \ {NoSession}
        /\ vic[t] \in Sessions \cup {NoSession}
        /\ vic[t] # NoSession /\ NoSession <= nextID
    BY Kinds, RaceAssumption
    DEF Core, Types, ManagerTypes, LocalTypes, Locals, Sound, PlacesOf, Offlining, Sending, Idle,
        At, Sessions, NoSession, OfflineConn
  <1>2. Moves(t)
    BY <1>1
    DEF Core, Types, LocalTypes, Moves, Places, OfflineConn, Goto
  <1>3. Sound(t)'
    BY <1>1, Kinds
    DEF Core, Types, LocalTypes, Sound, PlacesOf, Offlining, Sending, Closing, Resuming, Idle, At,
        OfflineConn, Goto
  <1>4. Writes(t)
    BY <1>1, Kinds
    DEF Core, Types, SessionTypes, Writes, OfflineConn, Goto
  <1>5. ASSUME NEW s \in Sessions, s \in {ses[t], vic[t]}, Midway(t, s)
        PROVE  IF s \in {ses'[t], vic'[t]} THEN Midway(t, s)' ELSE Coherent(s)'
    BY <1>1, <1>5, Kinds
    DEF Core, Types, LocalTypes, SessionTypes, Sound, Midway, Sends, Resumed, Subject, Coherent,
        Attached, Registered, ToldOfPlayer, Offlining, Sending, Idle, At, OfflineConn, Goto
  <1>6. QED
    BY <1>1, <1>2, <1>3, <1>4, <1>5, WorkingStep
    DEF Core, Types, LocalTypes, SessionTypes, At, OfflineConn, Goto

LEMMA OfflineStateStep ==
    ASSUME Core, Observe, NEW t \in Threads, OfflineState(t)
    PROVE  Core'
  <1> USE DEF managerVars, sessionVars, connVars, locals
  <1>1. /\ t \in Threads /\ Sound(t) /\ ses[t] \in Sessions \ {NoSession}
        /\ vic[t] \in Sessions \cup {NoSession}
        /\ vic[t] # NoSession /\ NoSession <= nextID
    BY Kinds, RaceAssumption
    DEF Core, Types, ManagerTypes, LocalTypes, Locals, Sound, PlacesOf, Offlining, Sending, Idle,
        At, Sessions, NoSession, OfflineState
  <1>2. Moves(t)
    BY <1>1
    DEF Core, Types, LocalTypes, Moves, Places, OfflineState, ToService, Return, End, WasOnline
  <1>3. Sound(t)'
    BY <1>1, Kinds
    DEF Core, Types, LocalTypes, Sound, PlacesOf, Offlining, Sending, Closing, Resuming, Idle, At,
        OfflineState, ToService, Return, End, WasOnline
  <1>4. Writes(t)
    BY <1>1, Kinds
    DEF Core, Types, SessionTypes, Writes, OfflineState, ToService, Return, End, WasOnline
  <1>5. ASSUME NEW s \in Sessions, s \in {ses[t], vic[t]}, Midway(t, s)
        PROVE  IF s \in {ses'[t], vic'[t]} THEN Midway(t, s)' ELSE Coherent(s)'
    BY <1>1, <1>5, Kinds
    DEF Core, Types, LocalTypes, SessionTypes, Sound, Midway, Sends, Resumed, Subject, Coherent,
        Attached, Registered, ToldOfPlayer, Offlining, Sending, Idle, At, OfflineState, ToService,
        Return, End, WasOnline
  <1>6. QED
    BY <1>1, <1>2, <1>3, <1>4, <1>5, WorkingStep
    DEF Core, Types, LocalTypes, SessionTypes, At, OfflineState, ToService, Return, End, WasOnline

LEMMA ReplyStep ==
    ASSUME Core, Observe, NEW t \in Threads, Reply(t)
    PROVE  Core'
  <1> USE DEF managerVars, sessionVars, connVars, locals
  <1>1. /\ t \in Threads /\ Sound(t) /\ ses[t] \in Sessions \ {NoSession}
        /\ vic[t] \in Sessions \cup {NoSession}
        /\ vic[t] = NoSession
    BY Kinds, RaceAssumption
    DEF Core, Types, ManagerTypes, LocalTypes, Locals, Sound, PlacesOf, Offlining, Sending, Idle,
        At, Sessions, NoSession, Reply
  <1>2. Moves(t)
    BY <1>1
    DEF Core, Types, LocalTypes, Moves, Places, Reply, Goto, End, Connected
  <1>3. Sound(t)'
    BY <1>1, Kinds
    DEF Core, Types, LocalTypes, Sound, PlacesOf, Offlining, Sending, Closing, Resuming, Idle, At,
        Reply, Goto, End, Connected
  <1>4. Writes(t)
    BY <1>1, Kinds
    DEF Core, Types, SessionTypes, Writes, Reply, Goto, End, Connected
  <1>5. ASSUME NEW s \in Sessions, s \in {ses[t], vic[t]}, Midway(t, s)
        PROVE  IF s \in {ses'[t], vic'[t]} THEN Midway(t, s)' ELSE Coherent(s)'
    BY <1>1, <1>5, Kinds
    DEF Core, Types, LocalTypes, SessionTypes, Sound, Midway, Sends, Resumed, Subject, Coherent,
        Attached, Registered, ToldOfPlayer, Offlining, Sending, Idle, At, Reply, Goto, End,
        Connected
  <1>6. QED
    BY <1>1, <1>2, <1>3, <1>4, <1>5, WorkingStep
    DEF Core, Types, LocalTypes, SessionTypes, At, Reply, Goto, End, Connected

LEMMA SendStep ==
    ASSUME Core, Observe, NEW t \in Threads, Send(t)
    PROVE  Core'
  <1> USE DEF managerVars, sessionVars, connVars, locals
  <1>1. /\ t \in Threads /\ Sound(t) /\ ses[t] \in Sessions \ {NoSession}
        /\ vic[t] \in Sessions \cup {NoSession}
        /\ vic[t] = NoSession
    BY Kinds, RaceAssumption
    DEF Core, Types, ManagerTypes, LocalTypes, Locals, Sound, PlacesOf, Offlining, Sending, Idle,
        At, Sessions, NoSession, Send
  <1>2. Moves(t)
    BY <1>1
    DEF Core, Types, LocalTypes, Moves, Places, Send, End, Connected
  <1>3. Sound(t)'
    BY <1>1, Kinds
    DEF Core, Types, LocalTypes, Sound, PlacesOf, Offlining, Sending, Closing, Resuming, Idle, At,
        Send, End, Connected
  <1>4. Writes(t)
    BY <1>1, Kinds
    DEF Core, Types, SessionTypes, Writes, Send, End, Connected
  <1>5. ASSUME NEW s \in Sessions, s \in {ses[t], vic[t]}, Midway(t, s)
        PROVE  IF s \in {ses'[t], vic'[t]} THEN Midway(t, s)' ELSE Coherent(s)'
    BY <1>1, <1>5, Kinds
    DEF Core, Types, LocalTypes, SessionTypes, Sound, Midway, Sends, Resumed, Subject, Coherent,
        Attached, Registered, ToldOfPlayer, Offlining, Sending, Idle, At, Send, End, Connected
  <1>6. QED
    BY <1>1, <1>2, <1>3, <1>4, <1>5, WorkingStep
    DEF Core, Types, LocalTypes, SessionTypes, At, Send, End, Connected

LEMMA CheckAliveStep ==
    ASSUME Core, Observe, CheckAlive
    PROVE  Core'
  <1> USE DEF managerVars, sessionVars, connVars, locals
  <1>1. /\ Heart \in Threads /\ Sound(Heart) /\ ses[Heart] \in Sessions \ {NoSession}
        /\ vic[Heart] \in Sessions \cup {NoSession}
        /\ vic[Heart] = NoSession
    BY Kinds, RaceAssumption
    DEF Core, Types, ManagerTypes, LocalTypes, Locals, Sound, PlacesOf, Offlining, Sending, Idle,
        At, Sessions, NoSession, CheckAlive
  <1>2. Moves(Heart)
    BY <1>1
    DEF Core, Types, LocalTypes, Moves, Places, CheckAlive, End, BeginOffline, Leaves, Connected
  <1>3. Sound(Heart)'
    BY <1>1, Kinds
    DEF Core, Types, LocalTypes, Sound, PlacesOf, Offlining, Sending, Closing, Resuming, Idle, At,
        CheckAlive, End, BeginOffline, Leaves, Connected
  <1>4. Writes(Heart)
    BY <1>1, Kinds
    DEF Core, Types, SessionTypes, Writes, CheckAlive, End, BeginOffline, Leaves, Connected
  <1>5. ASSUME NEW s \in Sessions, s \in {ses[Heart], vic[Heart]}, Midway(Heart, s)
        PROVE  IF s \in {ses'[Heart], vic'[Heart]} THEN Midway(Heart, s)' ELSE Coherent(s)'
    BY <1>1, <1>5, Kinds
    DEF Core, Types, LocalTypes, SessionTypes, Sound, Midway, Sends, Resumed, Subject, Coherent,
        Attached, Registered, ToldOfPlayer, Offlining, Sending, Idle, At, CheckAlive, End,
        BeginOffline, Leaves, Connected
  <1>6. QED
    BY <1>1, <1>2, <1>3, <1>4, <1>5, WorkingStep
    DEF Core, Types, LocalTypes, SessionTypes, At, CheckAlive, End, BeginOffline, Leaves, Connected

-----------------------------------------------------------------------------
(* sendToService, and its use of the connection.                           *)

\* Where a goroutine that sends to the service is, and what it sends.
LEMMA Sender ==
    ASSUME Core, NEW t \in Threads, pc[t] \in Sending
    PROVE  /\ Sound(t) /\ ses[t] \in Sessions \ {NoSession}
           /\ vic[t] \in Sessions \cup {NoSession} /\ NoSession <= nextID
           /\ Subject(t) \in Sessions \ {NoSession} /\ Subject(t) \in {ses[t], vic[t]}
           /\ t \in Links => vic[t] # NoSession /\ vic[t] # ses[t] /\ role[t] \in Players
           /\ t \notin Links => Subject(t) = ses[t] /\ vic[t] \in {NoSession, ses[t]}
           /\ t \notin Conns => msg[t] = "offline"
           /\ msg[t] \in {"login", "route", "offline", "resume"}
  <1>1. Sound(t) /\ pc[t] # "idle"
    BY DEF Core, Locals, Sending
  <1>2. /\ ses[t] \in Sessions \cup {NoSession} /\ vic[t] \in Sessions \cup {NoSession}
        /\ msg[t] \in {"none", "login", "route", "offline", "resume"}
    BY DEF Core, Types, LocalTypes
  <1>3. NoSession <= nextID
    BY RaceAssumption DEF Core, Types, ManagerTypes, NoSession
  <1>4. QED
    BY <1>1, <1>2, <1>3, Kinds DEF Sound, Sending, Idle, At, Subject, Sessions, NoSession

\* What t tells the service of its session, at the end of sendToService or instead.
Tells(t) ==
    notified' = IF msg[t] \in Notices /\ (pc[t] = "trace" \/ ~NoticeOfNobody(t))
                THEN [notified EXCEPT ![Subject(t)] = msg[t]] ELSE notified

\* A session the service has been told of is as a handler leaves it.
LEMMA Delivered ==
    ASSUME Core, NEW t \in Threads, NEW s \in Sessions, pc[t] \in Sending, s = Subject(t),
           Midway(t, s), UNCHANGED <<managerVars, state, playerID, conn, connVars>>, Tells(t)
    PROVE  Coherent(s)'
  <1> USE DEF managerVars, connVars
  <1>1. Sends(t, s) /\ Registered(s) /\ ToldOfPlayer(s)
    BY DEF Midway, Sending
  <1>2. /\ notified'[s] = IF msg[t] \in Notices /\ playerID[s] # NoPlayer
                          THEN msg[t] ELSE notified[s]
        /\ notified[s] \in {"none", "offline", "resume"}
    BY <1>1 DEF Core, Types, SessionTypes, Tells, NoticeOfNobody, Sends
  <1>3. CASE msg[t] \in {"login", "route"}
    BY <1>1, <1>2, <1>3 DEF Sends, Notices, Coherent, Attached, ToldOfPlayer
  <1>4. CASE msg[t] = "offline"
    BY <1>1, <1>2, <1>4
    DEF Sends, Notices, Coherent, Attached, Registered, ToldOfPlayer
  <1>5. CASE msg[t] = "resume"
    <2>1. t \in Conns /\ t # NoConn /\ s = ses[t]
      BY <1>5, Sender, Kinds
    <2>2. t \in reading /\ sessionID[t] = s
      BY <1>5, <2>1, Sender DEF Sound, Sending, Closing
    <2>3. QED
      BY <1>1, <1>2, <1>5, <2>1, <2>2
      DEF Sends, Resumed, Notices, Coherent, Attached, Registered, ToldOfPlayer
  <1>6. QED
    BY <1>3, <1>4, <1>5, Sender

\* The goroutine returns from sendToService: to onLoginRsp, or its handler is over.
LEMMA Returned ==
    ASSUME Core, Observe, NEW t \in Threads, pc[t] \in Sending, Return(t),
           UNCHANGED <<managerVars, state, playerID, conn, connVars>>, Tells(t)
    PROVE  Core'
  <1> USE DEF managerVars, connVars, Return, End
  <1>1. /\ Moves(t)
        /\ t \in Links =>
              /\ pc'[t] = "auth" /\ ses'[t] = ses[t] /\ vic'[t] = NoSession
              /\ role'[t] = role[t] /\ msg'[t] = "none"
        /\ t \notin Links => pc'[t] = "idle" /\ ses'[t] = NoSession /\ vic'[t] = NoSession
    BY DEF Core, Types, LocalTypes, Moves, Places
  <1>2. Sound(t)'
    BY <1>1, Sender, Kinds
    DEF Sound, PlacesOf, Offlining, Sending, Closing, Resuming, Idle, At
  <1>3. Writes(t)
    BY Sender DEF Core, Types, SessionTypes, Writes, Tells, Notices
  <1>4. ASSUME NEW s \in Sessions, s \in {ses[t], vic[t]}, Midway(t, s)
        PROVE  IF s \in {ses'[t], vic'[t]} THEN Midway(t, s)' ELSE Coherent(s)'
    <2>1. s # NoSession
      BY Kinds
    <2>2. CASE s = Subject(t)
      <3>1. Coherent(s)'
        BY <1>4, <2>2, Delivered
      <3>2. s \notin {ses'[t], vic'[t]}
        BY <1>1, <2>1, <2>2, Sender DEF Subject
      <3>3. QED
        BY <3>1, <3>2
    <2>3. CASE s # Subject(t)
      <3>1. /\ t \in Links /\ vic[t] # NoSession /\ s = ses[t] /\ s # vic[t]
        BY <1>4, <2>1, <2>3, Sender DEF Subject
      <3>2. Attached(s) /\ Registered(s) /\ ToldOfPlayer(s)
        BY <1>4, <3>1 DEF Midway, Sending
      <3>3. notified'[s] = notified[s]
        BY <2>3, Sender DEF Core, Types, SessionTypes, Tells
      <3>4. Attached(s)' /\ Registered(s)' /\ ToldOfPlayer(s)'
        BY <3>2, <3>3 DEF Attached, Registered, ToldOfPlayer
      <3>5. QED
        BY <1>1, <3>1, <3>4 DEF Midway, Offlining, Sending
    <2>4. QED
      BY <2>2, <2>3
  <1>5. QED
    BY <1>1, <1>2, <1>3, <1>4, Sender, WorkingStep DEF Sending

LEMMA ServiceStep ==
    ASSUME Core, Observe, NEW t \in Threads, Service(t)
    PROVE  Core'
  <1> USE DEF managerVars, connVars
  <1>1. /\ pc[t] = "service" /\ pc[t] \in Sending /\ ~NoticeOfNobody(t)
        /\ UNCHANGED <<managerVars, state, playerID, conn, connVars>>
    BY DEF Service, At, Sending
  <1>2. CASE Deliver(t)
    BY <1>1, <1>2, Returned DEF Deliver, Tells
  <1>3. CASE Connected(t) /\ Goto(t, "trace") /\ UNCHANGED notified
    <2>1. /\ Moves(t) /\ pc'[t] = "trace" /\ ses'[t] = ses[t] /\ vic'[t] = vic[t]
          /\ role'[t] = role[t] /\ msg'[t] = msg[t]
      BY <1>1, <1>3 DEF Core, Types, LocalTypes, Moves, Places, Goto
    <2>2. Sound(t)'
      BY <1>1, <2>1, Sender, Kinds
      DEF Sound, PlacesOf, Offlining, Sending, Closing, Resuming, Idle, At
    <2>3. Writes(t)
      BY <1>1, <1>3 DEF Core, Types, SessionTypes, Writes
    <2>4. ASSUME NEW s \in Sessions, Midway(t, s) PROVE Midway(t, s)'
      <3>1. /\ ToldOfPlayer(s) /\ Registered(s)
            /\ vic[t] # NoSession /\ s # vic[t] => Attached(s)
            /\ s = Subject(t) => Sends(t, s)
        BY <1>1, <2>4 DEF Midway
      <3>2. /\ ToldOfPlayer(s)' /\ Registered(s)' /\ Attached(s)' = Attached(s)
            /\ Coherent(s)' = Coherent(s) /\ Resumed(t, s)' = Resumed(t, s)
            /\ Subject(t)' = Subject(t)
        BY <1>1, <1>3, <2>1, <3>1
        DEF ToldOfPlayer, Registered, Attached, Coherent, Resumed, Subject
      <3>3. s = Subject(t) => Sends(t, s)'
        BY <1>1, <1>3, <2>1, <3>1, <3>2 DEF Sends, Connected, NoticeOfNobody
      <3>4. QED
        BY <2>1, <3>1, <3>2, <3>3 DEF Midway, Offlining
    <2>5. QED
      BY <1>1, <2>1, <2>2, <2>3, <2>4, WorkingStep
  <1>4. QED
    BY <1>2, <1>3 DEF Service

LEMMA SilentStep ==
    ASSUME Core, Observe, NEW t \in Threads, Silent(t)
    PROVE  Core'
  BY Returned DEF Silent, Tells, At, Sending, managerVars, sessionVars, connVars

LEMMA TraceStep ==
    ASSUME Core, Observe, NEW t \in Threads, Trace(t)
    PROVE  Core'
  BY Returned DEF Trace, Deliver, Tells, At, Sending, managerVars, connVars

\* Closing a connection alone says nothing of a session.
LEMMA Same ==
    ASSUME Core, Observe \/ UNCHANGED raced,
           UNCHANGED <<managerVars, sessionVars, sessionID, reading, pc, ses, vic, role, msg>>
    PROVE  Core'
  <1> USE DEF managerVars, sessionVars
  <1>1. raced' = raced
    BY DEF Core, Types, Solo, Observe, WorksOn
  <1>2. Types' /\ Born' /\ RepliesGoHome' /\ NoConnLeaked'
    BY <1>1
    DEF Core, Types, ManagerTypes, SessionTypes, LocalTypes, Born, RepliesGoHome, NoConnLeaked,
        At
  <1>3. Locals'
    BY DEF Core, Locals, Sound, PlacesOf, Idle, At
  <1>4. Solo' /\ Steady'
    BY <1>1
    DEF Core, Solo, Steady, Quiet, Coherent, Midway, Attached, Registered, ToldOfPlayer, Sends,
        Resumed, Subject, WorksOn
  <1>5. QED
    BY <1>2, <1>3, <1>4 DEF Core

\* A nil connection is used only where two handlers met.
LEMMA PanicStep ==
    ASSUME Core, NEW t \in Threads, Panic(t)
    PROVE  Core' /\ Fatal'
  <1>1. Core'
    BY Same DEF Panic, connVars, locals
  <1>2. /\ pc[t] \in {"send", "trace", "mark", "alive"} /\ conn[Subject(t)] = NoConn
        /\ crashed' = Subject(t) /\ raced' = raced
    BY DEF Panic, Uses, Connected
  <1>3. Subject(t) \in Sessions /\ Subject(t) \in {ses[t], vic[t]}
    BY <1>2, Sender, Kinds
    DEF Core, Types, LocalTypes, Locals, Sound, Idle, At, Subject, Sending, NoSession
  <1>4. CASE Subject(t) \notin raced
    <2>1. Midway(t, Subject(t))
      BY <1>3, <1>4, Works DEF Core, Steady
    <2>2. conn[Subject(t)] # NoConn
      BY <1>2, <2>1 DEF Midway, Sends, Sending
    <2>3. QED
      BY <1>2, <2>2
  <1>5. QED
    BY <1>1, <1>2, <1>4 DEF Fatal

-----------------------------------------------------------------------------
(* The steps that bind, add and remove.                                    *)

LEMMA ResumeConnStep ==
    ASSUME Core, Observe, NEW c \in Conns, ResumeConn(c)
    PROVE  Core'
  <1> USE DEF managerVars, connVars, ResumeConn, Goto
  <1>1. /\ c \in Threads /\ Sound(c) /\ pc[c] = "resumeConn" /\ vic[c] = NoSession
        /\ ses[c] \in Sessions \ {NoSession} /\ ses[c] <= nextID
        /\ c \in reading /\ sessionID[c] = NoSession
    BY Kinds
    DEF Core, Types, LocalTypes, Locals, Sound, Offlining, Sending, Closing, Resuming, Idle, At,
        Sessions,
        NoSession
  <1>2. Types' /\ Only(c) /\ pc'[c] = "resumeState"
    <2>1. ManagerTypes' /\ SessionTypes'
      BY <1>1 DEF Core, Types, ManagerTypes, SessionTypes
    <2>2. LocalTypes'
      BY <1>1 DEF Core, Types, LocalTypes, Places
    <2>3. raced' \subseteq Sessions
      BY DEF Core, Types, Observe
    <2>4. Only(c)
      BY <1>1, RaceAssumption DEF Core, Types, ManagerTypes, LocalTypes, Only
    <2>5. pc'[c] = "resumeState"
      BY <1>1 DEF Core, Types, LocalTypes
    <2>6. QED
      BY <2>1, <2>2, <2>3, <2>4, <2>5 DEF Types
  <1>3. Sound(c)'
    BY <1>1, <1>2, Kinds DEF Sound, PlacesOf, Offlining, Sending, Closing, Resuming, Idle, At
  <1>4. Born' /\ NoConnLeaked'
    <2>1. nextID \in Nat /\ nextID' = nextID /\ ~(ses[c] > nextID)
      BY <1>1, RaceAssumption DEF Core, Types, ManagerTypes, Sessions
    <2>2. Born'
      BY <1>1, <2>1 DEF Core, Types, SessionTypes, Born
    <2>3. NoConnLeaked'
      BY <1>1 DEF Core, Types, ManagerTypes, SessionTypes, LocalTypes, NoConnLeaked, At
    <2>4. QED
      BY <2>2, <2>3
  <1>5. RepliesGoHome'
    BY <1>1, <1>2 DEF Core, Types, SessionTypes, LocalTypes, RepliesGoHome
  <1>6. ASSUME NEW s \in Sessions PROVE Each(c, s)
    <2>1. CASE s = ses[c]
      <3>1. s \in WorksOn(c) /\ s \in WorksOn(c)' /\ s # vic'[c]
        BY <1>1, <2>1, Works
      <3>2. Midway(c, s) => Midway(c, s)'
        BY <1>1, <1>2, <2>1, <3>1
        DEF Core, Types, SessionTypes, Midway, Registered, Coherent, ToldOfPlayer, Offlining,
            Sending
      <3>3. QED
        BY <3>1, <3>2 DEF Each, Held
    <2>2. CASE s # ses[c]
      <3>1. s \notin WorksOn(c) /\ s \notin WorksOn(c)'
        BY <1>1, <2>2, Works
      <3>2. Untouched(s)
        BY <1>1, <2>2 DEF Core, Types, SessionTypes, Untouched, Attached
      <3>3. QED
        BY <3>1, <3>2 DEF Each
    <2>3. QED
      BY <2>1, <2>2
  <1>7. QED
    BY <1>1, <1>2, <1>3, <1>4, <1>5, <1>6, Frame, SoundFrame DEF Core

LEMMA ResumeBindStep ==
    ASSUME Core, Observe, NEW c \in Conns, ResumeBind(c)
    PROVE  Core'
  <1> USE DEF managerVars, sessionVars, ResumeBind, ToService
  <1>1. /\ c \in Threads /\ Sound(c) /\ pc[c] = "resumeBind" /\ vic[c] = NoSession
        /\ ses[c] \in Sessions \ {NoSession} /\ ses[c] <= nextID
        /\ c \in reading /\ sessionID[c] = NoSession
    BY Kinds
    DEF Core, Types, LocalTypes, Locals, Sound, Offlining, Sending, Closing, Resuming, Idle, At,
        Sessions,
        NoSession
  <1>2. /\ Types' /\ Only(c)
        /\ pc'[c] = "service" /\ ses'[c] = ses[c] /\ vic'[c] = NoSession /\ msg'[c] = "resume"
    <2>1. ManagerTypes' /\ SessionTypes'
      BY <1>1 DEF Core, Types, ManagerTypes, SessionTypes
    <2>2. LocalTypes'
      BY <1>1 DEF Core, Types, LocalTypes, Places
    <2>3. raced' \subseteq Sessions
      BY DEF Core, Types, Observe
    <2>4. Only(c)
      BY <1>1, RaceAssumption DEF Core, Types, ManagerTypes, LocalTypes, Only
    <2>5. pc'[c] = "service" /\ ses'[c] = ses[c] /\ vic'[c] = NoSession /\ msg'[c] = "resume"
      BY <1>1 DEF Core, Types, LocalTypes
    <2>6. QED
      BY <2>1, <2>2, <2>3, <2>4, <2>5 DEF Types
  <1>3. Sound(c)'
    <2>1. sessionID'[c] = ses[c]
      BY <1>1 DEF Core, Types, ManagerTypes
    <2>2. QED
      BY <1>1, <1>2, <2>1, Kinds
      DEF Sound, PlacesOf, Offlining, Sending, Closing, Resuming, Idle, At
  <1>4. Born' /\ NoConnLeaked'
    <2>1. nextID \in Nat /\ nextID' = nextID /\ ~(ses[c] > nextID)
      BY <1>1, RaceAssumption DEF Core, Types, ManagerTypes, Sessions
    <2>2. Born'
      BY <1>1, <2>1 DEF Core, Types, SessionTypes, Born
    <2>3. NoConnLeaked'
      BY <1>1 DEF Core, Types, ManagerTypes, SessionTypes, LocalTypes, NoConnLeaked, At
    <2>4. QED
      BY <2>2, <2>3
  <1>5. RepliesGoHome'
    <2>1. ASSUME NEW s \in Sessions, conn'[s] # NoConn PROVE conn[s] # c \/ s = ses[c]
      BY <1>1, <2>1, Kinds DEF Core, RepliesGoHome
    <2>2. QED
      BY <1>1, <1>2, <2>1 DEF Core, Types, ManagerTypes, SessionTypes, LocalTypes, RepliesGoHome
  <1>6. ASSUME NEW s \in Sessions PROVE Each(c, s)
    <2>1. CASE s = ses[c]
      <3>1. s \in WorksOn(c) /\ s \in WorksOn(c)' /\ s # vic'[c]
        BY <1>1, <1>2, <2>1, Works
      <3>2. ASSUME Midway(c, s) PROVE Midway(c, s)'
        <4>1. ToldOfPlayer(s) /\ Registered(s) /\ Resumed(c, s)
          BY <1>1, <3>2 DEF Midway
        <4>2. ToldOfPlayer(s)' /\ Registered(s)' /\ Resumed(c, s)'
          BY <4>1 DEF ToldOfPlayer, Registered, Resumed
        <4>3. QED
          BY <1>2, <3>1, <4>2 DEF Midway, Sends, Offlining, Sending
      <3>3. QED
        BY <3>1, <3>2 DEF Each, Held
    <2>2. CASE s # ses[c]
      <3>1. s \notin WorksOn(c) /\ s \notin WorksOn(c)'
        BY <1>1, <1>2, <2>2, Works
      <3>2. conn[s] # c
        BY <1>1, <2>2, Kinds DEF Core, RepliesGoHome
      <3>3. Untouched(s)
        BY <1>1, <2>2, <3>2
        DEF Core, Types, ManagerTypes, SessionTypes, Untouched, Attached
      <3>4. QED
        BY <3>1, <3>3 DEF Each
    <2>3. QED
      BY <2>1, <2>2
  <1>7. QED
    BY <1>1, <1>2, <1>3, <1>4, <1>5, <1>6, Frame, SoundFrame DEF Core

LEMMA ReadErrorStep ==
    ASSUME Core, Observe, NEW c \in Conns, ReadError(c)
    PROVE  Core'
  <1> USE DEF managerVars, sessionVars, locals, ReadError, Reads, Begin
  <1> DEFINE found == sessionID[c] \in bySession
  <1>1. /\ c \in Threads /\ Sound(c) /\ pc[c] = "idle" /\ c \in reading
        /\ ses[c] = NoSession /\ vic[c] = NoSession
        /\ \A s \in Sessions : s # NoSession
    BY Kinds DEF Core, Locals, Sound, Offlining, Sending, Idle, At
  <1>2. /\ found => /\ sessionID[c] \in Sessions /\ sessionID[c] <= nextID
                    /\ sessionID[c] # NoSession
                    /\ pc'[c] = "closeConn" /\ ses'[c] = sessionID[c] /\ vic'[c] = NoSession
        /\ ~found => pc'[c] = "idle" /\ ses'[c] = NoSession /\ vic'[c] = NoSession
    BY <1>1, IdsHandedOut DEF Core, Types, LocalTypes
  <1>3. Types' /\ Only(c)
    <2>1. ManagerTypes' /\ SessionTypes'
      BY <1>1 DEF Core, Types, ManagerTypes, SessionTypes
    <2>2. LocalTypes'
      BY <1>1, <1>2 DEF Core, Types, LocalTypes, Places
    <2>3. raced' \subseteq Sessions
      BY DEF Core, Types, Observe
    <2>4. Only(c)
      BY <1>1, RaceAssumption DEF Core, Types, ManagerTypes, LocalTypes, Only
    <2>5. QED
      BY <2>1, <2>2, <2>3, <2>4 DEF Types
  <1>4. Sound(c)'
    BY <1>1, <1>2, Kinds DEF Sound, PlacesOf, Offlining, Sending, Closing, Resuming, Idle, At
  <1>5. Born'
    BY DEF Core, Born
  <1>6. RepliesGoHome'
    BY <1>1, <1>3 DEF Core, RepliesGoHome, Types, SessionTypes, Only, Threads
  <1>7. NoConnLeaked'
    <2>1. ASSUME NEW s \in bySession, conn[s] # NoConn
          PROVE  conn[s] \in reading' \/ pc'[conn[s]] = "closeConn"
      <3>1. s \in Sessions /\ conn[s] \in Conns /\ conn[s] \in Threads
        BY <2>1, Kinds DEF Core, Types, ManagerTypes, SessionTypes
      <3>2. CASE conn[s] = c
        BY <1>1, <1>2, <2>1, <3>1, <3>2 DEF Core, RepliesGoHome
      <3>3. CASE conn[s] # c
        <4>1. pc'[conn[s]] = pc[conn[s]] /\ (conn[s] \in reading' <=> conn[s] \in reading)
          BY <1>3, <3>1, <3>3 DEF Only
        <4>2. QED
          BY <2>1, <4>1 DEF Core, NoConnLeaked, At
      <3>4. QED
        BY <3>2, <3>3
    <2>2. QED
      BY <2>1 DEF NoConnLeaked, At
  <1>8. ASSUME NEW s \in Sessions PROVE Each(c, s)
    <2>1. CASE found /\ s = sessionID[c]
      <3>1. s \notin WorksOn(c) /\ s \in WorksOn(c)' /\ s # vic'[c] /\ pc'[c] = "closeConn"
        BY <1>1, <1>2, <2>1, Works
      <3>2. Coherent(s) => Midway(c, s)'
        BY <1>1, <2>1, <3>1 DEF Coherent, Midway, Registered, ToldOfPlayer, Offlining, Sending
      <3>3. QED
        BY <3>1, <3>2 DEF Each, Held
    <2>2. CASE ~(found /\ s = sessionID[c])
      <3>1. s \notin WorksOn(c) /\ s \notin WorksOn(c)'
        BY <1>1, <1>2, <2>2, Works
      <3>2. Untouched(s)
        BY <2>2 DEF Untouched, Registered, Attached
      <3>3. QED
        BY <3>1, <3>2 DEF Each
    <2>3. QED
      BY <2>1, <2>2
  <1>9. QED
    BY <1>1, <1>3, <1>4, <1>5, <1>6, <1>7, <1>8, Frame, SoundFrame DEF Core

LEMMA FirstLoginStep ==
    ASSUME Core, Observe, NEW c \in Conns, FirstLogin(c)
    PROVE  Core'
  <1> USE DEF locals, FirstLogin, Unbound, Reads
  <1> DEFINE n == nextID + 1
  <1>1. /\ c \in Threads /\ Sound(c) /\ pc[c] = "idle" /\ c \in reading
        /\ ses[c] = NoSession /\ vic[c] = NoSession /\ sessionID[c] = NoSession
        /\ \A s \in Sessions : s # NoSession
    BY Kinds DEF Core, Locals, Sound, Offlining, Sending, Idle, At
  <1>2. /\ n \in Sessions /\ nextID \in Nat /\ nextID' = n /\ n > nextID /\ n \in 0 .. MaxSession
    BY RaceAssumption DEF Core, Types, ManagerTypes, Sessions
  <1>3. playerID[n] = NoPlayer /\ notified[n] = "none"
    BY <1>2 DEF Core, Born
  <1>4. \A u \in Threads : n \notin WorksOn(u)
    <2>1. ASSUME NEW u \in Threads PROVE n # ses[u] /\ n # vic[u]
      <3>1. Sound(u) /\ ses[u] \in Int /\ vic[u] \in Int
        BY RaceAssumption DEF Core, Locals, Types, LocalTypes, Sessions, NoSession
      <3>2. QED
        BY <1>2, <3>1 DEF Sound
    <2>2. QED
      BY <1>2, <2>1, Works
  <1> HIDE DEF n
  <1>5. /\ Types' /\ Only(c)
        /\ pc'[c] = "service" /\ ses'[c] = n /\ vic'[c] = NoSession /\ msg'[c] = "login"
    <2>1. ManagerTypes' /\ SessionTypes'
      BY <1>1, <1>2 DEF n, Core, Types, ManagerTypes, SessionTypes
    <2>2. LocalTypes'
      BY <1>1, <1>2 DEF n, Core, Types, LocalTypes, Places
    <2>3. raced' \subseteq Sessions
      BY DEF Core, Types, Observe
    <2>4. Only(c)
      BY <1>1, <1>2 DEF Core, Types, ManagerTypes, LocalTypes, Only
    <2>5. pc'[c] = "service" /\ ses'[c] = n /\ vic'[c] = NoSession /\ msg'[c] = "login"
      BY <1>1 DEF n, Core, Types, LocalTypes
    <2>6. QED
      BY <2>1, <2>2, <2>3, <2>4, <2>5 DEF Types
  <1>6. Sound(c)'
    BY <1>1, <1>2, <1>5, Kinds
    DEF Sound, PlacesOf, Offlining, Sending, Closing, Resuming, Idle, At, NoSession
  <1>7. Born'
    <2>1. bySession' \subseteq 1 .. nextID'
      BY <1>2 DEF n, Core, Born
    <2>2. ASSUME NEW s \in Sessions, s > nextID'
          PROVE  /\ state'[s] = "Init" /\ playerID'[s] = NoPlayer
                 /\ conn'[s] = NoConn /\ notified'[s] = "none"
      <3>1. s > nextID /\ s # n
        BY <1>2, <2>2, RaceAssumption DEF Sessions
      <3>2. QED
        BY <2>2, <3>1 DEF n, Core, Born, Types, SessionTypes
    <2>3. ASSUME NEW p \in Players PROVE byPlayer'[p] <= nextID'
      <3>1. byPlayer[p] <= nextID /\ byPlayer[p] \in Int
        BY RaceAssumption DEF Core, Born, Types, ManagerTypes, Sessions, NoSession
      <3>2. QED
        BY <1>2, <3>1
    <2>4. QED
      BY <2>1, <2>2, <2>3 DEF Born
  <1>8. NoConnLeaked'
    BY <1>1, <1>2, <1>5, Kinds
    DEF n, Core, Types, ManagerTypes, SessionTypes, LocalTypes, NoConnLeaked, At
  <1>9. RepliesGoHome'
    BY <1>1, <1>2, Kinds
    DEF n, Core, Types, ManagerTypes, SessionTypes, LocalTypes, RepliesGoHome
  <1>10. ASSUME NEW s \in Sessions PROVE Each(c, s)
    <2>1. CASE s = n
      <3>1. /\ conn'[n] = c /\ sessionID'[c] = n /\ c \in reading' /\ state'[n] = "Online"
            /\ n \in bySession' /\ playerID' = playerID /\ notified' = notified
        BY <1>1, <1>2 DEF n, Core, Types, ManagerTypes, SessionTypes
      <3>2. Coherent(s)'
        BY <1>3, <2>1, <3>1, Kinds DEF Coherent, Attached, ToldOfPlayer
      <3>3. Midway(c, s)'
        BY <1>1, <1>5, <2>1, <3>2, <3>1, Kinds
        DEF Midway, Sends, Coherent, Registered, Offlining, Sending
      <3>4. s \notin WorksOn(c) /\ s \in WorksOn(c)'
        BY <1>1, <1>4, <1>5, <2>1, Works
      <3>5. QED
        BY <3>3, <3>4 DEF Each, Held
    <2>2. CASE s # n
      <3>1. s \notin WorksOn(c) /\ s \notin WorksOn(c)'
        BY <1>1, <1>5, <2>2, Works
      <3>2. Untouched(s)
        BY <1>1, <1>2, <2>2 DEF n, Core, Types, ManagerTypes, SessionTypes, Untouched, Attached
      <3>3. QED
        BY <3>1, <3>2 DEF Each
    <2>3. QED
      BY <2>1, <2>2
  <1>11. QED
    BY <1>1, <1>5, <1>6, <1>7, <1>8, <1>9, <1>10, Frame, SoundFrame DEF Core

LEMMA BindStep ==
    ASSUME Core, Observe, NEW v \in Links, Bind(v)
    PROVE  Core'
  <1> USE DEF connVars, Bind
  <1> DEFINE old == byPlayer[role[v]]
  <1>1. /\ v \in Threads /\ v \notin Conns /\ Sound(v) /\ pc[v] = "bind" /\ vic[v] = NoSession
        /\ ses[v] \in Sessions /\ ses[v] # NoSession /\ ses[v] <= nextID
        /\ role[v] \in Players /\ role[v] # NoPlayer
        /\ \A s \in Sessions : s # NoSession
    BY Kinds DEF Core, Types, LocalTypes, Locals, Sound, Offlining, Sending, Idle, At
  <1>2. /\ old \in Sessions \cup {NoSession} /\ old <= nextID
        /\ nextID \in Nat /\ NoSession <= nextID
    BY <1>1, RaceAssumption DEF Core, Born, Types, ManagerTypes, NoSession
  <1>3. /\ ses'[v] = ses[v] /\ role'[v] = role[v]
        /\ \/ pc'[v] = "auth" /\ vic'[v] = NoSession
           \/ pc'[v] = "kick" /\ vic'[v] = old /\ old \notin {NoSession, ses[v]}
    BY <1>1 DEF Core, Types, LocalTypes
  <1>4. Types' /\ Only(v)
    <2>1. ManagerTypes' /\ SessionTypes'
      BY <1>1 DEF Core, Types, ManagerTypes, SessionTypes
    <2>2. LocalTypes'
      BY <1>1, <1>2 DEF Core, Types, LocalTypes, Places
    <2>3. raced' \subseteq Sessions
      BY DEF Core, Types, Observe
    <2>4. Only(v)
      BY <1>1, <1>2 DEF Core, Types, LocalTypes, Only
    <2>5. QED
      BY <2>1, <2>2, <2>3, <2>4 DEF Types
  <1> HIDE DEF old
  <1>5. Sound(v)'
    BY <1>1, <1>2, <1>3, Kinds DEF Sound, PlacesOf, Offlining, Sending, Closing, Resuming, Idle, At
  <1>6. Born'
    BY <1>1, <1>2 DEF Core, Types, ManagerTypes, SessionTypes, Born
  <1>7. RepliesGoHome' /\ NoConnLeaked'
    <2>1. \A c \in Conns : pc'[c] = pc[c] /\ ses'[c] = ses[c]
      BY <1>1, <1>4, Kinds DEF Only
    <2>2. QED
      BY <2>1 DEF Core, Types, ManagerTypes, SessionTypes, RepliesGoHome, NoConnLeaked, At
  <1>8. ASSUME NEW s \in Sessions PROVE Each(v, s)
    <2>1. CASE s = ses[v]
      <3>1. s \in WorksOn(v) /\ s \in WorksOn(v)' /\ s # vic'[v]
        BY <1>1, <1>3, <2>1, Works
      <3>2. Midway(v, s) => Midway(v, s)'
        BY <1>1, <1>3, <2>1, <3>1 DEF Midway, Coherent, Registered, Attached, ToldOfPlayer, Offlining, Sending
      <3>3. QED
        BY <3>1, <3>2 DEF Each, Held
    <2>2. CASE s # ses[v] /\ s = vic'[v]
      <3>1. s \notin WorksOn(v) /\ s \in WorksOn(v)' /\ pc'[v] = "kick"
        BY <1>1, <1>3, <2>2, Works
      <3>2. playerID'[s] = playerID[s]
        BY <2>2 DEF Core, Types, SessionTypes
      <3>3. Coherent(s) => Midway(v, s)'
        BY <2>2, <3>1, <3>2 DEF Midway, Coherent, Attached, ToldOfPlayer, Offlining, Sending
      <3>4. QED
        BY <3>1, <3>3 DEF Each, Held
    <2>3. CASE s # ses[v] /\ s # vic'[v]
      <3>1. s \notin WorksOn(v) /\ s \notin WorksOn(v)'
        BY <1>1, <1>3, <2>3, Works
      <3>2. Untouched(s)
        BY <2>3 DEF Core, Types, SessionTypes, Untouched, Attached
      <3>3. QED
        BY <3>1, <3>2 DEF Each
    <2>4. QED
      BY <2>1, <2>2, <2>3
  <1>9. QED
    BY <1>1, <1>4, <1>5, <1>6, <1>7, <1>8, Frame, SoundFrame DEF Core

LEMMA CloseStep ==
    ASSUME Core, Observe, Close
    PROVE  Core'
  <1> USE DEF connVars, Close, End
  <1> DEFINE g == ses[Collector]
  <1>1. /\ Collector \in Threads /\ Sound(Collector) /\ pc[Collector] = "close"
        /\ vic[Collector] = NoSession /\ g \in Sessions /\ g # NoSession /\ g <= nextID
        /\ \A s \in Sessions : s # NoSession
    BY Kinds DEF Core, Types, LocalTypes, Locals, Sound, Offlining, Sending, Idle, At
  <1>2. nextID \in Nat /\ NoSession <= nextID
    BY RaceAssumption DEF Core, Types, ManagerTypes, NoSession
  <1>3. pc'[Collector] = "idle" /\ ses'[Collector] = NoSession /\ vic'[Collector] = NoSession
    BY <1>1 DEF Core, Types, LocalTypes
  <1>4. Types' /\ Only(Collector)
    <2>1. ManagerTypes' /\ SessionTypes'
      BY <1>1 DEF Core, Types, ManagerTypes, SessionTypes
    <2>2. LocalTypes'
      BY <1>1 DEF Core, Types, LocalTypes, Places
    <2>3. raced' \subseteq Sessions
      BY DEF Core, Types, Observe
    <2>4. Only(Collector)
      BY <1>1, <1>2 DEF Core, Types, LocalTypes, Only
    <2>5. QED
      BY <2>1, <2>2, <2>3, <2>4 DEF Types
  <1>5. Sound(Collector)'
    BY <1>1, <1>2, <1>3, Kinds DEF Sound, PlacesOf, Offlining, Sending, Closing, Resuming, Idle, At
  <1>6. Born'
    <2>1. ~(g > nextID)
      BY <1>1, <1>2, RaceAssumption DEF Sessions
    <2>2. QED
      BY <1>1, <1>2, <2>1 DEF Core, Types, SessionTypes, Born
  <1>7. RepliesGoHome' /\ NoConnLeaked'
    <2>1. \A c \in Conns : pc'[c] = pc[c] /\ ses'[c] = ses[c]
      BY <1>1, <1>4, Kinds DEF Only
    <2>2. QED
      BY <2>1 DEF Core, Types, ManagerTypes, SessionTypes, RepliesGoHome, NoConnLeaked, At
  <1>8. ASSUME NEW s \in Sessions PROVE Each(Collector, s)
    <2>1. CASE s = g
      <3>1. s \in WorksOn(Collector) /\ s \notin WorksOn(Collector)'
        BY <1>1, <1>3, <2>1, Works
      <3>2. ASSUME Midway(Collector, s) PROVE Coherent(s)'
        <4>1. conn[s] = NoConn /\ ToldOfPlayer(s)
          BY <1>1, <3>2 DEF Midway, Coherent, Attached
        <4>2. /\ conn'[s] = NoConn /\ state'[s] = "Closed" /\ s \notin bySession'
              /\ ToldOfPlayer(s)'
          BY <1>1, <2>1, <4>1 DEF Core, Types, SessionTypes, ToldOfPlayer
        <4>3. QED
          BY <4>2 DEF Coherent, Attached
      <3>3. QED
        BY <3>1, <3>2 DEF Each, Held
    <2>2. CASE s # g
      <3>1. s \notin WorksOn(Collector) /\ s \notin WorksOn(Collector)'
        BY <1>1, <1>3, <2>2, Works
      <3>2. Untouched(s)
        BY <2>2 DEF Core, Types, SessionTypes, Untouched, Attached
      <3>3. QED
        BY <3>1, <3>2 DEF Each
    <2>3. QED
      BY <2>1, <2>2
  <1>9. QED
    BY <1>1, <1>4, <1>5, <1>6, <1>7, <1>8, Frame, SoundFrame DEF Core

-----------------------------------------------------------------------------
(* Every step preserves the invariant.                                     *)

LEMMA ArrivalStep ==
    ASSUME Core, Observe, Arrival
    PROVE  Core'
  <1>1. ASSUME NEW c \in Conns, Teardown(c) PROVE Core'
    BY <1>1, Same DEF Teardown, locals
  <1>2. ASSUME NEW c \in Conns, ReadError(c) \/ FirstLogin(c) PROVE Core'
    BY <1>2, ReadErrorStep, FirstLoginStep
  <1>3. ASSUME NEW c \in Conns, NEW s \in Sessions,
               \/ Resume(c, s) \/ LoginAgain(c, s) \/ Routed(c, s)
               \/ KickedByRead(c, s) \/ HeartbeatReq(c, s)
        PROVE  Core'
    BY <1>3, ResumeStep, LoginAgainStep, RoutedStep, KickedByReadStep, HeartbeatReqStep
  <1>4. ASSUME NEW s \in Sessions, NEW p \in Players, LoginRsp(s, p) PROVE Core'
    BY <1>4, LoginRspStep
  <1>5. ASSUME NEW s \in Sessions, Push(s) \/ CheckHeartbeat(s) \/ CheckAuthing(s) \/ Collect(s)
        PROVE  Core'
    BY <1>5, PushStep, CheckHeartbeatStep, CheckAuthingStep, CollectStep
  <1>6. QED
    BY <1>1, <1>2, <1>3, <1>4, <1>5 DEF Arrival

LEMMA WorkStep ==
    ASSUME Core, Observe, NEW t \in Threads, Work(t)
    PROVE  Core'
  <1>1. CASE OfflineConn(t) \/ OfflineState(t)
    BY <1>1, OfflineConnStep, OfflineStateStep
  <1>2. CASE Silent(t) \/ Service(t) \/ Trace(t)
    BY <1>2, SilentStep, ServiceStep, TraceStep
  <1>3. CASE Reply(t) \/ Send(t)
    BY <1>3, ReplyStep, SendStep
  <1>4. CASE t \in Conns /\ ReadWork(t)
    BY <1>4, CloseConnStep, CloseStateStep, ResumeConnStep, ResumeStateStep, ResumeBindStep,
       AuthingStep, PermitStep, HeartbeatStep, MarkAliveStep
    DEF ReadWork
  <1>5. CASE t \in Links /\ LinkWork(t)
    BY <1>5, BindStep, KickStep, AuthenticateStep DEF LinkWork
  <1>6. CASE (t = Collector /\ Close) \/ (t = Heart /\ CheckAlive)
    BY <1>6, CloseStep, CheckAliveStep
  <1>7. QED
    BY <1>1, <1>2, <1>3, <1>4, <1>5, <1>6 DEF Work

LEMMA Step == IInv /\ [Next]_vars => IInv'
  <1> SUFFICES ASSUME IInv, [Next]_vars PROVE IInv'
    OBVIOUS
  <1>1. CASE Starts(Arrival)
    BY <1>1, ArrivalStep DEF IInv, Starts, Fatal
  <1>2. ASSUME NEW t \in Threads, Goes(t) PROVE IInv'
    BY <1>2, WorkStep DEF IInv, Goes, Fatal
  <1>3. ASSUME NEW t \in Threads, Panic(t) PROVE IInv'
    BY <1>3, PanicStep DEF IInv
  <1>4. CASE UNCHANGED vars
    BY <1>4, Same DEF vars, managerVars, sessionVars, IInv, Fatal
  <1>5. QED
    BY <1>1, <1>2, <1>3, <1>4 DEF Next

-----------------------------------------------------------------------------
\* What the goroutines of the gate rely on, in every interleaving.
THEOREM InvariantHolds == Spec => []IInv
  <1>1. Init => IInv
    BY InitCore
  <1>2. QED
    BY <1>1, Step, PTL DEF Spec

\* Replies go home: the connection a session writes to is its own, however
\* handleResume, the first LoginReq, onConnClose and onSessionOffline interleave.
THEOREM RepliesReachOwner == Spec => []RepliesGoHome
  <1>1. IInv => RepliesGoHome
    BY DEF IInv, Core
  <1>2. QED
    BY <1>1, InvariantHolds, PTL

\* A registered session's connection still has its read loop, or the read loop's
\* onConnClose is about to release it.
THEOREM ConnectionsReleased == Spec => []NoConnLeaked
  <1>1. IInv => NoConnLeaked
    BY DEF IInv, Core
  <1>2. QED
    BY <1>1, InvariantHolds, PTL

\* A session on which no two handlers overlapped is, between its handlers, as
\* handlers that are not interrupted leave it; and the nil connection on which a
\* handler of the gate panics is never that of such a session.
THEOREM UnracedSessionsCoherent == Spec => []UnracedIsCoherent
  <1>1. IInv => UnracedIsCoherent
    BY Kinds DEF IInv, Core, Fatal, Steady, Coherent, Attached, UnracedIsCoherent
  <1>2. QED
    BY <1>1, InvariantHolds, PTL
=============================================================================
