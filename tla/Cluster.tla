------------------------------- MODULE Cluster -------------------------------
(***************************************************************************)
(* Gate, service and game server together: what a login, a disconnect, a   *)
(* resume and a displaced session look like to the three of them, with     *)
(* messages of different sessions overtaking each other, messages lost and *)
(* a gate that is restarted while the others go on.                        *)
(*                                                                         *)
(* Gate, RemoteLink, ServiceRouting and GamePlayers have each part in      *)
(* detail; here a handler is one step, except a login at the service,      *)
(* which waits for the store.  A client repeats its login for the same     *)
(* account and puts the session id it was given in its messages, as those  *)
(* of the repository do.                                                   *)
(***************************************************************************)
EXTENDS Integers, FiniteSets, Sequences, FiniteSetsExt, SequencesExt

CONSTANTS
    Players,      \* role ids; an account has one and is named by it
    NoPlayer,     \* PlayerId 0
    PoolSize,     \* links from a gate to the service
    MaxSession,   \* bound on the session ids of one run of the gate
    MaxReads,     \* bound on the connections of a session at a time
    MaxFlight,    \* bound on the messages on their way when a gate sends one
    MaxRuns,      \* bound on the runs of the gate
    MaxFaults     \* bound on restarts, lost messages and repeated logins together

ASSUME ClusterAssumption ==
    /\ NoPlayer \notin Players
    /\ PoolSize \in Nat \ {0} /\ MaxRuns \in Nat \ {0}
    /\ MaxSession \in Nat /\ MaxReads \in Nat /\ MaxFlight \in Nat /\ MaxFaults \in Nat

VARIABLES
    run, nextID, byPlayer,            \* Gate: its run, ids, player index
    state, attached, playerID,        \* Session: State, Conn # nil, PlayerID
    account,                          \* ... and whose LoginReq it sent
    reads,                            \* connections that carry a registered session's id
    up, down,                         \* links to the service and back
    login, sessionGate,               \* service: login a link waits for; table
    toGame,                           \* link to the game server
    pstate, psid, entry,              \* Player.state, .SessionID; the session map
    repeats, lost, stale              \* repeated logins; messages lost; ids a login of an
                                      \* earlier run may still be answered for

gateVars == <<run, nextID, byPlayer, state, attached, playerID, account, reads>>
serviceVars == <<login, sessionGate>>
gameVars == <<pstate, psid, entry>>
faultVars == <<repeats, lost, stale>>
vars == <<run, nextID, byPlayer, state, attached, playerID, account, reads, up, down,
          login, sessionGate, toGame, pstate, psid, entry, repeats, lost, stale>>

Sessions == 1 .. MaxSession
NoSession == 0
Links == (1 .. MaxRuns) \X (0 .. PoolSize - 1)
NoLink == <<0, 0>>

\* remoteClientPool.Send picks the link by session id.
LinkOf(s) == <<run, s % PoolSize>>

\* What the receivers tell apart: a LoginReq, which names an account, the offline
\* notice, and what makes a player present (a request, a resume notice, EnterGame).
Message(kind, s, p) == [kind |-> kind, session |-> s, player |-> p]
LoginReq(s, a) == [kind |-> "login", session |-> s, player |-> NoPlayer, account |-> a]
NoLogin == LoginReq(NoSession, NoPlayer)

Init ==
    /\ run = 1
    /\ nextID = 0
    /\ byPlayer = [p \in Players |-> NoSession]
    /\ state = [s \in Sessions |-> "Init"]
    /\ attached = [s \in Sessions |-> FALSE]
    /\ playerID = [s \in Sessions |-> NoPlayer]
    /\ account = [s \in Sessions |-> NoPlayer]
    /\ reads = [s \in Sessions |-> 0]
    /\ up = [l \in Links |-> <<>>]
    /\ down = [l \in Links |-> <<>>]
    /\ login = [l \in Links |-> NoLogin]
    /\ sessionGate = [s \in Sessions |-> NoLink]
    /\ toGame = <<>>
    /\ pstate = [p \in Players \cup {NoPlayer} |-> "none"]
    /\ psid = [p \in Players \cup {NoPlayer} |-> NoSession]
    /\ entry = [s \in Sessions |-> NoPlayer]
    /\ repeats = 0
    /\ lost = 0
    /\ stale = {}

-----------------------------------------------------------------------------
(* The gate.                                                               *)

Registered(s) == state[s] \notin {"Init", "Closed"}

\* Messages on their way, a login at the service included.
InFlight ==
    Len(toGame) + MapThenSumSet(LAMBDA l : Len(up[l]) + Len(down[l]), Links)
    + Cardinality({l \in Links : login[l] # NoLogin})

Faults == (run - 1) + lost + repeats

\* sendToService: the message of a session goes on the session's link.
Sends(s, m) ==
    /\ InFlight < MaxFlight
    /\ up' = [up EXCEPT ![LinkOf(s)] = Append(@, m)]

\* notifyPlayerOffline, notifyPlayerResume: silent without a player.
Notifies(s, kind) ==
    IF playerID[s] = NoPlayer THEN UNCHANGED up ELSE Sends(s, Message(kind, s, playerID[s]))

\* Variant: the id of a session that was collected is used again.
FreshIdRecycled == {s \in Sessions : ~Registered(s) /\ \A t \in 1 .. (s - 1) : Registered(t)}

FreshId == {nextID + 1} \cap Sessions

\* The first LoginReq on a connection makes the session and is sent on.
FirstLogin(p) ==
    \E s \in FreshId :
        /\ nextID' = s
        /\ state' = [state EXCEPT ![s] = "Online"]
        /\ attached' = [attached EXCEPT ![s] = TRUE]
        /\ playerID' = [playerID EXCEPT ![s] = NoPlayer]
        /\ account' = [account EXCEPT ![s] = p]
        /\ reads' = [reads EXCEPT ![s] = 1]
        /\ Sends(s, LoginReq(s, p))
        /\ UNCHANGED <<run, byPlayer, down, serviceVars, toGame, gameVars, faultVars>>

\* A LoginReq of an Online session, whose first one has no answer yet.
LoginAgain(s) ==
    /\ reads[s] > 0
    /\ state[s] = "Online"
    /\ Faults < MaxFaults
    /\ repeats' = repeats + 1
    /\ state' = [state EXCEPT ![s] = "Authing"]
    /\ Sends(s, LoginReq(s, account[s]))
    /\ UNCHANGED <<run, nextID, byPlayer, attached, playerID, account, reads, down, serviceVars,
                   toGame, gameVars, lost, stale>>

\* onConnClose of any connection that carries the id of s.
ReadError(s) ==
    /\ Registered(s)
    /\ reads[s] > 0
    /\ reads' = [reads EXCEPT ![s] = @ - 1]
    /\ attached' = [attached EXCEPT ![s] = FALSE]
    /\ state' = [state EXCEPT ![s] = "Offline"]
    /\ Notifies(s, "offline")
    /\ UNCHANGED <<run, nextID, byPlayer, playerID, account, down, serviceVars, toGame, gameVars,
                   faultVars>>

\* Variant: a kick does not tell the game server.
KickNotifiesNot(s) == UNCHANGED up

KickNotifies(s) == Notifies(s, "offline")

\* onSessionOffline for a heartbeat or login timeout, a duplicate login on an old
\* connection or too many unknown messages.
Kick(s) ==
    /\ attached[s]
    /\ attached' = [attached EXCEPT ![s] = FALSE]
    /\ state' = [state EXCEPT ![s] = "Offline"]
    /\ KickNotifies(s)
    /\ UNCHANGED <<run, nextID, byPlayer, playerID, account, reads, down, serviceVars, toGame,
                   gameVars, faultVars>>

Resume(s) ==
    /\ Registered(s)
    /\ state[s] # "Authing"
    /\ reads[s] < MaxReads
    /\ reads' = [reads EXCEPT ![s] = @ + 1]
    /\ attached' = [attached EXCEPT ![s] = TRUE]
    /\ state' = [state EXCEPT ![s] = IF playerID[s] = NoPlayer THEN "Online" ELSE "Authenticated"]
    /\ Notifies(s, "present")
    /\ UNCHANGED <<run, nextID, byPlayer, playerID, account, down, serviceVars, toGame, gameVars,
                   faultVars>>

\* A message for the game server: an Online session's is rejected; one of a
\* session that repeats its login has no player yet.
Request(s) ==
    /\ reads[s] > 0
    /\ state[s] \in {"Authing", "Authenticated"}
    /\ Sends(s, Message("present", s, playerID[s]))
    /\ UNCHANGED <<gateVars, down, serviceVars, toGame, gameVars, faultVars>>

\* The session of p that a login of p by s displaces.
Displaced(s, p) == {t \in {byPlayer[p]} \ {NoSession, s} : Registered(t) /\ attached[t]}

\* onLoginRsp: bind, kick the session that had the player, authenticate.
LoginRsp(l) ==
    /\ l[1] = run
    /\ down[l] # <<>>
    /\ down' = [down EXCEPT ![l] = Tail(@)]
    /\ LET s == Head(down[l]).session
           p == Head(down[l]).player
       IN IF Registered(s)
          THEN /\ byPlayer' = [byPlayer EXCEPT ![p] = s]
               /\ playerID' = [playerID EXCEPT ![s] = p]
               /\ attached' = [t \in Sessions |-> attached[t] /\ t \notin Displaced(s, p)]
               /\ state' = [t \in Sessions |->
                               IF t = s THEN "Authenticated"
                               ELSE IF t \in Displaced(s, p) THEN "Offline" ELSE state[t]]
               /\ IF Displaced(s, p) = {} THEN UNCHANGED up
                  ELSE \A t \in Displaced(s, p) : Notifies(t, "offline")
          ELSE UNCHANGED <<byPlayer, playerID, attached, state, up>>
    /\ UNCHANGED <<run, nextID, account, reads, serviceVars, toGame, gameVars, faultVars>>

\* GC: the entry of the session's player goes, whatever session it names, and
\* connections that still carry the id reach nothing.
Collect(s) ==
    /\ state[s] = "Offline"
    /\ state' = [state EXCEPT ![s] = "Closed"]
    /\ byPlayer' = [p \in Players |-> IF p = playerID[s] THEN NoSession ELSE byPlayer[p]]
    /\ reads' = [reads EXCEPT ![s] = 0]
    /\ UNCHANGED <<run, nextID, attached, playerID, account, up, down, serviceVars,
                   toGame, gameVars, faultVars>>

\* Logins of this and earlier runs that the service has still to answer.
Unanswered ==
    {login[l].session : l \in Links} \cup
    {m.session : m \in {n \in UNION {ToSet(up[l]) : l \in Links} : n.kind = "login"}}

\* The process ends without a word and starts again: ids from 1.  What its
\* links had delivered to the service's host can still be read there.
Restart ==
    /\ run < MaxRuns
    /\ Faults < MaxFaults
    /\ run' = run + 1
    /\ nextID' = 0
    /\ byPlayer' = [p \in Players |-> NoSession]
    /\ state' = [s \in Sessions |-> "Init"]
    /\ attached' = [s \in Sessions |-> FALSE]
    /\ playerID' = [s \in Sessions |-> NoPlayer]
    /\ account' = [s \in Sessions |-> NoPlayer]
    /\ reads' = [s \in Sessions |-> 0]
    /\ down' = [l \in Links |-> <<>>]
    /\ stale' = Unanswered \ {NoSession}
    /\ UNCHANGED <<up, serviceVars, toGame, gameVars, repeats, lost>>

-----------------------------------------------------------------------------
(* The service: one goroutine per link.                                    *)

Forwards(m) == toGame' = Append(toGame, m)

Reading(l) == up[l] # <<>> /\ login[l] = NoLogin

\* The link of the session is recorded; a LoginReq goes to the login module ...
StartLogin(l) ==
    /\ Reading(l)
    /\ Head(up[l]).kind = "login"
    /\ up' = [up EXCEPT ![l] = Tail(@)]
    /\ login' = [login EXCEPT ![l] = Head(up[l])]
    /\ sessionGate' = [sessionGate EXCEPT ![Head(up[l]).session] = l]
    /\ UNCHANGED <<gateVars, down, toGame, gameVars, faultVars>>

\* Variant: SetPlayerID is not called.
EnteringBefore(m) == m.player

Entering(m) == m.account

\* ... which, the role resolved, first tells the game server and then answers
\* on the link that has the session by now, unless that is broken ...
FinishLogin(l) ==
    LET m == login[l]
        back == sessionGate[m.session]
    IN
    /\ m # NoLogin
    /\ Forwards(Message("present", m.session, Entering(m)))
    /\ IF back # NoLink /\ back[1] = run
       THEN down' = [down EXCEPT ![back] =
                        Append(@, [session |-> m.session, player |-> m.account])]
       ELSE UNCHANGED down
    /\ login' = [login EXCEPT ![l] = NoLogin]
    /\ UNCHANGED <<gateVars, up, sessionGate, gameVars, faultVars>>

\* ... or fails without an answer.
LoginFails(l) ==
    /\ login[l] # NoLogin
    /\ login' = [login EXCEPT ![l] = NoLogin]
    /\ UNCHANGED <<gateVars, up, down, sessionGate, toGame, gameVars, faultVars>>

\* Everything else is for the game server.
Forward(l) ==
    /\ Reading(l)
    /\ Head(up[l]).kind # "login"
    /\ Forwards(Head(up[l]))
    /\ up' = [up EXCEPT ![l] = Tail(@)]
    /\ sessionGate' = [sessionGate EXCEPT ![Head(up[l]).session] = l]
    /\ UNCHANGED <<gateVars, down, login, gameVars, faultVars>>

\* The goroutine of a link of an earlier run finds its end, or the link reset with
\* what was left on it: its sessions are forgotten.
Purge(l) ==
    /\ l[1] < run
    /\ login[l] = NoLogin
    /\ up[l] # <<>> \/ \E s \in Sessions : sessionGate[s] = l
    /\ up' = [up EXCEPT ![l] = <<>>]
    /\ sessionGate' = [s \in Sessions |-> IF sessionGate[s] = l THEN NoLink ELSE sessionGate[s]]
    /\ UNCHANGED <<gateVars, down, login, toGame, gameVars, faultVars>>

-----------------------------------------------------------------------------
(* The game server's handleConn; what a link loses.                        *)

\* GetBySessionID when the message names no player; the Player of id 0 is as good
\* as none.
Resolved(m) ==
    IF m.player # NoPlayer THEN m.player
    ELSE IF pstate[entry[m.session]] = "none" THEN NoPlayer ELSE entry[m.session]

\* MarkOffline: the entry of the session the player has by then goes.
MarkOffline(p) ==
    IF pstate[p] = "none" THEN UNCHANGED gameVars
    ELSE /\ pstate' = [pstate EXCEPT ![p] = "Offline"]
         /\ entry' = [entry EXCEPT ![psid[p]] = NoPlayer]
         /\ UNCHANGED psid

\* GetOrCreate: a known player is resumed under the new session.
GetOrCreate(s, p) ==
    /\ pstate' = [pstate EXCEPT ![p] = "Active"]
    /\ psid' = [psid EXCEPT ![p] = s]
    /\ entry' = [entry EXCEPT ![s] = p]

GameReads ==
    /\ toGame # <<>>
    /\ toGame' = Tail(toGame)
    /\ LET m == Head(toGame) IN
       IF m.kind = "offline" THEN MarkOffline(Resolved(m)) ELSE GetOrCreate(m.session, Resolved(m))
    /\ UNCHANGED <<gateVars, up, down, serviceVars, faultVars>>

\* A queue was full, a connection broke, or the profile could not be loaded.
Lose ==
    /\ \/ \E l \in Links : up[l] # <<>> /\ up' = [up EXCEPT ![l] = Tail(@)] /\ UNCHANGED <<down, toGame>>
       \/ \E l \in Links : down[l] # <<>> /\ down' = [down EXCEPT ![l] = Tail(@)] /\ UNCHANGED <<up, toGame>>
       \/ toGame # <<>> /\ toGame' = Tail(toGame) /\ UNCHANGED <<up, down>>
    /\ Faults < MaxFaults
    /\ lost' = lost + 1
    /\ UNCHANGED <<gateVars, serviceVars, gameVars, repeats, stale>>

-----------------------------------------------------------------------------
Next ==
    \/ \E p \in Players : FirstLogin(p)
    \/ \E s \in Sessions : LoginAgain(s) \/ ReadError(s) \/ Kick(s) \/ Resume(s) \/ Request(s) \/ Collect(s)
    \/ \E l \in Links : LoginRsp(l) \/ StartLogin(l) \/ FinishLogin(l) \/ LoginFails(l)
                        \/ Forward(l) \/ Purge(l)
    \/ Restart
    \/ GameReads
    \/ Lose

Spec == Init /\ [][Next]_vars

-----------------------------------------------------------------------------
\* A message is handled for the account whose session sent it, or for player id 0,
\* whose Player the messages without a player share until the game server knows
\* their session.  MarkOffline leaves entries of earlier sessions behind; they
\* never name another account's player, until a gate restarts and deals the same
\* ids again.
HandledForSender ==
    run = 1 /\ toGame # <<>> =>
        Resolved(Head(toGame)) \in {NoPlayer, account[Head(toGame).session]}

\* A session becomes the player of its own login, whatever is lost, late or
\* reordered; after a restart, except one whose id a login of an earlier run has
\* that was unanswered then.
BoundToOwn ==
    \A s \in Sessions \ stale : playerID[s] # NoPlayer => playerID[s] = account[s]

Quiet ==
    /\ \A l \in Links : up[l] = <<>> /\ down[l] = <<>> /\ login[l] = NoLogin
    /\ toGame = <<>>

SessionsOf(p) == {s \in Sessions : account[s] = p}

\* Once everything sent has arrived, and nothing was lost, the game server's view
\* of a player is the gate's.  A player with one session is Active while that is
\* attached (the notice a displaced session leaves behind may otherwise come
\* last); and an Active player has a session that is authenticated, or one
\* that was gone or failed when the login was answered.
QuietAgrees ==
    Quiet /\ lost = 0 /\ run = 1 =>
        \A p \in Players :
            /\ \A s \in SessionsOf(p) :
                  SessionsOf(p) = {s} /\ attached[s] /\ playerID[s] = p => pstate[p] = "Active"
            /\ pstate[p] = "Active" =>
                  \E s \in SessionsOf(p) : state[s] = "Authenticated" \/ playerID[s] = NoPlayer
=============================================================================
