# A verification development for the game server

The repository's `src/Server` is a game server of three kinds of processes written in Go:

    client --TCP/WebSocket--> gate --TCP--> service --TCP--> game
                                               |               |
                                               +---- Redis ----+

This directory holds TLA+ modules that model its core, TLC configurations that
check them on small instances, and theorems about them that the TLA+ proof
system (TLAPS) checks for every value of the constants. `PROJECT.json` lists the
runs, the source lines of every definition, the hazards and the theorems.

## 1. Inventory

Paths are relative to `src/Server/internal`.

| component | state it keeps | operations | talks to |
|---|---|---|---|
| Gate sessions (`gate/gate.go`, `session*.go`, `handler.go`, `resume.go`, `service_handler.go`, `heartbeat.go`, `auth_timeout.go`, `notify.go`, `sender.go`) | sessions by id and by player; of each its state, connection, player, counters; the kick limit | first and repeated login, resume, login answer, kick, displacement, heartbeat and login timeout, collection | connections (fields that point at each other), the service by envelopes |
| Login rate limiter (`gate/login_limit.go`) | of each session the start of its window and the attempts in it | `allowLogin` | called by the handlers of LoginReq |
| Client connections (`gate/conn.go`, `transport/ws_conn.go`) | session id, send queue, closed flag | accept, read loop, write loop, close, `onConnClose` | calls into the gate from its read loop |
| Links (`gate/remote.go`, `service/game_router.go`, `transport/`) | send queue, current connection | `Send` with retries, write loop, connect loop, heartbeat | the next process |
| Service routing (`service/netserver.go`, `dispatcher.go`, `router/`) | gate links, session to link | accept, read and record, dispatch, reply, forward, clean-up | gates, login module, game server |
| Login module (`service/modules/login`) | none; keys in Redis | `onLogin`, `ResolveRoleID` | player store, gate, game server |
| Player store (`player_db`, `db/redis_tools`) | account to role, role to profile, the uid counter | load and save, `INCR` | Redis |
| Game server (`game/server.go`, `player_manager.go`) | players by id, sessions to players | resolve, `GetOrCreate`, `MarkOffline`, `SaveAll`, `DestroyPlayer` | service links, player actors, store |
| Player actors (`player.go`, `modules/`) | state, session, profile, inbox | `Post`, `Dispatch`, loop, drain, `OnResume`, `OnOffline`, `Destroy` | game server |

Not modelled: configuration and process wiring, logging and metrics, the chat
module (it only logs), packages that are empty, the Redis connection set-up, the
Python clients, vendored code. Dead code is left out: `NewSession`, `Remove`,
`attachPlayer`, `onResume` of the gate, `startDispatchers` and `enqueueEnvelope`
of the service, `Player.Notify`. `DestroyPlayer` has no caller either, but is
modelled as the manager's API because its comment describes what it is for.

### What is hard about it

* Goroutines meet everywhere: read loops of client connections, of service links
  and of gate links, actor loops, timers. A gate session is reached by id, so an
  event of an old connection or an old login can be applied to a session that has
  moved on.
* A player's life is spread over gate, service and game server, which learn of
  each other's steps only by envelopes that may be dropped.
* `GetOrCreate`, `Post`, `ResolveRoleID` and `replyToGate` look at something and
  act on it later.
* Links break and are made again while goroutines of the old one still work.
* Store calls fail half-way.
* Timers compare clock readings that several handlers write; a window, a timeout
  and a ticker's interval add up.
* A gate that restarts deals the same session ids again, to processes that
  remember the old ones.

`PROJECT.json` ("hazards") has each of these at its line, with the properties
that would catch it or the reason why none does.

### What makes each component correct

* Gate: the two links between a session and a connection agree; a session's state
  agrees with its connection, player and index entry; the game server's last
  notice about a session agrees with the session; a displaced session loses its
  connection; closed connections and dead sessions are let go of; the timers act
  in time and not early.
* Links: nothing is sent twice; a connection has no holes; order is kept except
  across connections; the queue drains.
* Routing: the tables agree; answers reach the link that asked and only links that
  carried the session; broken links are forgotten.
* Login: no two accounts share a role or see each other's profile; an answered
  role stays the account's.
* Game server: one usable player per id; every posted message is handled or
  refused, once, in order; the player's state moves only along its life.
* Together: a session becomes the player of its own login; a message is handled
  for its sender; what the game server holds of a player agrees with the gate once
  all messages have arrived.

## 2. Modules

| module | models | one step is |
|---|---|---|
| `Gate` | sessions, connections, timers of the gate | one handler call, one timer body for one session (`GC`: for all it takes) |
| `GateRace` | the same handlers, interrupted | the write of one shared field with the reads before it, or a read whose answer is used later |
| `GateTimers` | the clocks of one session: limiter, login timeout, heartbeat, collection, read deadlines | one handler call, one tick of a loop, one unit of time |
| `RemoteLink` | one `remoteClient` or `GameRouter` and the connections it makes | a channel operation, a read of `conn`, a socket write |
| `ServiceRouting` | the service's gate links and tables | a lock section, a read or a write of a link |
| `LoginService` | logins, the store, the profiles the game server saves | one store call |
| `GamePlayers` | the game server's link goroutines, `PlayerManager`, actors | a lock section, an atomic operation, a channel operation |
| `Cluster` | gate, service and game server together, with a restart of the gate | one handler call; a login at the service in two steps |
| `SessionLifecycle` | abstract: what the gate promises about a session's life | one change of phase |
| `ActorMailbox` | abstract: what a Player promises those who post to it | one message moves on, or one player's life does |
| `LossyLinks` | abstract: what a sender may expect of a link that reconnects | one envelope moves on, a connection opens or closes |
| `MCGamePlayers`, `MCLoginService`, `MCCluster` | symmetry sets of the instances | |
| `GateClaims`, `LoginClaims` | what comments say, each violated in a run of its own | |
| `GateProofs`, `RaceProofs`, `TimersProofs`, `LoginProofs`, `RoutingProofs`, `LinkProofs`, `GameProofs`, `ClusterProofs` | theorems, and the lemmas about queues they need | |

State and actions carry the names of the code where TLA+ allows it. What differs:

* **Gate.** `notified[s]` is the last lifecycle notice the gate sent on for session
  `s`; `logins[s]` counts LoginReqs whose answer is outstanding. Clock readings are
  gone: a timeout may fire whenever the state it tests is one it applies to, so
  every timing is covered (`GateTimers` has the clocks). A reading connection is
  `reading`, then `ended`; `closed` is `Conn.Close`, after which the read loop may
  still handle what it has buffered and then fails. One handler is one step
  although fields of a session are accessed without a lock (`GateRace` splits
  them). An answer to a login may name any player, because an account may be
  answered with another role later (`claim_one_role`). An error answer, a lost
  request and a lost answer are `LoginLost`.
* **GateRace.** Every goroutine has a place `pc`, the session `ses` it works on, the
  session `vic` it takes offline, the connection `hold` it has read and what it sends
  to the service, `msg`. `Locked` is GC between its look at a session and its
  writes, when nobody gets the index lock. `raced` records the sessions two handlers
  worked on at a time; nothing reads it. Four places test `s.Conn` for nil and read
  it again: `Reply`, `sendToService` (every LoginReq, routed message and notice goes
  through it), `onHeartbeat` and `checkHeartbeat`. Between the two another goroutine
  may clear it; the second read then panics. `crashed` is the session it panicked
  on; nothing runs after it. The envelope of a client names the session of its
  connection, as in `Gate`.
* **GateTimers.** A clock reading is kept as its age, and an age past every bound it
  is compared with stands still: time is unbounded and the states are finite.
  `Pass` is disabled while a tick is due or a read deadline has come, so timers are
  on time; that is what the bounds are about. A connection the gate closes itself
  (kick, silence, login timeout) makes its read loop fail and `onConnClose` write
  the session again (`LateReadError`); `Pass` waits for that too (`closing`).
  `passed` (which LoginReqs of the last window passed) and `inState` record what happened; nothing reads them.
* **ServiceRouting.** `pc[l]` is where the goroutine of link `l` is; between `Reply`
  and `WriteReply` (and `Forward` and `WritePush`) the lock is not held. `seen` and
  `delivered` record what happened and change nothing. `asked` counts answers the
  game server owes.
* **LoginService.** Each worker is a gate-link goroutine. `StoreFails` covers a call
  without effect and one whose answer was lost. `answered` and `overlapped` record
  the answers sent and the accounts two logins resolved at a time; no action reads
  them. `cached` is the profile a `Player`
  was created with, which `MarkOffline` and `SaveAll` write back (`GameResave`).
* **GamePlayers.** Each worker is a service-link goroutine. `SessionID` and the
  `CompareAndSwap` of `GetOrCreate` are one step: nothing reads the one without
  also writing or re-reading the other. A handler that panics answers as any other.
  `reply[k]` is what was sent on the channel of call `k`, which has room for one.
* **RemoteLink.** An envelope is its place in the order the queue accepted it.
  `up` holds the connections that still carry data: after a failed write the
  buffered writer keeps its error. `Break`, `Lose` are the network's.
* **Cluster.** Each component is the coarse form of its own module: a handler is one
  step, a link is a FIFO that may lose its head (`RemoteLink` shows that much), an
  account has its one role (what two overlapping first logins do is
  `LoginService`'s), a player is Active or Offline (the mailbox is `GamePlayers`'s).
  A message is what its receivers tell apart: a LoginReq with its account, the
  offline notice, or anything that makes a player present. `Restart` ends the gate
  without a word; what it had sent may still be read. `stale` records the ids for
  which a login was unanswered at a restart; nothing reads it. A client repeats its
  LoginReq with the same account and sends the session id it was given, as the
  repository's clients do.

### Abstract specifications

`SessionLifecycle`, `ActorMailbox` and `LossyLinks` say what a component promises,
without how: `LifecycleSpec`, `MailboxSpec` and `LossySpec` are the refinements,
checked as properties of `gate_core`, `game_players` and `remote_link`, and proved. `MailboxSpec` maps each call to where its message is (posted, in
hand, handled, refused): that it has one place, that the loop takes messages in
order and one at a time, that only a destroyed player refuses one, and that
`Player.state` moves only along a player's life are all steps of `ActorMailbox`.
`LossySpec` maps the queue, the writer's envelope and the wires to envelopes that
are offered, settled and in flight: that none travels twice, and that one is given
up only with its connection or before the connection carried anything, are steps of
`LossyLinks`.

## 3. Runs

All runs set `CHECK_DEADLOCK FALSE`: every counter (sessions, envelopes, links,
calls, roles) is bounded by a constant, and a behaviour that has used up its bounds
stops; in `gate_race` it also stops after a panic. The bounds are named in each
module's CONSTANTS.

| run | instance | shows |
|---|---|---|
| `gate_core` | 2 connections, 2 players, 2 sessions, 2 logins in flight, kick limit 2 | the type invariant; `LinkCoherent`, `StateCoherent`, `OfflineIsNotified`, `AttachedNotOffline`, `KickLimitEnforced`, `IndexNotDangling`; `DisplacedIsDetached`; `Gate` implements `SessionLifecycle`; `ClosedConnReleased`, `QuietGateReclaims` |
| `gate_race` | 2 connections, 1 player, 2 sessions, 1 service link, 2 handlers at a time | `RepliesGoHome`, `NoConnLeaked` of all interleavings; `UnracedIsCoherent`: what `Gate` says holds of a session on which no two handlers overlapped, and none panics on its connection |
| `gate_timers` | timeouts and intervals of 2 and 3 units, limit 2, 2 logins in flight | `PassesBounded`, `LoginResolved`, `SilentIsFound`, `OfflineIsCollected`; `KeptForResume` |
| `game_players` | 2 links, 1 player (and id 0), 2 objects, 2 calls, inbox of 1, player destroyable | `DestroyedIsForgotten`; `GamePlayers` implements `ActorMailbox` |
| `game_one_link` | 1 link, 2 sessions | `OneObjectPerPlayer`, `PostedIsHandled` |
| `login_race` | 2 workers, 1 game worker, 2 accounts and the empty one, 3 roles, failures | `RolesNotShared`, `ProfileOfClaimant`, `AnsweredRoleStays` |
| `remote_link` | 2 senders, queue of 2, 4 envelopes, 2 connections, 1 ping | `InOrder`; `RemoteLink` implements `LossyLinks`; `QueueDrains` |
| `routing` | 3 links, 2 sessions, 2 envelopes | `SessionGateLive`, `AskerIsFound`, `DeliveredToOwn`; `BrokenIsForgotten` |
| `cluster` | 2 players, 2 sessions, 2 links, 2 runs of the gate, 2 messages under way, 1 fault | `HandledForSender`, `BoundToOwn`, `QuietAgrees` |

Why these bounds are enough to mean something.

* `gate_core`: two sessions and two connections let a session be displaced by
  another, and be resumed on a second connection while the first one's read error
  is outstanding; two players let one login answer name another player than the
  last. The invariants, the action property and the refinement are also proved for
  any number of each.
* `gate_race`: two handlers at a time are every pair of handlers; a session and the
  one that displaces it, each with a connection. Three at a time add no new pair of
  accesses and are beyond what TLC explores in reasonable time.
* `gate_timers`: the units are small but keep the order of the configuration's values
  where it matters: a read deadline longer than the heartbeat timeout, an interval of
  collection that is no multiple of the timeouts, a window longer than a tick. Two
  transports, because their timeouts differ.
* `game_players`: two links on one player are the least that race in `GetOrCreate`;
  an inbox of one fills.
* `routing`: three links and two envelopes let a session move from one link to
  another, or two sessions use two links, while a third link is there to be named
  wrongly.
* `login_race`: three roles let both accounts draw and one of them draw again.
* `remote_link`: two connections are a reconnect with data left on the old one.
* `cluster`: two sessions on two links, so that their messages overtake each other;
  two messages under way when a gate sends (the service adds an answer and an
  EnterGameReq). A connection of a session at a time (`MaxReads`): the late read
  error of a connection that was replaced does to a session what `Kick` does to a
  resumed one. A fault is a restart, a lost message or a repeated login.

Symmetry is used in `game_players`, `login_race` and `cluster`, on workers, sessions,
accounts and players that the modules treat alike; these runs check invariants,
action properties and safety refinements only.

### What the properties of the larger compositions leave out

Each is stated for what holds, and the exceptions are the code's:

* `UnracedIsCoherent` excludes sessions on which two handlers overlapped. There
  every invariant of `Gate` but `RepliesGoHome` and `NoConnLeaked` can fail: a
  resume that overlaps the old connection's read error leaves a connected session
  Offline, a resume that overlaps GC leaves one attached that is in no index, a
  player bound after GC leaves an index entry of a collected session, and a reply, a
  routed message, a repeated LoginReq, a notice or a heartbeat that overlaps a
  disconnect panics.
* `DestroyedIsForgotten` speaks of what `PlayerManager` will find. `GetOrCreate`
  reads the index, releases the lock and revives what it read: if `DestroyPlayer`
  comes in between, it returns a destroyed Player, which refuses every message.
* `BoundToOwn` excludes, after a restart, the ids for which a login of the earlier
  run was unanswered: its answer reaches the new session with that id and binds it
  to the other account.
* `QuietAgrees` speaks of behaviours without loss or restart, and of Active for
  players with one session: the offline notice of a displaced session may come after
  the EnterGameReq of the one that displaced it, and leaves the player Offline under
  a connected session.
* `HandledForSender` speaks of one run of the gate, for the session map is keyed by
  ids a restarted gate deals again; a message of a session that repeats its login may
  be handled by the Player of id 0, which all such sessions share.

### Fairness

Liveness is checked under the fairness that the Go runtime and the tickers give:

* `Gate`: the read of a connection that was closed fails eventually, and `gcLoop`
  reaches a session that stays Offline. Clients and the service owe nothing.
  `QuietGateReclaims` excepts Authenticated sessions without a connection: an answer
  to a LoginReq makes them, and nothing reclaims them, see below.
* `GamePlayers`: each goroutine that can take a step does. A destroyed player is
  excluded from `game_one_link` (nobody calls `DestroyPlayer`).
* `RemoteLink`: only the writer is scheduled; no connection need ever be made.
* `ServiceRouting`: a link's goroutine runs on, and the read of a broken link fails
  once its buffer is empty. `MaxReads` bounds what is buffered.

`GateTimers` needs none: its bounds on time are safety properties, because `Pass`
waits for the timers that are due.

### Where the code and its comments part

Three runs (`claim_*`) each check what a comment says, and TLC finds a behaviour of
the code that violates it. `PROJECT.json` ("findings") quotes the lines.

| run | what happens |
|---|---|
| `claim_read_error` | a resume replaces a connection; the old one's read error then takes the session offline under its new connection |
| `claim_one_session` | a displaced session is resumed; the player has two connected sessions |
| `claim_one_role` | two first logins of one account are answered with two roles |

The models show more of the kind, without a run of their own:

* GC deletes the player's index entry without looking which session it names
  (`gate/session_manager.go:82`; `Remove`, line 48, looks): collecting a displaced
  session removes the entry of the one that replaced it, and the next login of the
  player displaces nobody.
* `onLoginRsp` and `handleResume` set `g.unknownMsgKickCount = 0`
  (`gate/service_handler.go:62`, `gate/resume.go:110`), the limit of the whole gate
  and not the session's counter: after anybody's first login or resume no session is
  kicked for unknown messages.
* The login answer of a client that is gone makes its Offline session Authenticated,
  with no connection (`gate/service_handler.go:53`); no timer visits such a session.
* A session awaiting its first login answer is Online, not Authing, so the login
  timeout does not look at it (`gate/handler.go:58`).
* `Post` looks at the state and then sends (`player.go:130-140`): a player that has
  just gone offline still takes the message, which is then handled.
* The loop of a destroyed player that waits on its inbox would stay there; the comment
  on `Destroy` expects it to exit (`player.go:125`). `DestroyPlayer` has no caller.
* The heartbeat of a `remoteClient` writes on the connection beside `writeLoop`,
  whose comment calls it the only writer (`gate/remote.go:113`). `BufferedConn`'s
  mutex keeps the frames whole.

## 4. Proofs

Eight modules prove, for any sets of connections, players, links, sessions and
accounts and any bounds, capacities, timeouts and intervals:

| theorem | statement |
|---|---|
| `GateProofs!InvariantHolds` | `Spec => []IInv`, from which the next seven follow |
| `TypeCorrect` | the type invariant |
| `LinksAgree`, `StatesAgree` | `LinkCoherent`, `StateCoherent` |
| `NoticesFollowSessions`, `AttachedIsAnnounced` | `OfflineIsNotified`, `AttachedNotOffline` |
| `KickLimitHolds`, `IndexStaysLive` | `KickLimitEnforced`, `IndexNotDangling` |
| `DisplacementDetaches` | `DisplacedIsDetached` |
| `GateImplementsLifecycle` | `Spec => LifecycleSpec`, the refinement of `SessionLifecycle` |
| `RaceProofs!InvariantHolds` | `Spec => []IInv` |
| `RepliesReachOwner`, `ConnectionsReleased` | `RepliesGoHome`, `NoConnLeaked` |
| `UnracedSessionsCoherent` | `UnracedIsCoherent` |
| `LoginProofs!InvariantHolds` | `Spec => []IInv` |
| `TypeCorrect` | the type invariant |
| `RolesStayApart`, `ProfilesStayApart`, `AnsweredRolesStay` | `RolesNotShared`, `ProfileOfClaimant`, `AnsweredRoleStays` |
| `RoutingProofs!InvariantHolds` | `Spec => []IInv` |
| `TypeCorrect` | the type invariant |
| `TablesAgree`, `AnswersFindTheirLink`, `NothingMisdelivered` | `SessionGateLive`, `AskerIsFound`, `DeliveredToOwn` |
| `LinkProofs!InvariantHolds` | `Spec => []IInv` |
| `TypeCorrect`, `OrderKept` | the type invariant, `InOrder` |
| `LinkImplementsLossy` | `Spec => LossySpec`, the refinement of `LossyLinks` |
| `GameProofs!InvariantHolds` | `Spec => []IInv` |
| `TypeCorrect`, `DestroyedStaysForgotten` | the type invariant, `DestroyedIsForgotten` |
| `OneObject` | `OneLink` implies `Spec => []OneObjectPerPlayer` |
| `GameImplementsMailbox` | `Spec => MailboxSpec`, the refinement of `ActorMailbox` |
| `TimersProofs!InvariantHolds` | `Spec => []IInv` |
| `LimiterBounds` | `PassesBounded` |
| `LoginsAreResolved`, `SilenceIsFound`, `OfflineEnds` | `LoginResolved`, `SilentIsFound`, `OfflineIsCollected` |
| `ResumeIsPossible` | `KeptForResume` |
| `ClusterProofs!InvariantHolds` | `Spec => []IInv` |
| `SessionsBoundToOwn`, `MessagesHandledForSender` | `BoundToOwn`, `HandledForSender` |
| `ViewsAgreeWhenQuiet` | `QuietAgrees` |

The assumptions are those named in the modules: `GateAssumption` (the nil values
are not connections or players, the bounds are naturals, the kick limit is
positive), `RaceAssumption` (likewise, and goroutines of
different kinds differ),
`TimersAssumption` (the timeouts, intervals and the limit are positive),
`LoginAssumption`, `RoutingAssumption`, `RemoteAssumption` and `GameAssumption` (an
inbox and a queue have room for one), `ClusterAssumption` (there is a link and a
run). TLC evaluates them in the runs. `OneObject` has a hypothesis of its own, `OneLink`:
a single `handleConn` goroutine, and nobody calls `DestroyPlayer`, as
`game_one_link` instantiates it. With two goroutines both can miss an id and make a
Player for it.

**Gate.** The invariants checked by `gate_core` are not inductive one by one.
`OfflineIsNotified` needs to know that an Offline session has no connection
(`StateCoherent`), because `onSessionOffline` sends no notice for a session that is
Offline already. `StateCoherent` in turn needs `LinkCoherent`: a first login must
not find its connection in use. `FreshCoherent` adds what a session has before
anything happened to it: without it a session could begin with a count, a player or
a notice. `IInv` is the conjunction. The proof has one lemma per kind of step:
steps that leave sessions alone (`FrameStep`), steps that are `onSessionOffline`
of some registered sessions (`OfflineStep`), and one for each handler that does
more; `NextStep` puts them together. The refinement takes `IInv` and shows of each
step which sessions change phase: none, or one (`Create`, `Detach`, `Attach`), or
the collected ones (`Collect`). It is what makes it worth stating that one login
answer never detaches two sessions.

**Interleaved handlers.** `RepliesGoHome` and `NoConnLeaked` hold of every
interleaving because a connection's own read loop is alone in setting `sessionID`
and in ending: `Sound` says that a connection in the middle of a resume has no
session yet, so that no other session can have it, and that a read loop which ended
outside of `onConnClose` is idle. `UnracedIsCoherent` is an argument of ownership. A
session that was never raced for has at most one goroutine at work (`Solo`).
`Midway` says, for each place in a handler, what that goroutine counts on: for
example that between the two writes of `onSessionOffline` the connection is gone and
the state not yet `Offline`. `Coherent` is what it finds at the beginning and leaves
at the end, `Steady` the two together. `Frame` shows once that a step of one
goroutine disturbs no unraced session it does not work on; what remains is one lemma
per action, on its own sessions. That no handler panics on an unraced session is
part of it: at a place where a handler uses the connection it has tested, `Midway`
says that the connection is there, and only another handler of that session could
have cleared it. Of a session that was raced for the invariant says nothing: there
the gate may panic (`crashed`).

**Login.** `RolesNotShared` speaks of `Claims`, everything that names an account
for a role: the account key, an answer, a login under way. `Drawn` says that claims
and profiles name only roles that were drawn. A step adds at most one claim, on the
role just drawn (`ClaimsGrow`), so the new claim meets no other; a profile written
by a login is that claim's account, one written by the game server names none or
is a copy of an earlier one. `AnsweredRoleStays` is about one account: `Settled`
says how far a login is whose account no other login resolves (before it saves a
role none was answered, after that the saved role is its own), so that the one step
that writes the account's key (`KeysMove`) finds no answer to contradict. It needs
the condition on overlapping logins: `claim_one_role` is what happens without it.

**Routing.** `AskerIsFound` and `DeliveredToOwn` need to know what a goroutine found
before it let go of the lock. `WritesToSeen` says that the link it will write to
carried the session; `GateHasSeen` says the same of the table, and `seen` only grows,
so that no clean-up in between can make the write go astray. `RunningIsListed` ties
the table to the goroutines: only a link's own goroutine takes it out, so that a
link that has asked is still there to be found.

**Links.** `InOrder` compares what was read on connections; for it to be preserved,
the order must hold along the whole way of an envelope: what was written on a
connection is older than the envelope the writer holds, which is older than what is
queued, and queue and wires rise. `IInv` says so part by part; each step moves an
envelope from one part to the next, and only its two neighbours need looking at.

**Game server.** The hard part is a message. `InboxCoherent` and `HandCoherent` say
that what is in an inbox or in a loop's hand was posted to that Player and has no
answer; `Accounted` that every posted message is in one of these places or has
its answer. With the inbox rising and above the message in hand, a message
is in one place only, and `AnswerOnce` follows: the loop never answers a call twice,
whether its sender still waits or not. `DestroyedIsForgotten` is about the index,
which holds Players of their own id that are not destroyed, and about what goroutines
hold: it needs that a Player just made is referred to by nothing (`HoldsMade`,
`Accounted`: goroutines and calls refer to Players that were made, a goroutine to one
of its id). The refinement then reads the stage of each message off
its place (`StagesKnown`) and shows of each step that it moves one message
(`TakeStep`, `HandledStep`, `RefusedStep`, `PostStep`), one Player's life
(`LifeSteps`), or neither. That a message is never lost is part of it: `ActorMailbox`
has no such stage.

`OneObjectPerPlayer` is about the time between a goroutine's look at the manager's
maps and its write to them. With one goroutine nobody writes in between: `AllIndexed`
says that every Player made is the entry of its id, and that a goroutine about to
make one knows that its id has none.

**Timers.** A bound such as `LoginResolved` relates an age to a timer that has yet to
fire. `AuthingClock`, `OfflineClock` and `SilenceClock` say how much older the session
can get until the next tick: an age is at most its timeout plus what has gone since
the last tick, so a tick that finds it young enough leaves room for one interval. The
limiter is a matter of counting: `LimitCounts` says that the passes of the current
window are within its counter and those still in sight of the window before, whose
first is gone when the next window begins, are below the limit. Both together are
fewer than twice the limit; they may be more than the limit, for the window is fixed
and does not slide.

**Cluster.** The first invariant is about owners. A session has an account from its
first LoginReq on; what names the session on its way to the service, in the login
module and on the way back names that account (`LoginsOwned`), unless the id is
`stale`. In the first run the same is true of the notices, and of the game server's
map of sessions (`FirstRun`). `BoundToOwn` and `HandledForSender` follow. Each step
moves a message from one place to the next, so that the lemmas on what a step adds
(`AddUp`, `TakeUp`, `AddDown`, `ToGameAppend`) do most of the work.

`QuietAgrees` is about the end of a journey, so its invariant is about the way: link
and queue of the game server are one pipeline, and `Behind(u, g, A, B)` says of them
that behind every message of kind A there is one of kind B. `EndAnnounced`: a
session that is not live has its offline notice behind all else it sent, a login at
the service included. `PresenceAnnounced`: behind every offline notice of a connected
session there is a message that makes the player present, or the player is Active and
none is to come; and when an answer is on its way to a gate, the game server has heard
of the login or is about to. `ActiveFor`: an Active player has a live session or one
whose notice is on its way. Every handler of the gate is one of three moves of a
session (`GateMove`: it says nothing, it ends with a notice, it is bound), and every
step of the service moves one message along the pipeline, which the `Behind` lemmas
cover. When everything has arrived the pipeline is empty and what
is left of the three is `QuietAgrees`.

**Abstract links.** `LossyLinks` has sets of envelopes in flight where `RemoteLink`
has sequences, and counts what was settled where `RemoteLink` has a queue. `OneOpen`
says that only the newest connection carries data, and only while `connectLoop` reads
it; `Contiguous` that the queue holds the latest envelopes without a gap and the writer
the one before, so that a write settles the next envelope and no other.

Every invariant that a run checks is proved, and the three refinements. Left to TLC
is liveness (`ClosedConnReleased`, `QuietGateReclaims`, `PostedIsHandled`,
`QueueDrains`, `BrokenIsForgotten`), which is beyond the prover.

## 5. Not modelled

* `Framing`: length prefix, size limit and partial reads of an envelope. A frame is
  whole or the connection fails.
* What a client sees: the order of replies and pushes on its connection.
* The contents of messages, tokens, profiles beyond the account id.
* A restart of the service or of the game server. Both begin with empty tables, as
  they do in `Init`; the gate reconnects (`RemoteLink`).
* A client that puts another session id than its own into its messages.
* Configuration, logging, metrics, the chat module, the Redis connection, the Python
  clients: no state a property is about.
