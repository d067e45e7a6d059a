----------------------------- MODULE GamePlayers -----------------------------
(***************************************************************************)
(* The game server's players (src/Server/internal/game): the handleConn    *)
(* goroutines that take envelopes off the links from the service,          *)
(* PlayerManager with its two maps, and one actor per Player with its      *)
(* inbox and its loop.                                                     *)
(*                                                                         *)
(* A step is what runs between two points where another goroutine can      *)
(* interfere: a critical section of PlayerManager.mu, a store call, an     *)
(* atomic operation on Player.state, a channel operation.                  *)
(***************************************************************************)
EXTENDS Integers, Sequences, SequencesExt

CONSTANTS
    Workers,      \* handleConn goroutines: links from service processes
    Players,      \* player ids
    Sessions,     \* session ids
    NoPlayer,     \* player id 0
    NoSession,    \* session id 0
    MaxObjects,   \* bound on NewPlayer
    MaxCalls,     \* bound on Dispatch
    InboxCap,     \* capacity of Player.inbox
    Destroyable   \* players DestroyPlayer may be called for

ASSUME GameAssumption ==
    /\ NoPlayer \notin Players /\ NoSession \notin Sessions
    /\ MaxObjects \in Nat /\ MaxCalls \in Nat /\ InboxCap \in Nat \ {0}
    /\ Destroyable \subseteq Players

VARIABLES
    \* PlayerManager
    players, sessions,
    \* Player objects: id, SessionID, state, inbox, the loop and its message
    owner, sid, pstate, inbox, loop, cur,
    \* handleConn: where it is, its envelope, player id, Player and call
    pc, env, pid, obj, call,
    \* Dispatch calls: the envelope and Player of each, and what was sent on
    \* its channel
    calls, reply

managerVars == <<players, sessions>>
objectVars == <<owner, sid, pstate, inbox, loop, cur>>
workerVars == <<pc, env, pid, obj, call>>
vars == <<players, sessions, owner, sid, pstate, inbox, loop, cur, pc, env, pid, obj,
          call, calls, reply>>

PlayerIds == Players \cup {NoPlayer}
Objects == 1 .. MaxObjects
NoObj == 0
Calls == 1 .. MaxCalls
NoCall == 0

\* A request is any message but the two lifecycle notices.
Kinds == {"request", "resume", "offline"}
Envelopes == [kind : Kinds, session : Sessions]
NoEnv == [kind |-> "request", session |-> NoSession]

\* Player objects made so far are the ones with a state.
Made(o) == pstate[o] # "none"

-----------------------------------------------------------------------------
Init ==
    /\ players = [p \in PlayerIds |-> NoObj]
    /\ sessions = [s \in Sessions |-> NoPlayer]
    /\ owner = [o \in Objects |-> NoPlayer]
    /\ sid = [o \in Objects |-> NoSession]
    /\ pstate = [o \in Objects |-> "none"]
    /\ inbox = [o \in Objects |-> <<>>]
    /\ loop = [o \in Objects |-> "none"]
    /\ cur = [o \in Objects |-> NoCall]
    /\ pc = [w \in Workers |-> "read"]
    /\ env = [w \in Workers |-> NoEnv]
    /\ pid = [w \in Workers |-> NoPlayer]
    /\ obj = [w \in Workers |-> NoObj]
    /\ call = [w \in Workers |-> NoCall]
    /\ calls = <<>>
    /\ reply = [k \in Calls |-> <<>>]

Goto(w, label) == pc' = [pc EXCEPT ![w] = label]

\* Back to ReadEnvelope; the locals of the round are gone.
NextEnvelope(w) ==
    /\ Goto(w, "read")
    /\ env' = [env EXCEPT ![w] = NoEnv]
    /\ pid' = [pid EXCEPT ![w] = NoPlayer]
    /\ obj' = [obj EXCEPT ![w] = NoObj]
    /\ call' = [call EXCEPT ![w] = NoCall]

At(w, label) == pc[w] = label

\* OnResume's CompareAndSwap: Offline -> Active and nothing else.
ResumedState(st) == IF st = "Offline" THEN "Active" ELSE st

\* OnOffline's CompareAndSwap: Active -> Offline and nothing else.
OfflinedState(st) == IF st = "Active" THEN "Offline" ELSE st

\* Destroy's CompareAndSwap: Offline -> Destroyed and nothing else.
DestroyedState(st) == IF st = "Offline" THEN "Destroyed" ELSE st

-----------------------------------------------------------------------------
(* handleConn.                                                             *)

\* GetBySessionID: a session without an entry reads player id 0.
PlayerOfSession(s) ==
    LET o == players[sessions[s]] IN IF o = NoObj THEN NoPlayer ELSE owner[o]

ResolvedPlayer(e, p) == IF p # NoPlayer THEN p ELSE PlayerOfSession(e.session)

\* An envelope e with player id p arrives; an offline notice or a resume of no
\* player is skipped.
Receive(w, e, p) ==
    /\ At(w, "read")
    /\ Len(calls) < MaxCalls
    /\ e.kind \in {"offline", "resume"} => ResolvedPlayer(e, p) # NoPlayer
    /\ env' = [env EXCEPT ![w] = e]
    /\ pid' = [pid EXCEPT ![w] = ResolvedPlayer(e, p)]
    /\ Goto(w, IF e.kind = "offline" THEN "mark" ELSE "lookup")
    /\ UNCHANGED <<obj, call, managerVars, objectVars, calls, reply>>

\* GetOrCreate, the map read.
Lookup(w) ==
    /\ At(w, "lookup")
    /\ obj' = [obj EXCEPT ![w] = players[pid[w]]]
    /\ Goto(w, IF players[pid[w]] = NoObj THEN "load" ELSE "revive")
    /\ UNCHANGED <<env, pid, call, managerVars, objectVars, calls, reply>>

\* GetOrCreate of a known player: SessionID, then OnResume.
Revive(w) ==
    /\ At(w, "revive")
    /\ sid' = [sid EXCEPT ![obj[w]] = env[w].session]
    /\ pstate' = [pstate EXCEPT ![obj[w]] = ResumedState(@)]
    /\ Goto(w, "bind")
    /\ UNCHANGED <<env, pid, obj, call, managerVars, owner, inbox, loop, cur, calls, reply>>

\* ... and the session map under the lock.
BindSession(w) ==
    /\ At(w, "bind")
    /\ sessions' = [sessions EXCEPT ![env[w].session] = owner[obj[w]]]
    /\ Goto(w, "post")
    /\ UNCHANGED <<env, pid, obj, call, players, objectVars, calls, reply>>

\* LoadProfile, and SaveProfile of a fresh one, succeed or fail.
LoadProfile(w) ==
    /\ At(w, "load")
    /\ \/ Goto(w, "install") /\ UNCHANGED <<env, pid, obj, call>>
       \/ NextEnvelope(w)
    /\ UNCHANGED <<managerVars, objectVars, calls, reply>>

\* Variant: the new Player is not stored.
StoredNot(p, o) == players

Stored(p, o) == [players EXCEPT ![p] = o]

\* NewPlayer: an Active player with an empty inbox, its loop started.
NewPlayer(o, p, s) ==
    /\ ~Made(o)
    /\ owner' = [owner EXCEPT ![o] = p]
    /\ sid' = [sid EXCEPT ![o] = s]
    /\ pstate' = [pstate EXCEPT ![o] = "Active"]
    /\ loop' = [loop EXCEPT ![o] = "check"]

\* Both maps are written under the lock, without looking again whether the
\* player is there by now.
Install(w, o) ==
    /\ At(w, "install")
    /\ NewPlayer(o, pid[w], env[w].session)
    /\ players' = Stored(pid[w], o)
    /\ sessions' = [sessions EXCEPT ![env[w].session] = pid[w]]
    /\ obj' = [obj EXCEPT ![w] = o]
    /\ Goto(w, "post")
    /\ UNCHANGED <<env, pid, call, inbox, cur, calls, reply>>

\* Post looks at the state: only an Active player takes messages.
PostCheck(w) ==
    /\ At(w, "post")
    /\ IF pstate[obj[w]] = "Active"
       THEN Goto(w, "enqueue") /\ UNCHANGED <<env, pid, obj, call>>
       ELSE NextEnvelope(w)
    /\ UNCHANGED <<managerVars, objectVars, calls, reply>>

\* Variant: off by one.
HasRoomLate(o) == Len(inbox[o]) <= InboxCap

HasRoom(o) == Len(inbox[o]) < InboxCap

\* ... and then sends on the inbox, or gives up when it is full.
Enqueue(w) ==
    /\ At(w, "enqueue")
    /\ HasRoom(obj[w])
    /\ Len(calls) < MaxCalls
    /\ calls' = Append(calls, [env |-> env[w], obj |-> obj[w]])
    /\ inbox' = [inbox EXCEPT ![obj[w]] = Append(@, Len(calls) + 1)]
    /\ call' = [call EXCEPT ![w] = Len(calls) + 1]
    /\ Goto(w, "wait")
    /\ UNCHANGED <<env, pid, obj, managerVars, owner, sid, pstate, loop, cur, reply>>

InboxFull(w) ==
    /\ At(w, "enqueue")
    /\ ~HasRoom(obj[w])
    /\ NextEnvelope(w)
    /\ UNCHANGED <<managerVars, objectVars, calls, reply>>

\* Dispatch gets an answer: the reply, if any, goes back on the link.
Answered(w) ==
    /\ At(w, "wait")
    /\ reply[call[w]] # <<>>
    /\ NextEnvelope(w)
    /\ UNCHANGED <<managerVars, objectVars, calls, reply>>

\* Dispatch gives up after five seconds; the message stays in the inbox.
Timeout(w) ==
    /\ At(w, "wait")
    /\ NextEnvelope(w)
    /\ UNCHANGED <<managerVars, objectVars, calls, reply>>

\* MarkOffline: the map read ...
Mark(w) ==
    /\ At(w, "mark")
    /\ IF players[pid[w]] = NoObj
       THEN NextEnvelope(w)
       ELSE /\ obj' = [obj EXCEPT ![w] = players[pid[w]]]
            /\ Goto(w, "offline")
            /\ UNCHANGED <<env, pid, call>>
    /\ UNCHANGED <<managerVars, objectVars, calls, reply>>

\* ... OnOffline, after the profile is saved ...
Offline(w) ==
    /\ At(w, "offline")
    /\ pstate' = [pstate EXCEPT ![obj[w]] = OfflinedState(@)]
    /\ Goto(w, "unbind")
    /\ UNCHANGED <<env, pid, obj, call, managerVars, owner, sid, inbox, loop, cur, calls,
                   reply>>

\* ... and the entry of the session the player has by now is deleted.
Unbind(w) ==
    /\ At(w, "unbind")
    /\ sessions' = [sessions EXCEPT ![sid[obj[w]]] = NoPlayer]
    /\ NextEnvelope(w)
    /\ UNCHANGED <<players, objectVars, calls, reply>>

-----------------------------------------------------------------------------
(* DestroyPlayer.  The server never calls it; it is PlayerManager's API.   *)
(* The deletion and the CompareAndSwap touch different data and are one    *)
(* step.                                                                   *)

\* Variant: the player stays in the map.
ForgetPlayerNot(p) == players

ForgetPlayer(p) == [players EXCEPT ![p] = NoObj]

DestroyPlayer(p) ==
    /\ players[p] # NoObj
    /\ pstate' = [pstate EXCEPT ![players[p]] = DestroyedState(@)]
    /\ players' = ForgetPlayer(p)
    /\ UNCHANGED <<sessions, owner, sid, inbox, loop, cur, workerVars, calls, reply>>

-----------------------------------------------------------------------------
(* Player.loop.                                                            *)

\* Variant: the loop also stops for an Offline player.
StopsOffline(o) == pstate[o] \in {"Offline", "Destroyed"}

Stops(o) == pstate[o] = "Destroyed"

LoopCheck(o) ==
    /\ loop[o] = "check"
    /\ loop' = [loop EXCEPT ![o] = IF Stops(o) THEN "drain" ELSE "recv"]
    /\ UNCHANGED <<owner, sid, pstate, inbox, cur, managerVars, workerVars, calls, reply>>

Taken(q) == Tail(q)

LoopRecv(o) ==
    /\ loop[o] = "recv"
    /\ inbox[o] # <<>>
    /\ cur' = [cur EXCEPT ![o] = Head(inbox[o])]
    /\ inbox' = [inbox EXCEPT ![o] = Taken(@)]
    /\ loop' = [loop EXCEPT ![o] = "handle"]
    /\ UNCHANGED <<owner, sid, pstate, managerVars, workerVars, calls, reply>>

\* ResumeModule.Handle calls OnResume for an Offline player.
Revives(o, e) == e.kind = "resume" /\ pstate[o] = "Offline"

\* handle: BaseModule and the other modules change nothing.
LoopHandle(o) ==
    /\ loop[o] = "handle"
    /\ LET e == calls[cur[o]].env
       IN /\ pstate' = [pstate EXCEPT ![o] = IF Revives(o, e) THEN ResumedState(@) ELSE @]
          /\ sid' = [sid EXCEPT ![o] = IF Revives(o, e) THEN e.session ELSE @]
          /\ reply' = [reply EXCEPT ![cur[o]] = Append(@, "handled")]
    /\ cur' = [cur EXCEPT ![o] = NoCall]
    /\ loop' = [loop EXCEPT ![o] = "check"]
    /\ UNCHANGED <<owner, inbox, managerVars, workerVars, calls>>

\* Variant: what is left in the inbox is dropped.
FailedNot(k) == reply

Failed(k) == [reply EXCEPT ![k] = Append(@, "refused")]

\* drainAndFail, one message at a time, until the inbox is empty.
LoopDrain(o) ==
    /\ loop[o] = "drain"
    /\ IF inbox[o] = <<>>
       THEN loop' = [loop EXCEPT ![o] = "done"] /\ UNCHANGED <<inbox, reply>>
       ELSE /\ inbox' = [inbox EXCEPT ![o] = Tail(@)]
            /\ reply' = Failed(Head(inbox[o]))
            /\ UNCHANGED loop
    /\ UNCHANGED <<owner, sid, pstate, cur, managerVars, workerVars, calls>>

-----------------------------------------------------------------------------
WorkerStep(w) ==
    \/ Lookup(w) \/ Revive(w) \/ BindSession(w) \/ LoadProfile(w)
    \/ \E o \in Objects : Install(w, o)
    \/ PostCheck(w) \/ Enqueue(w) \/ InboxFull(w) \/ Answered(w) \/ Timeout(w)
    \/ Mark(w) \/ Offline(w) \/ Unbind(w)

LoopStep(o) == LoopCheck(o) \/ LoopRecv(o) \/ LoopHandle(o) \/ LoopDrain(o)

Next ==
    \/ \E w \in Workers, e \in Envelopes, p \in PlayerIds : Receive(w, e, p)
    \/ \E w \in Workers : WorkerStep(w)
    \/ \E p \in Destroyable : DestroyPlayer(p)
    \/ \E o \in Objects : LoopStep(o)

Spec == Init /\ [][Next]_vars

\* Goroutines are scheduled: a worker that can go on does, so does a loop.
FairSpec ==
    /\ Spec
    /\ \A w \in Workers : WF_vars(WorkerStep(w))
    /\ \A o \in Objects : WF_vars(LoopStep(o))

-----------------------------------------------------------------------------
\* Every variable keeps the range its Go type and the bounds give it.
TypeOK ==
    /\ players \in [PlayerIds -> Objects \cup {NoObj}]
    /\ sessions \in [Sessions -> PlayerIds]
    /\ owner \in [Objects -> PlayerIds]
    /\ sid \in [Objects -> Sessions \cup {NoSession}]
    /\ pstate \in [Objects -> {"none", "Active", "Offline", "Destroyed"}]
    /\ inbox \in [Objects -> Seq(1 .. Len(calls))]
    /\ \A o \in Objects : Len(inbox[o]) <= InboxCap
    /\ loop \in [Objects -> {"none", "check", "recv", "handle", "drain", "done"}]
    /\ cur \in [Objects -> 0 .. Len(calls)]
    /\ obj \in [Workers -> Objects \cup {NoObj}]
    /\ call \in [Workers -> 0 .. Len(calls)]

\* PlayerManager's entry of an id is a Player of that id, and not a destroyed one.
IndexedIsUsable ==
    \A p \in PlayerIds : players[p] # NoObj =>
        owner[players[p]] = p /\ pstate[players[p]] \in {"Active", "Offline"}

\* The Player a goroutine got from GetOrCreate or MarkOffline is one of the id it
\* asked for.  It may have been destroyed since the look-up, GetOrCreate does not
\* look again; but whatever GetOrCreate, MarkOffline, the resume module and
\* DestroyPlayer raced, PlayerManager then no longer has it, and no later look-up
\* finds a destroyed Player.
DestroyedIsForgotten ==
    /\ IndexedIsUsable
    /\ \A w \in Workers : obj[w] # NoObj =>
          /\ owner[obj[w]] = pid[w]
          /\ pstate[obj[w]] = "Destroyed" => \A p \in PlayerIds : players[p] # obj[w]

\* With one link from the service there is at most one Player per id, and so
\* one loop that works on the player's data: a Player that went offline is found
\* again and not made anew.
OneObjectPerPlayer ==
    \A o, u \in Objects : Made(o) /\ Made(u) /\ owner[o] = owner[u] => o = u

\* Where a message of Dispatch is; nowhere else may it be.
stageOf(k) ==
    IF k > Len(calls) THEN "new"
    ELSE LET o == calls[k].obj IN
         CASE cur[o] = k -> "handling"
           [] cur[o] # k /\ k \in ToSet(inbox[o]) -> "posted"
           [] OTHER -> IF reply[k] = <<>> THEN "lost" ELSE Head(reply[k])

stage == [k \in Calls |-> stageOf(k)]

\* The Player each message was posted to.
target == [k \in Calls |-> IF k <= Len(calls) THEN calls[k].obj ELSE NoObj]

Mailbox == INSTANCE ActorMailbox WITH Actors <- Objects, NoActor <- NoObj, life <- pstate

\* A Player keeps what ActorMailbox promises, with MarkOffline, GetOrCreate, the
\* resume module and DestroyPlayer all writing its state, senders that checked
\* that state before they post, and callers that have given up.
MailboxSpec == Mailbox!Spec

\* Every message posted to a player that is never destroyed is handled, also
\* when the player goes offline while it is in the inbox.
PostedIsHandled ==
    \A k \in Calls : stageOf(k) \in {"posted", "handling"} ~> stageOf(k) = "handled"
=============================================================================
