--------------------------- MODULE ServiceRouting ---------------------------
(***************************************************************************)
(* NetServer of the service process (src/Server/internal/service): one     *)
(* goroutine per link from a gate, the tables gateConns and sessionGate    *)
(* they share, the dispatch of an envelope to a module or to the game      *)
(* server, and the goroutine that sends the game server's envelopes back.  *)
(* playerRoute is left out: it maps every player to the one GameRouter.    *)
(*                                                                         *)
(* A gate link is a connection of one client of a gate's pool.  A client   *)
(* that reconnects gets a new link while the goroutine of the old one may  *)
(* still be at work.                                                       *)
(***************************************************************************)
EXTENDS Integers, FiniteSets

CONSTANTS
    Links,     \* gate links that are ever accepted
    Sessions,  \* session ids other than 0
    NoLink,    \* a session or reply without a link
    NoSession, \* session id 0
    MaxReads,  \* bound on envelopes read
    MaxAsked   \* bound on game envelopes of one session without an answer

ASSUME RoutingAssumption ==
    /\ NoLink \notin Links /\ NoSession \notin Sessions
    /\ MaxReads \in Nat /\ MaxAsked \in Nat

VARIABLES
    gateConns,    \* links in the table
    sessionGate,  \* session -> link, NoLink when there is no entry
    pc,           \* handleGateConn: link -> where its goroutine is
    env,          \* ... and the envelope it works on
    target,       \* ... and the link replyToGate found
    broken,       \* links that the gate or the network has closed
    seen,         \* link -> sessions recorded on it
    delivered,    \* pairs of a link and the session of an envelope written to it
    asked,        \* session -> envelopes the game server has yet to answer
    push,         \* the session connectLoop of the GameRouter forwards for
    pushTarget,   \* ... and the link replyToGate found for it
    reads         \* envelopes read so far

tables == <<gateConns, sessionGate>>
handlers == <<pc, env, target>>
router == <<push, pushTarget>>
vars == <<gateConns, sessionGate, pc, env, target, broken, seen, delivered, asked, push,
          pushTarget, reads>>

\* login: answered by its module, after EnterGameReq went to the game server;
\* game: any message routed to it; notice: one it does not answer; ping: the
\* gate's ServicePing, which has no session; ignored: no handler, or a handler
\* that fails.
Kinds == {"login", "game", "notice", "ping", "ignored"}
Envelopes ==
    [kind : Kinds \ {"ping"}, session : Sessions] \cup [kind : {"ping"}, session : {NoSession}]
NoEnv == [kind |-> "ignored", session |-> NoSession]

Init ==
    /\ gateConns = {}
    /\ sessionGate = [s \in Sessions |-> NoLink]
    /\ pc = [l \in Links |-> "none"]
    /\ env = [l \in Links |-> NoEnv]
    /\ target = [l \in Links |-> NoLink]
    /\ broken = {}
    /\ seen = [l \in Links |-> {}]
    /\ delivered = {}
    /\ asked = [s \in Sessions |-> 0]
    /\ push = NoSession
    /\ pushTarget = NoLink
    /\ reads = 0

Goto(l, label) == pc' = [pc EXCEPT ![l] = label]

\* The goroutine of l goes back to ReadEnvelope.
NextEnvelope(l) ==
    /\ Goto(l, "read")
    /\ env' = [env EXCEPT ![l] = NoEnv]
    /\ target' = [target EXCEPT ![l] = NoLink]

-----------------------------------------------------------------------------
\* ListenAndServe: the link is in the table before its goroutine starts.
AcceptGate(l) ==
    /\ pc[l] = "none"
    /\ gateConns' = gateConns \cup {l}
    /\ Goto(l, "read")
    /\ UNCHANGED <<sessionGate, env, target, broken, seen, delivered, asked, router, reads>>

Break(l) ==
    /\ pc[l] # "none"
    /\ broken' = broken \cup {l}
    /\ UNCHANGED <<tables, handlers, seen, delivered, asked, router, reads>>

\* Also what was buffered before the link broke is read.
Read(l, e) ==
    /\ pc[l] = "read"
    /\ reads < MaxReads
    /\ reads' = reads + 1
    /\ env' = [env EXCEPT ![l] = e]
    /\ Goto(l, IF e.session = NoSession THEN "dispatch" ELSE "record")
    /\ UNCHANGED <<tables, target, broken, seen, delivered, asked, router>>

Record(l) ==
    /\ pc[l] = "record"
    /\ sessionGate' = [sessionGate EXCEPT ![env[l].session] = l]
    /\ seen' = [seen EXCEPT ![l] = @ \cup {env[l].session}]
    /\ Goto(l, "dispatch")
    /\ UNCHANGED <<gateConns, env, target, broken, delivered, asked, router, reads>>

\* The sessions whose answers the game server owes after e.
Asks(e) == e.kind \in {"login", "game"}

\* dispatchEnvelope and Dispatcher.Dispatch up to the reply.  What goes to the
\* game server may be lost: the router's queue is full or its link is down.
Dispatch(l) ==
    /\ pc[l] = "dispatch"
    /\ \/ /\ Asks(env[l])
          /\ asked[env[l].session] < MaxAsked
          /\ asked' = [asked EXCEPT ![env[l].session] = @ + 1]
       \/ UNCHANGED asked
    /\ IF env[l].kind \in {"login", "ping"}
       THEN Goto(l, "reply") /\ UNCHANGED <<env, target>>
       ELSE NextEnvelope(l)
    /\ UNCHANGED <<tables, broken, seen, delivered, router, reads>>

\* Variant: a session without an entry is answered on any link.
LinkOfAny(s) ==
    IF s # NoSession /\ sessionGate[s] # NoLink THEN sessionGate[s]
    ELSE IF gateConns = {} THEN NoLink ELSE CHOOSE l \in gateConns : TRUE

\* The link replyToGate finds under the lock: the session's, if it is still in
\* the table.  A ping has no session and so no link.
LinkOf(s) ==
    IF s \in Sessions /\ sessionGate[s] \in gateConns THEN sessionGate[s] ELSE NoLink

Reply(l) ==
    /\ pc[l] = "reply"
    /\ IF LinkOf(env[l].session) = NoLink
       THEN NextEnvelope(l)
       ELSE /\ target' = [target EXCEPT ![l] = LinkOf(env[l].session)]
            /\ Goto(l, "write")
            /\ UNCHANGED env
    /\ UNCHANGED <<tables, broken, seen, delivered, asked, router, reads>>

\* What is written on m for s arrives, or is lost with the link.
Deliver(m, s) ==
    \/ m \notin broken /\ delivered' = delivered \cup {<<m, s>>}
    \/ UNCHANGED delivered

\* The lock is gone: the link may have been closed and cleaned up since.
WriteReply(l) ==
    /\ pc[l] = "write"
    /\ Deliver(target[l], env[l].session)
    /\ NextEnvelope(l)
    /\ UNCHANGED <<tables, broken, seen, asked, router, reads>>

\* Variant: the sessions of the link are kept.
PurgedNot(l) == sessionGate

\* Variant: sessions of other links go too.
PurgedAll(l) == [s \in Sessions |-> NoLink]

Purged(l) == [s \in Sessions |-> IF sessionGate[s] = l THEN NoLink ELSE sessionGate[s]]

\* ReadEnvelope fails, on a broken link or by its deadline: the connection is
\* closed and both tables are cleaned under one lock.
GateGone(l) ==
    /\ pc[l] = "read"
    /\ broken' = broken \cup {l}
    /\ gateConns' = gateConns \ {l}
    /\ sessionGate' = Purged(l)
    /\ Goto(l, "closed")
    /\ UNCHANGED <<env, target, seen, delivered, asked, router, reads>>

-----------------------------------------------------------------------------
(* ForwardToGate, called by the GameRouter's connectLoop.                  *)

Forward(s) ==
    /\ push = NoSession
    /\ asked[s] > 0
    /\ asked' = [asked EXCEPT ![s] = @ - 1]
    /\ IF LinkOf(s) = NoLink THEN UNCHANGED router ELSE push' = s /\ pushTarget' = LinkOf(s)
    /\ UNCHANGED <<tables, handlers, broken, seen, delivered, reads>>

WritePush ==
    /\ push # NoSession
    /\ Deliver(pushTarget, push)
    /\ push' = NoSession
    /\ pushTarget' = NoLink
    /\ UNCHANGED <<tables, handlers, broken, seen, asked, reads>>

\* The goroutine of l goes on without waiting for the gate.
Working(l) == Record(l) \/ Dispatch(l) \/ Reply(l) \/ WriteReply(l)

Next ==
    \/ \E l \in Links : AcceptGate(l) \/ Break(l) \/ Working(l) \/ GateGone(l)
    \/ \E l \in Links, e \in Envelopes : Read(l, e)
    \/ \E s \in Sessions : Forward(s)
    \/ WritePush

Spec == Init /\ [][Next]_vars

\* Goroutines are scheduled, and the read of a broken link fails once its
\* buffer is empty.
FairSpec ==
    Spec /\ \A l \in Links : WF_vars(Working(l) \/ (l \in broken /\ GateGone(l)))

-----------------------------------------------------------------------------
\* Every variable keeps the range its Go type and the bounds give it.
TypeOK ==
    /\ gateConns \subseteq Links
    /\ sessionGate \in [Sessions -> Links \cup {NoLink}]
    /\ pc \in [Links -> {"none", "read", "record", "dispatch", "reply", "write", "closed"}]
    /\ env \in [Links -> Envelopes \cup {NoEnv}]
    /\ target \in [Links -> Links \cup {NoLink}]
    /\ broken \subseteq Links
    /\ seen \in [Links -> SUBSET Sessions]
    /\ delivered \subseteq Links \X Sessions
    /\ asked \in [Sessions -> 0 .. MaxAsked]
    /\ push \in Sessions \cup {NoSession} /\ pushTarget \in Links \cup {NoLink}
    /\ reads \in 0 .. MaxReads

\* sessionGate names only links that are in gateConns, though the two are
\* written by every link's goroutine and cleaned by the one that ends: the nil
\* test of replyToGate is never needed.
SessionGateLive ==
    \A s \in Sessions : sessionGate[s] # NoLink => sessionGate[s] \in gateConns

\* As long as no other link has carried a session, the goroutine that serves
\* one of its envelopes finds its own link for the answer, whatever other links
\* come and go meanwhile.
AskerIsFound ==
    \A l \in Links :
        /\ pc[l] \in {"dispatch", "reply"} /\ env[l].session # NoSession
        /\ \A m \in Links \ {l} : env[l].session \notin seen[m]
        => sessionGate[env[l].session] = l

\* Answers, and what the game server sends for a session, go only to links the
\* session's gate has used for that session.
DeliveredToOwn == \A d \in delivered : d[2] \in seen[d[1]]

\* A link that broke is forgotten by both tables, whatever its goroutine was
\* doing.
BrokenIsForgotten ==
    \A l \in Links :
        l \in broken ~> l \notin gateConns /\ \A s \in Sessions : sessionGate[s] # l
=============================================================================
