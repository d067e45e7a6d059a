----------------------------- MODULE RemoteLink -----------------------------
(***************************************************************************)
(* One link to another process: remoteClient (gate to service) and         *)
(* GameRouter (service to game), which share their shape.  Goroutines put  *)
(* envelopes in a bounded queue, writeLoop takes them out and writes them  *)
(* to the current connection, connectLoop replaces a connection that       *)
(* fails, heartbeatLoop writes pings of its own.                           *)
(*                                                                         *)
(* An envelope is its number in the order the queue accepted it.           *)
(***************************************************************************)
EXTENDS Integers, Sequences, SequencesExt

CONSTANTS
    Senders,   \* goroutines that call Send
    QueueCap,  \* capacity of sendCh
    RetryMax,  \* sendRetryMax
    MaxSent,   \* bound on accepted envelopes
    MaxLinks,  \* bound on connections
    MaxPings   \* bound on pings; 0 for GameRouter, which has no heartbeatLoop

ASSUME RemoteAssumption ==
    /\ QueueCap \in Nat \ {0} /\ RetryMax \in Nat
    /\ MaxSent \in Nat /\ MaxLinks \in Nat /\ MaxPings \in Nat

VARIABLES
    sendCh,       \* the queue
    accepted,     \* envelopes accepted so far
    attempt,      \* sender -> attempts of its Send so far
    conn,         \* client.conn, a connection or NoLink
    connecting,   \* where connectLoop is
    links,        \* connections made so far
    up,           \* connections that still carry data
    wire,         \* connection -> what was written to it and not read yet
    writer, wenv, wconn, \* writeLoop: where it is, its envelope and connection
    hconn, pings,        \* heartbeatLoop: its connection; pings written
    got           \* what the peer read: envelopes with their connection

connectVars == <<conn, connecting, links>>
writeVars == <<writer, wenv, wconn>>
heartVars == <<hconn, pings>>
vars == <<sendCh, accepted, attempt, conn, connecting, links, up, wire, writer, wenv,
          wconn, hconn, pings, got>>

Links == 1 .. MaxLinks
NoLink == 0
Sent == 1 .. MaxSent
Ping == 0
NoEnv == 0

Init ==
    /\ sendCh = <<>>
    /\ accepted = 0
    /\ attempt = [s \in Senders |-> 0]
    /\ conn = NoLink
    /\ connecting = "dial"
    /\ links = 0
    /\ up = {}
    /\ wire = [l \in Links |-> <<>>]
    /\ writer = "receive"
    /\ wenv = NoEnv
    /\ wconn = NoLink
    /\ hconn = NoLink
    /\ pings = 0
    /\ got = {}

-----------------------------------------------------------------------------
(* Send.                                                                   *)

\* Variant: one envelope more than the channel holds.
HasRoomLate == Len(sendCh) <= QueueCap

HasRoom == Len(sendCh) < QueueCap

\* The queue takes the envelope.
Accept(s) ==
    /\ accepted < MaxSent
    /\ HasRoom
    /\ accepted' = accepted + 1
    /\ sendCh' = Append(sendCh, accepted + 1)
    /\ attempt' = [attempt EXCEPT ![s] = 0]
    /\ UNCHANGED <<connectVars, up, wire, writeVars, heartVars, got>>

\* The queue is full: sleep and try again, or ErrRemoteBusy after the last
\* attempt.
Retry(s) ==
    /\ accepted < MaxSent
    /\ ~HasRoom
    /\ attempt' = [attempt EXCEPT ![s] = IF @ = RetryMax THEN 0 ELSE @ + 1]
    /\ UNCHANGED <<sendCh, accepted, connectVars, up, wire, writeVars, heartVars, got>>

-----------------------------------------------------------------------------
(* writeLoop.                                                              *)

Receive ==
    /\ writer = "receive"
    /\ sendCh # <<>>
    /\ wenv' = Head(sendCh)
    /\ sendCh' = Tail(sendCh)
    /\ writer' = "pick"
    /\ UNCHANGED <<accepted, attempt, connectVars, up, wire, wconn, heartVars, got>>

\* The loop is ready for the next envelope.
Written == writer' = "receive" /\ wenv' = NoEnv /\ wconn' = NoLink

\* Variant: without a connection the loop waits for one.
DroppedNot == FALSE

\* Without a connection the envelope is dropped.
Dropped == conn = NoLink

\* The connection is read under the lock.
Pick ==
    /\ writer = "pick"
    /\ \/ Dropped /\ Written
       \/ /\ conn # NoLink
          /\ wconn' = conn
          /\ writer' = "write"
          /\ UNCHANGED wenv
    /\ UNCHANGED <<sendCh, accepted, attempt, connectVars, up, wire, heartVars, got>>

Write ==
    /\ writer = "write"
    /\ wconn \in up
    /\ wire' = [wire EXCEPT ![wconn] = Append(@, wenv)]
    /\ Written
    /\ UNCHANGED <<sendCh, accepted, attempt, connectVars, up, heartVars, got>>

\* Variant: the connection takes later envelopes after a failed write.
AfterFailureStillUp(l) == up

\* The buffered writer keeps its first error: nothing is sent after it.
AfterFailure(l) == up \ {l}

\* Variant: the envelope goes to the end of the queue.
UnwrittenQueued == IF HasRoom THEN Append(sendCh, wenv) ELSE sendCh

\* Nothing becomes of an envelope that was not written.
Unwritten == sendCh

\* The write fails or its deadline passes, or the bytes go nowhere; the
\* envelope is not written again.
WriteFails ==
    /\ writer = "write"
    /\ up' = AfterFailure(wconn)
    /\ sendCh' = Unwritten
    /\ Written
    /\ UNCHANGED <<accepted, attempt, connectVars, wire, heartVars, got>>

-----------------------------------------------------------------------------
(* heartbeatLoop.                                                          *)

HeartbeatPick ==
    /\ hconn = NoLink
    /\ conn # NoLink
    /\ pings < MaxPings
    /\ hconn' = conn
    /\ pings' = pings + 1
    /\ UNCHANGED <<sendCh, accepted, attempt, connectVars, up, wire, writeVars, got>>

HeartbeatWrite ==
    /\ hconn # NoLink
    /\ \/ /\ hconn \in up
          /\ wire' = [wire EXCEPT ![hconn] = Append(@, Ping)]
          /\ UNCHANGED up
       \/ up' = AfterFailure(hconn) /\ UNCHANGED wire
    /\ hconn' = NoLink
    /\ UNCHANGED <<sendCh, accepted, attempt, connectVars, writeVars, pings, got>>

-----------------------------------------------------------------------------
(* connectLoop.                                                            *)

\* A dial succeeds; a failed one changes nothing.
Dial ==
    /\ connecting = "dial"
    /\ links < MaxLinks
    /\ links' = links + 1
    /\ conn' = links + 1
    /\ up' = up \cup {links + 1}
    /\ connecting' = "read"
    /\ UNCHANGED <<sendCh, accepted, attempt, wire, writeVars, heartVars, got>>

\* ReadEnvelope fails or its deadline passes: the connection is closed ...
Disconnect ==
    /\ connecting = "read"
    /\ up' = up \ {conn}
    /\ connecting' = "closed"
    /\ UNCHANGED <<sendCh, accepted, attempt, conn, links, wire, writeVars, heartVars, got>>

\* ... and then cleared under the lock.
Clear ==
    /\ connecting = "closed"
    /\ conn' = NoLink
    /\ connecting' = "dial"
    /\ UNCHANGED <<sendCh, accepted, attempt, links, up, wire, writeVars, heartVars, got>>

-----------------------------------------------------------------------------
(* The network and the peer, which reads each connection in a goroutine of *)
(* its own, also what is left of an old one.                               *)

Break(l) ==
    /\ l \in up
    /\ up' = up \ {l}
    /\ UNCHANGED <<sendCh, accepted, attempt, connectVars, wire, writeVars, heartVars, got>>

Lose(l) ==
    /\ l \notin up
    /\ wire[l] # <<>>
    /\ wire' = [wire EXCEPT ![l] = <<>>]
    /\ UNCHANGED <<sendCh, accepted, attempt, connectVars, up, writeVars, heartVars, got>>

PeerReads(l) ==
    /\ wire[l] # <<>>
    /\ wire' = [wire EXCEPT ![l] = Tail(@)]
    /\ got' = IF Head(wire[l]) = Ping THEN got ELSE got \cup {<<l, Head(wire[l])>>}
    /\ UNCHANGED <<sendCh, accepted, attempt, connectVars, up, writeVars, heartVars>>

WriteLoop == Receive \/ Pick \/ Write \/ WriteFails

Next ==
    \/ \E s \in Senders : Accept(s) \/ Retry(s)
    \/ WriteLoop
    \/ HeartbeatPick \/ HeartbeatWrite
    \/ Dial \/ Disconnect \/ Clear
    \/ \E l \in Links : Break(l) \/ Lose(l) \/ PeerReads(l)

Spec == Init /\ [][Next]_vars

\* writeLoop is scheduled; nobody promises a connection.
FairSpec == Spec /\ WF_vars(WriteLoop)

-----------------------------------------------------------------------------
\* What was written to a connection, read or not.
Carried(l) == {k \in Sent : <<l, k>> \in got \/ k \in ToSet(wire[l])}

\* Every variable keeps the range its Go type and the bounds give it.
TypeOK ==
    /\ sendCh \in Seq(Sent) /\ Len(sendCh) <= QueueCap
    /\ accepted \in 0 .. MaxSent
    /\ attempt \in [Senders -> 0 .. RetryMax]
    /\ conn \in Links \cup {NoLink}
    /\ connecting \in {"dial", "read", "closed"}
    /\ links \in 0 .. MaxLinks
    /\ up \subseteq 1 .. links
    /\ wire \in [Links -> Seq(Sent \cup {Ping})]
    /\ writer \in {"receive", "pick", "write"}
    /\ wenv \in Sent \cup {NoEnv}
    /\ wconn \in Links \cup {NoLink} /\ hconn \in Links \cup {NoLink}
    /\ pings \in 0 .. MaxPings
    /\ got \subseteq Links \X Sent

\* Of two envelopes the later one is never ahead on the same connection, and it
\* overtakes only on a newer connection, which the peer reads in another
\* goroutine.
InOrder ==
    \A l, m \in Links : \A j \in Carried(l), k \in Carried(m) :
        j < k => l < m \/ (l = m /\ (<<l, k>> \in got => <<l, j>> \in got))

\* Envelopes that are neither queued nor in writeLoop's hands.
settled == accepted - Len(sendCh) - (IF wenv = NoEnv THEN 0 ELSE 1)

\* The newest connection carries data.
open == links \in up

\* Envelopes written to each connection that have not arrived.
flight == [l \in Links |-> ToSet(wire[l]) \ {Ping}]

Lossy == INSTANCE LossyLinks WITH offered <- accepted, link <- links

\* The peer sees what LossyLinks allows: no envelope twice or on two connections
\* (what writeLoop could not write is not tried again after a reconnect), and no
\* hole between two envelopes of one connection.
LossySpec == Lossy!Spec

\* Whatever the state of the connection, an accepted envelope leaves the queue:
\* Send never reports busy for good.
QueueDrains == \A k \in Sent : k \in ToSet(sendCh) ~> k \notin ToSet(sendCh)
=============================================================================
