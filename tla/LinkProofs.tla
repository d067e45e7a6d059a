----------------------------- MODULE LinkProofs -----------------------------
(***************************************************************************)
(* A link keeps the order of its envelopes but across connections, for any *)
(* queue, any number of senders, envelopes, connections and pings.         *)
(***************************************************************************)
EXTENDS RemoteLink, TLAPS

(* Queues: what Append and Tail leave in them, and in what order.           *)

\* The elements of q that are in S are in ascending order.
Ascending(q, S) ==
    \A h, i \in 1 .. Len(q) : h < i /\ q[h] \in S /\ q[i] \in S => q[h] < q[i]

LEMMA ElementAt ==
    ASSUME NEW S, NEW q \in Seq(S)
    PROVE  /\ ToSet(q) = {q[i] : i \in 1 .. Len(q)}
           /\ ToSet(q) \subseteq S
  BY DEF ToSet

LEMMA NothingIn ==
    ASSUME NEW q, q = <<>>
    PROVE  (\A S : Ascending(q, S)) /\ \A k : k \notin ToSet(q)
  <1>1. Len(q) = 0
    OBVIOUS
  <1>2. DOMAIN q = {}
    OBVIOUS
  <1>3. \A S : Ascending(q, S)
    BY <1>1 DEF Ascending
  <1>4. \A k : k \notin ToSet(q)
    BY <1>2 DEF ToSet
  <1>5. QED
    BY <1>3, <1>4

\* What Append adds to a sequence.
LEMMA AppendSeq ==
    ASSUME NEW S, NEW q \in Seq(S), NEW e \in S
    PROVE  Append(q, e) \in Seq(S) /\ ToSet(Append(q, e)) = ToSet(q) \cup {e}
  <1>1. /\ Append(q, e) \in Seq(S) /\ Len(q) \in Nat
        /\ Len(Append(q, e)) = Len(q) + 1
        /\ \A i \in 1 .. Len(q) : Append(q, e)[i] = q[i]
        /\ Append(q, e)[Len(q) + 1] = e
    OBVIOUS
  <1>2. ToSet(Append(q, e)) = {Append(q, e)[i] : i \in 1 .. Len(q) + 1}
    BY <1>1, ElementAt
  <1>3. ToSet(q) = {q[i] : i \in 1 .. Len(q)}
    BY ElementAt
  <1>4. ASSUME NEW k \in ToSet(Append(q, e)) PROVE k \in ToSet(q) \cup {e}
    <2>1. PICK i \in 1 .. Len(q) + 1 : k = Append(q, e)[i]
      BY <1>2
    <2>2. i \in 1 .. Len(q) \/ i = Len(q) + 1
      BY <1>1
    <2>3. QED
      BY <1>1, <1>3, <2>1, <2>2
  <1>5. ASSUME NEW k \in ToSet(q) \cup {e} PROVE k \in ToSet(Append(q, e))
    <2>1. CASE k = e
      BY <1>1, <1>2, <2>1
    <2>2. CASE k \in ToSet(q)
      <3>1. PICK i \in 1 .. Len(q) : k = q[i]
        BY <1>3, <2>2
      <3>2. i \in 1 .. Len(q) + 1 /\ k = Append(q, e)[i]
        BY <1>1, <3>1
      <3>3. QED
        BY <1>2, <3>2
    <2>3. QED
      BY <2>1, <2>2
  <1>6. QED
    BY <1>1, <1>4, <1>5

LEMMA AppendAscending ==
    ASSUME NEW T, NEW S, NEW q \in Seq(T), NEW e \in T, Ascending(q, S),
           e \in S => \A k \in ToSet(q) \cap S : k < e
    PROVE  Ascending(Append(q, e), S)
  <1>1. /\ Len(q) \in Nat /\ Len(Append(q, e)) = Len(q) + 1
        /\ \A i \in 1 .. Len(q) : Append(q, e)[i] = q[i]
        /\ Append(q, e)[Len(q) + 1] = e
    OBVIOUS
  <1>2. \A i \in 1 .. Len(q) : q[i] \in ToSet(q)
    BY ElementAt
  <1>3. SUFFICES ASSUME NEW h \in 1 .. Len(q) + 1, NEW i \in 1 .. Len(q) + 1, h < i,
                        Append(q, e)[h] \in S, Append(q, e)[i] \in S
                 PROVE  Append(q, e)[h] < Append(q, e)[i]
    BY <1>1 DEF Ascending
  <1>4. h \in 1 .. Len(q)
    BY <1>1, <1>3
  <1>5. CASE i \in 1 .. Len(q)
    BY <1>1, <1>3, <1>4, <1>5 DEF Ascending
  <1>6. CASE i = Len(q) + 1
    BY <1>1, <1>2, <1>3, <1>4, <1>6
  <1>7. QED
    BY <1>1, <1>5, <1>6

\* What is left of a sequence without its head.
LEMMA TailSeq ==
    ASSUME NEW S, NEW q \in Seq(S), q # <<>>
    PROVE  /\ Tail(q) \in Seq(S) /\ Head(q) \in ToSet(q) /\ Head(q) \in S
           /\ ToSet(Tail(q)) \subseteq ToSet(q)
           /\ \A k \in ToSet(q) : k = Head(q) \/ k \in ToSet(Tail(q))
  <1>1. /\ Tail(q) \in Seq(S) /\ Len(q) \in Nat \ {0} /\ Len(Tail(q)) = Len(q) - 1
        /\ Head(q) = q[1] /\ Head(q) \in S
        /\ \A i \in 1 .. Len(q) - 1 : Tail(q)[i] = q[i + 1]
    OBVIOUS
  <1>2. ToSet(q) = {q[i] : i \in 1 .. Len(q)}
    BY ElementAt
  <1>3. ToSet(Tail(q)) = {Tail(q)[i] : i \in 1 .. Len(q) - 1}
    BY <1>1, ElementAt
  <1>4. \A i \in 1 .. Len(q) : i = 1 \/ (i - 1 \in 1 .. Len(q) - 1 /\ Tail(q)[i - 1] = q[i])
    BY <1>1
  <1>5. ASSUME NEW k \in ToSet(Tail(q)) PROVE k \in ToSet(q)
    <2>1. PICK i \in 1 .. Len(q) - 1 : k = Tail(q)[i]
      BY <1>3
    <2>2. i + 1 \in 1 .. Len(q) /\ k = q[i + 1]
      BY <1>1, <2>1
    <2>3. QED
      BY <1>2, <2>2
  <1>6. ASSUME NEW k \in ToSet(q) PROVE k = Head(q) \/ k \in ToSet(Tail(q))
    <2>1. PICK i \in 1 .. Len(q) : k = q[i]
      BY <1>2
    <2>2. QED
      BY <1>1, <1>3, <1>4, <2>1
  <1>7. Head(q) \in ToSet(q)
    BY <1>1, <1>2
  <1>8. QED
    BY <1>1, <1>5, <1>6, <1>7

LEMMA TailAscending ==
    ASSUME NEW T, NEW S, NEW q \in Seq(T), q # <<>>, Ascending(q, S)
    PROVE  /\ Ascending(Tail(q), S)
           /\ Head(q) \in S => \A k \in ToSet(Tail(q)) \cap S : Head(q) < k
  <1>1. /\ Tail(q) \in Seq(T)
        /\ Len(q) \in Nat \ {0} /\ Len(Tail(q)) = Len(q) - 1 /\ Head(q) = q[1]
        /\ \A i \in 1 .. Len(q) - 1 : Tail(q)[i] = q[i + 1]
    OBVIOUS
  <1>2. Ascending(Tail(q), S)
    BY <1>1 DEF Ascending
  <1>3. \A i \in 1 .. Len(q) - 1 : q[1] \in S /\ Tail(q)[i] \in S => q[1] < Tail(q)[i]
    BY <1>1 DEF Ascending
  <1>4. ToSet(Tail(q)) = {Tail(q)[i] : i \in 1 .. Len(q) - 1}
    BY <1>1, ElementAt
  <1>5. QED
    BY <1>1, <1>2, <1>3, <1>4

-----------------------------------------------------------------------------
\* conn is the newest connection, or none.
ConnIsNewest ==
    /\ conn # NoLink => conn = links
    /\ connecting = "read" => conn \in Links

QueueOrdered ==
    /\ Ascending(sendCh, Sent)
    /\ \A k \in ToSet(sendCh) : k <= accepted

\* writeLoop's envelope is older than those in the queue.
WriterAhead ==
    /\ wenv <= accepted
    /\ \A k \in ToSet(sendCh) : wenv < k
    /\ writer = "receive" => wenv = NoEnv
    /\ writer # "receive" => wenv \in Sent
    /\ writer = "write" => wconn \in Links /\ wconn <= links

\* What was written is older than writeLoop's envelope and the queue, and went
\* to no newer connection than the one the next envelope goes to.
WrittenBefore ==
    \A l \in Links : \A k \in Carried(l) :
        /\ k <= accepted /\ l <= links
        /\ writer # "receive" => k < wenv
        /\ writer = "write" => l <= wconn
        /\ \A j \in ToSet(sendCh) : k < j

\* Of what was written, a later envelope is on no older connection ...
LinksOrdered ==
    \A l, m \in Links : \A j \in Carried(l), k \in Carried(m) : j < k => l <= m

\* ... and a connection is read in order.
WireOrdered ==
    \A l \in Links :
        /\ Ascending(wire[l], Sent)
        /\ \A k \in Sent : <<l, k>> \in got =>
              \A j \in ToSet(wire[l]) \ {Ping} : k < j

IInv ==
    /\ TypeOK
    /\ ConnIsNewest
    /\ QueueOrdered
    /\ WriterAhead
    /\ WrittenBefore
    /\ LinksOrdered
    /\ WireOrdered

-----------------------------------------------------------------------------
LEMMA InitIInv == Init => IInv
  <1> SUFFICES ASSUME Init PROVE IInv
    OBVIOUS
  <1>1. TypeOK
    BY RemoteAssumption DEF Init, TypeOK, Links, NoLink, NoEnv, Sent, Ping
  <1>2. \A l \in Links : wire[l] = <<>> /\ \A k : k \notin Carried(l)
    <2> SUFFICES ASSUME NEW l \in Links PROVE wire[l] = <<>> /\ \A k : k \notin Carried(l)
      OBVIOUS
    <2>1. wire[l] = <<>> /\ got = {}
      BY DEF Init
    <2>2. \A k : k \notin ToSet(wire[l])
      BY <2>1, NothingIn
    <2>3. QED
      BY <2>1, <2>2 DEF Carried
  <1>3. ConnIsNewest /\ QueueOrdered /\ WriterAhead
    <2>1. (\A k : k \notin ToSet(sendCh)) /\ Ascending(sendCh, Sent)
      BY NothingIn DEF Init
    <2>2. QED
      BY <2>1 DEF Init, ConnIsNewest, QueueOrdered, WriterAhead, NoLink, NoEnv
  <1>4. WrittenBefore /\ LinksOrdered
    BY <1>2 DEF WrittenBefore, LinksOrdered
  <1>5. WireOrdered
    <2>1. \A l \in Links : Ascending(wire[l], Sent) /\ got = {}
      BY <1>2, NothingIn DEF Init
    <2>2. QED
      BY <2>1 DEF WireOrdered
  <1>6. QED
    BY <1>1, <1>3, <1>4, <1>5 DEF IInv

USE RemoteAssumption DEF Links, NoLink, Sent, NoEnv, Ping

\* A step after which no connection has carried more keeps what is said of it.
LEMMA CarriedShrinks ==
    ASSUME IInv, TypeOK', UNCHANGED <<sendCh, accepted, writer, wenv, wconn>>,
           links' \in {links, links + 1},
           \A l \in Links : Carried(l)' \subseteq Carried(l)
    PROVE  QueueOrdered' /\ WriterAhead' /\ WrittenBefore' /\ LinksOrdered'
  <1>1. QueueOrdered' /\ WriterAhead'
    BY DEF IInv, TypeOK, QueueOrdered, WriterAhead
  <1>2. WrittenBefore'
    BY DEF IInv, TypeOK, WrittenBefore
  <1>3. LinksOrdered'
    BY DEF IInv, LinksOrdered
  <1>4. QED
    BY <1>1, <1>2, <1>3

\* Carried and WireOrdered look at wire and got only.
LEMMA WireFrame ==
    ASSUME IInv, UNCHANGED <<wire, got>>
    PROVE  (\A l \in Links : Carried(l)' = Carried(l)) /\ WireOrdered'
  BY DEF IInv, WireOrdered, Carried

\* Steps of the dialler, the network and heartbeatLoop's look at conn.
LEMMA ConnectStep ==
    ASSUME IInv, Dial \/ Disconnect \/ Clear \/ HeartbeatPick \/ \E l \in Links : Break(l)
    PROVE  IInv'
  <1>1. TypeOK'
    <2>1. CASE Dial
      BY <2>1 DEF IInv, TypeOK, Dial, writeVars, heartVars
    <2>2. CASE Disconnect
      BY <2>2 DEF IInv, TypeOK, Disconnect, writeVars, heartVars
    <2>3. CASE Clear
      BY <2>3 DEF IInv, TypeOK, Clear, writeVars, heartVars
    <2>4. CASE HeartbeatPick
      BY <2>4 DEF IInv, TypeOK, HeartbeatPick, connectVars, writeVars
    <2>5. CASE \E l \in Links : Break(l)
      BY <2>5 DEF IInv, TypeOK, Break, connectVars, writeVars, heartVars
    <2>6. QED
      BY <2>1, <2>2, <2>3, <2>4, <2>5
  <1>2. /\ UNCHANGED <<sendCh, accepted, wire, got, writer, wenv, wconn>>
        /\ links' \in {links, links + 1}
    BY DEF Dial, Disconnect, Clear, HeartbeatPick, Break, connectVars, writeVars, heartVars
  <1>3. ConnIsNewest'
    BY DEF IInv, TypeOK, ConnIsNewest, Dial, Disconnect, Clear, HeartbeatPick, Break, connectVars
  <1>4. QED
    BY <1>1, <1>2, <1>3, WireFrame, CarriedShrinks DEF IInv

LEMMA SendStep ==
    ASSUME IInv, NEW s \in Senders, Accept(s) \/ Retry(s)
    PROVE  IInv'
  <1>1. CASE Accept(s)
    <2> DEFINE e == accepted + 1
    <2>1. sendCh \in Seq(Sent) /\ e \in Sent /\ sendCh' = Append(sendCh, e)
      BY <1>1 DEF IInv, TypeOK, Accept
    <2>2. sendCh' \in Seq(Sent) /\ ToSet(sendCh') = ToSet(sendCh) \cup {e}
      BY <2>1, AppendSeq
    <2>3. TypeOK'
      BY <1>1, <2>1, <2>2 DEF IInv, TypeOK, Accept, HasRoom, connectVars, writeVars, heartVars
    <2>4. ConnIsNewest'
      BY <1>1 DEF IInv, ConnIsNewest, Accept, connectVars
    <2>5. ToSet(sendCh) \subseteq Sent
      BY <2>1, ElementAt
    <2>6. QueueOrdered'
      <3>2. \A k \in ToSet(sendCh) : k < e
        BY <2>5 DEF IInv, TypeOK, QueueOrdered
      <3>3. Ascending(sendCh', Sent)
        <4>1. Ascending(sendCh, Sent)
          BY DEF IInv, QueueOrdered
        <4> DEFINE q == sendCh
        <4>2. q \in Seq(Sent) /\ Ascending(q, Sent) /\ \A k \in ToSet(q) : k < e
          BY <2>1, <3>2, <4>1
        <4> HIDE DEF q, e
        <4>3. Ascending(Append(q, e), Sent)
          BY <2>1, <4>2, AppendAscending
        <4>4. QED
          BY <2>1, <4>3 DEF q
      <3>4. QED
        BY <1>1, <2>2, <2>5, <3>2, <3>3 DEF IInv, TypeOK, QueueOrdered, Accept
    <2>7. WriterAhead'
      BY <1>1, <2>2 DEF IInv, TypeOK, WriterAhead, Accept, writeVars, connectVars
    <2>8. \A l \in Links : Carried(l)' = Carried(l)
      BY <1>1, WireFrame DEF Accept
    <2>9. WrittenBefore'
      BY <1>1, <2>2, <2>8 DEF IInv, TypeOK, WrittenBefore, Accept, writeVars, connectVars, Carried
    <2>10. LinksOrdered' /\ WireOrdered'
      BY <1>1, <2>8, WireFrame DEF IInv, LinksOrdered, Accept
    <2>11. QED
      BY <2>3, <2>4, <2>6, <2>7, <2>9, <2>10 DEF IInv
  <1>2. CASE Retry(s)
    <2>1. TypeOK'
      <3>1. attempt \in [Senders -> 0 .. RetryMax] /\ RetryMax \in Nat
        BY RemoteAssumption DEF IInv, TypeOK
      <3>2. attempt' = [attempt EXCEPT ![s] = IF @ = RetryMax THEN 0 ELSE @ + 1]
        BY <1>2 DEF Retry
      <3>3. attempt' \in [Senders -> 0 .. RetryMax]
        BY <3>1, <3>2
      <3>4. UNCHANGED <<sendCh, accepted, conn, connecting, links, up, wire, writer, wenv, wconn,
                        hconn, pings, got>>
        BY <1>2 DEF Retry, connectVars, writeVars, heartVars
      <3>5. QED
        BY <3>3, <3>4 DEF IInv, TypeOK
    <2>2. ConnIsNewest' /\ UNCHANGED <<sendCh, accepted, wire, got, writer, wenv, wconn, links>>
      BY <1>2 DEF IInv, ConnIsNewest, Retry, connectVars, writeVars
    <2>3. QED
      BY <2>1, <2>2, WireFrame, CarriedShrinks DEF IInv
  <1>3. QED
    BY <1>1, <1>2

LEMMA ReceiveStep ==
    ASSUME IInv, Receive
    PROVE  IInv'
  <1>0. sendCh \in Seq(Sent) /\ sendCh # <<>> /\ sendCh' = Tail(sendCh) /\ wenv' = Head(sendCh)
    BY DEF IInv, TypeOK, Receive
  <1>1. sendCh \in Seq(Sent \cup {Ping})
    BY <1>0
  <1>2. /\ sendCh' \in Seq(Sent) /\ wenv' \in Sent /\ wenv' \in ToSet(sendCh)
        /\ ToSet(sendCh') \subseteq ToSet(sendCh) /\ ToSet(sendCh') \subseteq Sent
    BY <1>0, TailSeq, ElementAt
  <1>3. Ascending(sendCh', Sent) /\ \A k \in ToSet(sendCh') : wenv' < k
    <2>1. Ascending(sendCh, Sent)
      BY DEF IInv, QueueOrdered
    <2>2. /\ Ascending(Tail(sendCh), Sent)
          /\ Head(sendCh) \in Sent => \A k \in ToSet(Tail(sendCh)) \cap Sent : Head(sendCh) < k
      BY <1>0, <1>1, <2>1, TailAscending
    <2>3. QED
      BY <1>0, <1>2, <2>2
  <1>4. TypeOK'
    <2>1. UNCHANGED <<accepted, attempt, conn, connecting, links, up, wire, wconn, hconn, pings, got>>
          /\ writer' = "pick"
      BY DEF Receive, connectVars, heartVars
    <2>2. Len(sendCh') <= QueueCap
      <3>1. Len(Tail(sendCh)) = Len(sendCh) - 1 /\ Len(sendCh) \in Nat
        BY <1>0
      <3>2. Len(sendCh) <= QueueCap /\ QueueCap \in Nat
        BY RemoteAssumption DEF IInv, TypeOK
      <3>3. QED
        BY <1>0, <3>1, <3>2
    <2>3. QED
      BY <1>2, <2>1, <2>2 DEF IInv, TypeOK
  <1>5. ConnIsNewest'
    BY DEF IInv, ConnIsNewest, Receive, connectVars
  <1>6. QueueOrdered' /\ WriterAhead'
    BY <1>2, <1>3 DEF IInv, QueueOrdered, WriterAhead, Receive
  <1>7. \A l \in Links : Carried(l)' = Carried(l)
    BY WireFrame DEF Receive
  <1>8. WrittenBefore'
    BY <1>2, <1>7 DEF IInv, WrittenBefore, Receive, connectVars
  <1>9. LinksOrdered' /\ WireOrdered'
    BY <1>7, WireFrame DEF IInv, LinksOrdered, Receive
  <1>10. QED
    BY <1>4, <1>5, <1>6, <1>8, <1>9 DEF IInv

LEMMA PickStep ==
    ASSUME IInv, Pick
    PROVE  IInv'
  <1>1. TypeOK'
    BY DEF IInv, TypeOK, Pick, Written, connectVars, heartVars
  <1>2. ConnIsNewest' /\ QueueOrdered'
    BY DEF IInv, ConnIsNewest, QueueOrdered, Pick, connectVars
  <1>3. WriterAhead'
    <2>1. ToSet(sendCh) \subseteq Sent
      BY ElementAt DEF IInv, TypeOK
    <2>2. QED
      BY <2>1 DEF IInv, TypeOK, ConnIsNewest, WriterAhead, Pick, Written, connectVars
  <1>4. \A l \in Links : Carried(l)' = Carried(l)
    BY WireFrame DEF Pick
  <1>5. WrittenBefore'
    BY <1>4 DEF IInv, TypeOK, ConnIsNewest, WrittenBefore, Pick, Written, connectVars
  <1>6. LinksOrdered' /\ WireOrdered'
    BY <1>4, WireFrame DEF IInv, LinksOrdered, Pick
  <1>7. QED
    BY <1>1, <1>2, <1>3, <1>5, <1>6 DEF IInv

\* The loop has written wenv, or given it up: it has none any more.
LEMMA WrittenQueue ==
    ASSUME IInv, UNCHANGED <<sendCh, accepted>>, Written
    PROVE  QueueOrdered' /\ WriterAhead'
  <1>1. ToSet(sendCh) \subseteq Sent
    BY ElementAt DEF IInv, TypeOK
  <1>2. QED
    BY <1>1 DEF IInv, TypeOK, QueueOrdered, WriterAhead, Written

LEMMA WriteStep ==
    ASSUME IInv, Write
    PROVE  IInv'
  <1>1. /\ wconn \in Links /\ wconn <= links /\ wenv \in Sent /\ wenv <= accepted
        /\ wire[wconn] \in Seq(Sent \cup {Ping})
        /\ \A k \in ToSet(sendCh) : wenv < k
    BY DEF IInv, TypeOK, WriterAhead, Write
  <1>2. /\ wire' \in [Links -> Seq(Sent \cup {Ping})]
        /\ \A m \in Links : m # wconn => wire'[m] = wire[m]
        /\ wire'[wconn] = Append(wire[wconn], wenv)
        /\ ToSet(wire'[wconn]) = ToSet(wire[wconn]) \cup {wenv}
    <2>1. wire' = [wire EXCEPT ![wconn] = Append(@, wenv)] /\ wire \in [Links -> Seq(Sent \cup {Ping})]
      BY DEF IInv, TypeOK, Write
    <2>2. /\ Append(wire[wconn], wenv) \in Seq(Sent \cup {Ping})
          /\ ToSet(Append(wire[wconn], wenv)) = ToSet(wire[wconn]) \cup {wenv}
      BY <1>1, AppendSeq
    <2>3. QED
      BY <1>1, <2>1, <2>2
  <1>3. TypeOK'
    BY <1>2 DEF IInv, TypeOK, Write, Written, connectVars, heartVars
  <1>4. ConnIsNewest' /\ QueueOrdered' /\ WriterAhead'
    BY WrittenQueue DEF IInv, ConnIsNewest, Write, connectVars
  <1>5. \A l \in Links : Carried(l)' = IF l = wconn THEN Carried(l) \cup {wenv} ELSE Carried(l)
    BY <1>1, <1>2 DEF Write, Carried
  <1>6. \A l \in Links : \A k \in Carried(l) : k < wenv /\ l <= wconn
    BY DEF IInv, TypeOK, WrittenBefore, Write
  <1>7. WrittenBefore'
    BY <1>1, <1>5 DEF IInv, WrittenBefore, Write, Written, connectVars
  <1>8. LinksOrdered'
    <2>1. \A l \in Links : Carried(l) \subseteq Sent
      BY DEF Carried
    <2>2. SUFFICES ASSUME NEW l \in Links, NEW m \in Links, NEW j \in Carried(l)',
                          NEW k \in Carried(m)', j < k
                   PROVE  l <= m
      BY DEF LinksOrdered
    <2>3. CASE k \in Carried(m)
      <3>1. j \in Carried(l)
        BY <1>1, <1>5, <1>6, <2>1, <2>2, <2>3
      <3>2. QED
        BY <2>2, <2>3, <3>1 DEF IInv, LinksOrdered
    <2>4. CASE k \notin Carried(m)
      <3>1. k = wenv /\ m = wconn
        BY <1>5, <2>4
      <3>2. QED
        BY <1>1, <1>5, <1>6, <2>2, <3>1
    <2>5. QED
      BY <2>3, <2>4
  <1>9. WireOrdered'
    <2>1. \A k \in ToSet(wire[wconn]) \cap Sent : k < wenv
      <3>1. ToSet(wire[wconn]) \subseteq Sent \cup {Ping}
        BY <1>1, ElementAt
      <3>2. QED
        BY <1>1, <1>6, <3>1 DEF Carried
    <2>2. Ascending(wire'[wconn], Sent)
      <3>1. Ascending(wire[wconn], Sent)
        BY <1>1 DEF IInv, WireOrdered
      <3>2. wenv \in Sent \cup {Ping}
        BY <1>1
      <3>3. wire[wconn] \in Seq(Sent \cup {Ping})
        BY <1>1
      <3> HIDE DEF Sent, Ping
      <3>4. Ascending(Append(wire[wconn], wenv), Sent)
        BY <2>1, <3>1, <3>2, <3>3, AppendAscending
      <3>5. QED
        BY <1>2, <3>4
    <2>3. \A k \in Sent : <<wconn, k>> \in got => k < wenv
      BY <1>1, <1>6 DEF Carried
    <2>4. UNCHANGED got
      BY DEF Write
    <2>5. SUFFICES ASSUME NEW l \in Links
                   PROVE  /\ Ascending(wire'[l], Sent)
                          /\ \A k \in Sent : <<l, k>> \in got =>
                                \A j \in ToSet(wire'[l]) \ {Ping} : k < j
      BY <2>4 DEF WireOrdered
    <2>6. CASE l = wconn
      BY <1>2, <2>2, <2>3, <2>6 DEF IInv, WireOrdered
    <2>7. CASE l # wconn
      BY <1>2, <2>7 DEF IInv, WireOrdered
    <2>8. QED
      BY <2>6, <2>7
  <1>10. QED
    BY <1>3, <1>4, <1>7, <1>8, <1>9 DEF IInv

LEMMA WriteFailsStep ==
    ASSUME IInv, WriteFails
    PROVE  IInv'
  <1>1. TypeOK'
    BY DEF IInv, TypeOK, WriteFails, AfterFailure, Unwritten, Written, connectVars, heartVars
  <1>2. ConnIsNewest' /\ QueueOrdered' /\ WriterAhead'
    BY WrittenQueue DEF IInv, ConnIsNewest, WriteFails, Unwritten, connectVars
  <1>3. \A l \in Links : Carried(l)' = Carried(l)
    BY WireFrame DEF WriteFails
  <1>4. WrittenBefore'
    BY <1>3 DEF IInv, WrittenBefore, WriteFails, Unwritten, Written, connectVars
  <1>5. LinksOrdered' /\ WireOrdered'
    BY <1>3, WireFrame DEF IInv, LinksOrdered, WriteFails
  <1>6. QED
    BY <1>1, <1>2, <1>4, <1>5 DEF IInv

\* A ping has no place in the order.
LEMMA HeartbeatStep ==
    ASSUME IInv, HeartbeatWrite
    PROVE  IInv'
  <1>1. ConnIsNewest' /\ UNCHANGED <<sendCh, accepted, got, writer, wenv, wconn, links>>
    BY DEF IInv, ConnIsNewest, HeartbeatWrite, connectVars, writeVars
  <1>2. CASE UNCHANGED wire
    <2>1. TypeOK'
      BY <1>2 DEF IInv, TypeOK, HeartbeatWrite, AfterFailure, connectVars, writeVars
    <2>2. QED
      BY <1>1, <1>2, <2>1, WireFrame, CarriedShrinks DEF IInv
  <1>3. CASE hconn \in up /\ wire' = [wire EXCEPT ![hconn] = Append(@, Ping)] /\ UNCHANGED up
    <2>1. hconn \in Links /\ wire[hconn] \in Seq(Sent \cup {Ping})
      BY DEF IInv, TypeOK, HeartbeatWrite
    <2>2. /\ wire' \in [Links -> Seq(Sent \cup {Ping})]
          /\ \A m \in Links : m # hconn => wire'[m] = wire[m]
          /\ wire'[hconn] = Append(wire[hconn], Ping)
          /\ ToSet(wire'[hconn]) = ToSet(wire[hconn]) \cup {Ping}
      <3>1. /\ Append(wire[hconn], Ping) \in Seq(Sent \cup {Ping})
            /\ ToSet(Append(wire[hconn], Ping)) = ToSet(wire[hconn]) \cup {Ping}
        BY <2>1, AppendSeq
      <3>2. wire \in [Links -> Seq(Sent \cup {Ping})]
        BY DEF IInv, TypeOK
      <3>3. QED
        BY <1>3, <2>1, <3>1, <3>2
    <2>3. TypeOK'
      BY <1>3, <2>2 DEF IInv, TypeOK, HeartbeatWrite, connectVars, writeVars
    <2>4. \A l \in Links : Carried(l)' \subseteq Carried(l)
      <3>1. \A l \in Links, k \in Sent : k \in ToSet(wire'[l]) => k \in ToSet(wire[l])
        <4> SUFFICES ASSUME NEW l \in Links, NEW k \in Sent, k \in ToSet(wire'[l])
                     PROVE  k \in ToSet(wire[l])
          OBVIOUS
        <4>1. CASE l = hconn
          <5>1. k \in ToSet(wire'[hconn]) /\ k # Ping
            BY <4>1
          <5>2. \A j \in ToSet(wire'[hconn]) : j \in ToSet(wire[hconn]) \/ j = Ping
            BY <2>2
          <5>3. QED
            BY <4>1, <5>1, <5>2
        <4>2. CASE l # hconn
          BY <2>2, <4>2
        <4>3. QED
          BY <4>1, <4>2
      <3>2. QED
        BY <1>1, <3>1 DEF Carried
    <2>5. Ascending(wire'[hconn], Sent)
      <3> DEFINE q == wire[hconn]
                 T == Sent \cup {Ping}
      <3>1. q \in Seq(T) /\ Ping \in T /\ Ping \notin Sent /\ Ascending(q, Sent)
        BY <2>1 DEF IInv, WireOrdered
      <3> HIDE DEF q, T
      <3>2. Ascending(Append(q, Ping), Sent)
        BY <3>1, AppendAscending
      <3>3. QED
        BY <2>2, <3>2 DEF q
    <2>6. WireOrdered'
      BY <1>1, <2>2, <2>5 DEF IInv, WireOrdered
    <2>7. QED
      BY <1>1, <2>3, <2>4, <2>6, CarriedShrinks DEF IInv
  <1>4. QED
    BY <1>2, <1>3 DEF HeartbeatWrite

LEMMA LoseStep ==
    ASSUME IInv, NEW n \in Links, Lose(n)
    PROVE  IInv'
  <1>1. ConnIsNewest' /\ UNCHANGED <<sendCh, accepted, got, writer, wenv, wconn, links>>
    BY DEF IInv, ConnIsNewest, Lose, connectVars, writeVars
  <1>2. /\ wire' \in [Links -> Seq(Sent \cup {Ping})]
        /\ \A m \in Links : wire'[m] = wire[m] \/ wire'[m] = <<>>
    BY DEF IInv, TypeOK, Lose
  <1>3. TypeOK'
    BY <1>2 DEF IInv, TypeOK, Lose, connectVars, writeVars, heartVars
  <1>4. ASSUME NEW l \in Links PROVE ToSet(wire'[l]) \subseteq ToSet(wire[l])
    <2>1. CASE wire'[l] = wire[l]
      BY <2>1
    <2>2. CASE wire'[l] = <<>>
      BY <2>2, NothingIn
    <2>3. QED
      BY <1>2, <2>1, <2>2
  <1>5. \A l \in Links : Carried(l)' \subseteq Carried(l)
    BY <1>1, <1>4 DEF Carried
  <1>6. WireOrdered'
    <2>1. ASSUME NEW l \in Links PROVE Ascending(wire'[l], Sent)
      <3>1. CASE wire'[l] = wire[l]
        BY <3>1 DEF IInv, WireOrdered
      <3>2. CASE wire'[l] = <<>>
        BY <3>2, NothingIn
      <3>3. QED
        BY <1>2, <3>1, <3>2
    <2>2. QED
      BY <1>1, <1>4, <2>1 DEF IInv, WireOrdered
  <1>7. QED
    BY <1>1, <1>3, <1>5, <1>6, CarriedShrinks DEF IInv

\* The peer takes the head of a wire, which is older than the rest.
LEMMA PeerStep ==
    ASSUME IInv, NEW n \in Links, PeerReads(n)
    PROVE  IInv'
  <1> DEFINE e == Head(wire[n])
  <1>1. ConnIsNewest' /\ UNCHANGED <<sendCh, accepted, writer, wenv, wconn, links>>
    BY DEF IInv, ConnIsNewest, PeerReads, connectVars, writeVars
  <1>2. wire[n] \in Seq(Sent \cup {Ping}) /\ wire[n] # <<>> /\ Ascending(wire[n], Sent)
    BY DEF IInv, TypeOK, WireOrdered, PeerReads
  <1>3. /\ wire' \in [Links -> Seq(Sent \cup {Ping})]
        /\ \A m \in Links : m # n => wire'[m] = wire[m]
        /\ wire'[n] = Tail(wire[n]) /\ e \in Sent \cup {Ping}
        /\ e \in ToSet(wire[n]) /\ ToSet(wire'[n]) \subseteq ToSet(wire[n])
        /\ got' = IF e = Ping THEN got ELSE got \cup {<<n, e>>}
    BY <1>2, TailSeq DEF IInv, TypeOK, PeerReads
  <1>4. /\ Ascending(wire'[n], Sent)
        /\ e \in Sent => \A k \in ToSet(wire'[n]) \cap Sent : e < k
    <2> DEFINE q == wire[n]
    <2>1. q \in Seq(Sent \cup {Ping}) /\ q # <<>> /\ Ascending(q, Sent)
      BY <1>2
    <2> HIDE DEF q
    <2>2. /\ Ascending(Tail(q), Sent)
          /\ Head(q) \in Sent => \A k \in ToSet(Tail(q)) \cap Sent : Head(q) < k
      BY <2>1, TailAscending
    <2>3. wire'[n] = Tail(q) /\ e = Head(q)
      BY <1>3 DEF q
    <2>4. QED
      BY <2>2, <2>3
  <1> HIDE DEF e
  <1>5. TypeOK'
    <2>1. got' \subseteq Links \X Sent
      BY <1>3 DEF IInv, TypeOK
    <2>2. QED
      BY <1>3, <2>1 DEF IInv, TypeOK, PeerReads, connectVars, writeVars, heartVars
  <1>6. \A l \in Links : ToSet(wire'[l]) \subseteq ToSet(wire[l])
    BY <1>3
  <1>7. \A l \in Links, k \in Sent : <<l, k>> \in got' => <<l, k>> \in got \/ (l = n /\ k = e)
    BY <1>3
  <1>8. \A l \in Links : Carried(l)' \subseteq Carried(l)
    BY <1>3, <1>6, <1>7 DEF Carried
  <1>9. WireOrdered'
    <2>1. ASSUME NEW l \in Links PROVE Ascending(wire'[l], Sent)
      BY <1>3, <1>4 DEF IInv, WireOrdered
    <2>2. ASSUME NEW l \in Links, NEW k \in Sent, <<l, k>> \in got',
                 NEW j \in ToSet(wire'[l]) \ {Ping}
          PROVE  k < j
      <3>1. CASE <<l, k>> \in got
        BY <1>6, <2>2, <3>1 DEF IInv, WireOrdered
      <3>2. CASE l = n /\ k = e
        <4>1. j \in ToSet(wire[n]) /\ ToSet(wire[n]) \subseteq Sent \cup {Ping}
          BY <1>2, <1>6, <2>2, <3>2, ElementAt
        <4>2. QED
          BY <1>4, <2>2, <3>2, <4>1
      <3>3. QED
        BY <1>7, <2>2, <3>1, <3>2
    <2>3. QED
      BY <2>1, <2>2 DEF WireOrdered
  <1>10. QED
    BY <1>1, <1>5, <1>8, <1>9, CarriedShrinks DEF IInv

LEMMA NextStep == IInv /\ [Next]_vars => IInv'
  <1> SUFFICES ASSUME IInv, [Next]_vars PROVE IInv'
    OBVIOUS
  <1>1. CASE UNCHANGED vars
    <2>1. UNCHANGED <<sendCh, accepted, attempt, conn, connecting, links, up, wire, writer, wenv,
                      wconn, hconn, pings, got>>
      BY <1>1 DEF vars
    <2>2. TypeOK' /\ ConnIsNewest'
      BY <2>1 DEF IInv, TypeOK, ConnIsNewest
    <2>3. QED
      BY <2>1, <2>2, WireFrame, CarriedShrinks DEF IInv
  <1>2. CASE Next
    BY <1>2, SendStep, ReceiveStep, PickStep, WriteStep, WriteFailsStep, HeartbeatStep,
       ConnectStep, LoseStep, PeerStep
    DEF Next, WriteLoop
  <1>3. QED
    BY <1>1, <1>2

-----------------------------------------------------------------------------
\* The inductive invariant: what was written comes before what writeLoop has in
\* hand, and that before the queue.
THEOREM InvariantHolds == Spec => []IInv
  <1>1. QED
    BY InitIInv, NextStep, PTL DEF Spec

\* Every variable keeps the range its Go type and the bounds give it.
THEOREM TypeCorrect == Spec => []TypeOK
  <1>1. IInv => TypeOK
    BY DEF IInv
  <1>2. QED
    BY <1>1, InvariantHolds, PTL

\* Of two envelopes the later one is ahead only on a newer connection, whatever
\* breaks and is made again while writeLoop holds an old one.
THEOREM OrderKept == Spec => []InOrder
  <1>1. IInv => InOrder
    <2> SUFFICES ASSUME IInv, NEW l \in Links, NEW m \in Links,
                        NEW j \in Carried(l), NEW k \in Carried(m), j < k
                 PROVE  l < m \/ (l = m /\ (<<l, k>> \in got => <<l, j>> \in got))
      BY DEF InOrder
    <2>1. l <= m
      BY DEF IInv, LinksOrdered
    <2>2. ASSUME l = m, <<l, k>> \in got, <<l, j>> \notin got
          PROVE  FALSE
      <3>1. j \in Sent /\ k \in Sent /\ j \in ToSet(wire[l])
        BY <2>2 DEF Carried
      <3>2. k < j
        BY <2>2, <3>1 DEF IInv, WireOrdered
      <3>3. QED
        BY <3>1, <3>2
    <2>3. QED
      BY <2>1, <2>2
  <1>2. QED
    BY <1>1, InvariantHolds, PTL

-----------------------------------------------------------------------------
(* The refinement of LossyLinks.                                           *)

\* Only the newest connection carries data, and only while connectLoop reads it.
OneOpen ==
    /\ up \subseteq {links}
    /\ connecting # "read" => links \notin up
    /\ connecting = "dial" <=> conn = NoLink

\* The queue holds the latest envelopes without a gap, writeLoop the one before.
Contiguous ==
    /\ \A i \in 1 .. Len(sendCh) : sendCh[i] = accepted - Len(sendCh) + i
    /\ wenv # NoEnv => wenv = accepted - Len(sendCh)

Mapped == IInv /\ OneOpen /\ Contiguous

LEMMA OneOpenInit == Init => OneOpen /\ Contiguous
  BY DEF Init, OneOpen, Contiguous

\* Dial, Disconnect, Clear and failures are all that touches connections.
LEMMA OneOpenStep ==
    ASSUME IInv, IInv', OneOpen, [Next]_vars
    PROVE  OneOpen'
  <1>1. CASE Dial
    BY <1>1 DEF IInv, TypeOK, OneOpen, Dial
  <1>2. CASE Disconnect
    BY <1>2 DEF IInv, ConnIsNewest, TypeOK, OneOpen, Disconnect
  <1>3. CASE Clear
    BY <1>3 DEF OneOpen, Clear
  <1>4. ASSUME UNCHANGED <<conn, connecting, links>>, up' \subseteq up PROVE OneOpen'
    BY <1>4 DEF OneOpen
  <1>5. CASE UNCHANGED vars
    BY <1>4, <1>5 DEF vars
  <1>6. CASE WriteLoop
    BY <1>4, <1>6 DEF WriteLoop, Receive, Pick, Write, WriteFails, AfterFailure, connectVars
  <1>7. CASE HeartbeatPick \/ HeartbeatWrite
    BY <1>4, <1>7 DEF HeartbeatPick, HeartbeatWrite, AfterFailure, connectVars
  <1>8. ASSUME NEW s \in Senders, Accept(s) \/ Retry(s) PROVE OneOpen'
    BY <1>4, <1>8 DEF Accept, Retry, connectVars
  <1>9. ASSUME NEW l \in Links, Break(l) \/ Lose(l) \/ PeerReads(l) PROVE OneOpen'
    BY <1>4, <1>9 DEF Break, Lose, PeerReads, connectVars
  <1>10. QED
    BY <1>1, <1>2, <1>3, <1>5, <1>6, <1>7, <1>8, <1>9 DEF Next

\* The queue is touched by Accept and Receive, the envelope in hand by writeLoop.
LEMMA ContiguousStep ==
    ASSUME IInv, IInv', Contiguous, [Next]_vars
    PROVE  Contiguous'
  <1>1. sendCh \in Seq(Sent) /\ Len(sendCh) \in Nat /\ accepted \in Nat
    BY DEF IInv, TypeOK
  <1>2. ASSUME UNCHANGED <<sendCh, accepted>>, wenv' \in {wenv, NoEnv} PROVE Contiguous'
    BY <1>2 DEF Contiguous
  <1>3. ASSUME NEW s \in Senders, Accept(s) PROVE Contiguous'
    <2>1. /\ sendCh' = Append(sendCh, accepted + 1) /\ accepted' = accepted + 1 /\ UNCHANGED wenv
          /\ accepted + 1 \in Sent
      BY <1>3 DEF Accept, writeVars, IInv, TypeOK
    <2>2. /\ Len(sendCh') = Len(sendCh) + 1
          /\ \A i \in 1 .. Len(sendCh) : sendCh'[i] = sendCh[i]
          /\ sendCh'[Len(sendCh) + 1] = accepted + 1
      BY <1>1, <2>1
    <2>3. ASSUME NEW i \in 1 .. Len(sendCh') PROVE sendCh'[i] = accepted' - Len(sendCh') + i
      <3>1. CASE i \in 1 .. Len(sendCh)
        BY <1>1, <2>1, <2>2, <3>1 DEF Contiguous
      <3>2. CASE i = Len(sendCh) + 1
        BY <1>1, <2>1, <2>2, <3>2
      <3>3. QED
        BY <1>1, <2>2, <3>1, <3>2
    <2>4. wenv' # NoEnv => wenv' = accepted' - Len(sendCh')
      BY <1>1, <2>1, <2>2 DEF Contiguous
    <2>5. QED
      BY <2>3, <2>4 DEF Contiguous
  <1>4. CASE Receive
    <2>1. sendCh # <<>> /\ sendCh' = Tail(sendCh) /\ wenv' = Head(sendCh) /\ UNCHANGED accepted
      BY <1>4 DEF Receive
    <2>2. /\ Len(sendCh') = Len(sendCh) - 1 /\ Len(sendCh) > 0 /\ Head(sendCh) = sendCh[1]
          /\ \A i \in 1 .. Len(sendCh) - 1 : sendCh'[i] = sendCh[i + 1]
      BY <1>1, <2>1
    <2>3. ASSUME NEW i \in 1 .. Len(sendCh') PROVE sendCh'[i] = accepted - Len(sendCh') + i
      <3>1. i + 1 \in 1 .. Len(sendCh) /\ sendCh'[i] = sendCh[i + 1]
        BY <1>1, <2>2
      <3>2. QED
        BY <1>1, <2>2, <3>1 DEF Contiguous
    <2>4. wenv' = accepted - Len(sendCh')
      BY <1>1, <2>1, <2>2 DEF Contiguous
    <2>5. QED
      BY <2>1, <2>3, <2>4 DEF Contiguous
  <1>5. CASE Pick \/ Write \/ WriteFails
    BY <1>2, <1>5 DEF Pick, Write, WriteFails, Written, Unwritten
  <1>6. CASE HeartbeatPick \/ HeartbeatWrite \/ Dial \/ Disconnect \/ Clear \/ UNCHANGED vars
    BY <1>2, <1>6 DEF HeartbeatPick, HeartbeatWrite, Dial, Disconnect, Clear, writeVars, vars
  <1>7. ASSUME NEW s \in Senders, Retry(s) PROVE Contiguous'
    BY <1>2, <1>7 DEF Retry, writeVars
  <1>8. ASSUME NEW l \in Links, Break(l) \/ Lose(l) \/ PeerReads(l) PROVE Contiguous'
    BY <1>2, <1>8 DEF Break, Lose, PeerReads, writeVars
  <1>9. QED
    BY <1>3, <1>4, <1>5, <1>6, <1>7, <1>8 DEF Next, WriteLoop

LEMMA LossyInit == Init => Lossy!Init
  <1> SUFFICES ASSUME Init PROVE Lossy!Init
    OBVIOUS
  <1>1. \A l \in Links : ToSet(wire[l]) = {}
    <2>1. \A l \in Links : wire[l] = <<>>
      BY DEF Init
    <2>2. QED
      BY <2>1, NothingIn
  <1>2. flight = [l \in Links |-> {}]
    BY <1>1 DEF flight
  <1>3. settled = 0 /\ open = FALSE
    <2>1. accepted = 0 /\ Len(sendCh) = 0 /\ wenv = NoEnv /\ up = {}
      BY DEF Init
    <2>2. QED
      BY <2>1 DEF settled, open
  <1>4. QED
    BY <1>2, <1>3 DEF Init, Lossy!Init, Lossy!Links

\* What is in flight depends on the wires only ...
LEMMA FlightFrame ==
    ASSUME UNCHANGED wire
    PROVE  UNCHANGED flight
  BY DEF flight

\* ... and changes with the wire of one connection.
LEMMA FlightMoves ==
    ASSUME NEW l \in Links, NEW S,
           \A m \in Links : m # l => wire'[m] = wire[m],
           ToSet(wire'[l]) \ {Ping} = S
    PROVE  flight' = [flight EXCEPT ![l] = S] /\ flight[l] = ToSet(wire[l]) \ {Ping}
  BY DEF flight

\* A step that leaves envelopes where they are opens or closes a connection, or
\* neither.
LEMMA OpenStep ==
    ASSUME Mapped, UNCHANGED <<accepted, settled, flight, got>>,
           \/ UNCHANGED links /\ up' \subseteq up
           \/ links < MaxLinks /\ links' = links + 1 /\ links' \in up' /\ links \notin up
    PROVE  [Lossy!Next]_(Lossy!vars)
  <1>1. CASE UNCHANGED links /\ up' \subseteq up
    <2>1. open' = open \/ (open /\ open' = FALSE)
      BY <1>1 DEF open
    <2>2. QED
      BY <1>1, <2>1 DEF Lossy!Next, Lossy!Close, Lossy!vars
  <1>2. CASE links < MaxLinks /\ links' = links + 1 /\ links' \in up' /\ links \notin up
    BY <1>2 DEF open, Lossy!Next, Lossy!Open
  <1>3. QED
    BY <1>1, <1>2

\* settled looks at the queue and the envelope in hand.
LEMMA SettledFrame ==
    ASSUME UNCHANGED <<sendCh, accepted, wenv>>
    PROVE  UNCHANGED settled
  BY DEF settled

\* writeLoop is done with its envelope.
LEMMA SettledMoves ==
    ASSUME Mapped, wenv # NoEnv, UNCHANGED <<sendCh, accepted>>, wenv' = NoEnv
    PROVE  settled' = settled + 1 /\ settled < accepted /\ wenv = settled + 1 /\ settled \in Nat
  <1>1. Len(sendCh) \in Nat /\ accepted \in Nat /\ wenv \in Sent
    BY DEF Mapped, IInv, TypeOK
  <1>2. wenv = accepted - Len(sendCh)
    BY DEF Mapped, Contiguous
  <1>3. QED
    BY <1>1, <1>2 DEF settled

LEMMA QueueSteps ==
    ASSUME Mapped, Receive \/ \E s \in Senders : Accept(s) \/ Retry(s)
    PROVE  [Lossy!Next]_(Lossy!vars)
  <1>1. UNCHANGED <<links, up, got, wire>>
    BY DEF Receive, Accept, Retry, connectVars
  <1>2. UNCHANGED <<open, flight>>
    BY <1>1, FlightFrame DEF open
  <1>3. Len(sendCh) \in Nat /\ accepted \in Nat
    BY DEF Mapped, IInv, TypeOK
  <1>4. CASE Receive
    <2>1. sendCh # <<>> /\ sendCh' = Tail(sendCh) /\ wenv' = Head(sendCh) /\ UNCHANGED accepted
          /\ sendCh \in Seq(Sent) /\ wenv = NoEnv
      BY <1>4 DEF Receive, Mapped, IInv, TypeOK, WriterAhead
    <2>2. Len(sendCh') = Len(sendCh) - 1 /\ wenv' \in Sent
      BY <2>1
    <2>3. settled' = settled
      BY <1>3, <2>1, <2>2 DEF settled
    <2>4. QED
      BY <1>1, <1>2, <2>1, <2>3 DEF Lossy!vars
  <1>5. ASSUME NEW s \in Senders, Accept(s) PROVE Lossy!Next
    <2>1. /\ accepted < MaxSent /\ accepted' = accepted + 1 /\ UNCHANGED wenv
          /\ sendCh' = Append(sendCh, accepted + 1) /\ sendCh \in Seq(Sent) /\ accepted + 1 \in Sent
      BY <1>5 DEF Accept, writeVars, Mapped, IInv, TypeOK
    <2>2. Len(sendCh') = Len(sendCh) + 1
      BY <2>1
    <2>3. settled' = settled
      BY <1>3, <2>1, <2>2 DEF settled
    <2>4. QED
      BY <1>1, <1>2, <2>1, <2>3 DEF Lossy!Next, Lossy!Offer
  <1>6. ASSUME NEW s \in Senders, Retry(s) PROVE UNCHANGED Lossy!vars
    BY <1>1, <1>2, <1>6, SettledFrame DEF Retry, writeVars, Lossy!vars
  <1>7. QED
    BY <1>4, <1>5, <1>6

\* An envelope dropped for want of a connection.
LEMMA DropStep ==
    ASSUME Mapped, Pick
    PROVE  [Lossy!Next]_(Lossy!vars)
  <1>1. UNCHANGED <<links, up, got, wire, sendCh, accepted>> /\ writer = "pick"
    BY DEF Pick, connectVars
  <1>2. UNCHANGED <<open, flight>>
    BY <1>1, FlightFrame DEF open
  <1>3. CASE UNCHANGED wenv
    BY <1>1, <1>2, <1>3, SettledFrame DEF Lossy!vars
  <1>4. CASE Dropped /\ Written
    <2>1. wenv # NoEnv /\ wenv' = NoEnv
      BY <1>1, <1>4 DEF Written, Mapped, IInv, WriterAhead
    <2>2. settled' = settled + 1 /\ settled < accepted
      BY <1>1, <2>1, SettledMoves
    <2>3. open' = FALSE
      BY <1>2, <1>4 DEF open, Dropped, Mapped, OneOpen
    <2>4. QED
      BY <1>1, <1>2, <2>2, <2>3 DEF Lossy!Next, Lossy!GiveUp
  <1>5. QED
    BY <1>3, <1>4 DEF Pick

LEMMA CarryStep ==
    ASSUME Mapped, Write
    PROVE  Lossy!Next
  <1>1. /\ UNCHANGED <<links, up, got, sendCh, accepted>> /\ wconn \in up
        /\ wire' = [wire EXCEPT ![wconn] = Append(@, wenv)]
        /\ wenv \in Sent /\ wenv' = NoEnv /\ wconn = links /\ wconn \in Links
        /\ wire \in [Links -> Seq(Sent \cup {Ping})]
    BY DEF Write, Written, connectVars, Mapped, IInv, TypeOK, WriterAhead, OneOpen
  <1>2. settled' = settled + 1 /\ settled < accepted /\ wenv = settled + 1
    BY <1>1, SettledMoves
  <1>3. /\ wire'[wconn] = Append(wire[wconn], wenv)
        /\ \A m \in Links : m # wconn => wire'[m] = wire[m]
    BY <1>1
  <1>4. ToSet(wire'[wconn]) = ToSet(wire[wconn]) \cup {wenv}
    <2> DEFINE T == Sent \cup {Ping}
               q == wire[wconn]
    <2>1. q \in Seq(T) /\ wenv \in T
      BY <1>1
    <2> HIDE DEF T, q
    <2>2. ToSet(Append(q, wenv)) = ToSet(q) \cup {wenv}
      BY <2>1, AppendSeq
    <2>3. QED
      BY <1>3, <2>2 DEF q
  <1>5. flight' = [flight EXCEPT ![links] = flight[links] \cup {settled + 1}]
    <2>1. ToSet(wire'[wconn]) \ {Ping} = (ToSet(wire[wconn]) \ {Ping}) \cup {wenv}
      BY <1>1, <1>4
    <2>2. QED
      BY <1>1, <1>2, <1>3, <2>1, FlightMoves
  <1>6. open /\ open' = open
    BY <1>1 DEF open
  <1>7. QED
    BY <1>1, <1>2, <1>5, <1>6 DEF Lossy!Next, Lossy!Carry

\* A failed write closes the connection, unless it was an old one; then nothing
\* was written to the newest yet.
LEMMA FailStep ==
    ASSUME Mapped, WriteFails
    PROVE  Lossy!Next
  <1>1. /\ UNCHANGED <<links, got, wire, sendCh, accepted>> /\ up' = up \ {wconn}
        /\ wenv \in Sent /\ wenv' = NoEnv /\ wconn \in Links /\ wconn <= links
        /\ writer = "write" /\ links \in Nat /\ links <= MaxLinks
    BY DEF WriteFails, AfterFailure, Unwritten, Written, connectVars, Mapped, IInv, TypeOK,
           WriterAhead
  <1>2. settled' = settled + 1 /\ settled < accepted /\ settled \in Nat
    BY <1>1, SettledMoves
  <1>3. UNCHANGED flight
    BY <1>1, FlightFrame
  <1>4. CASE wconn = links
    <2>1. open' = FALSE
      BY <1>1, <1>4 DEF open
    <2>2. QED
      BY <1>1, <1>2, <1>3, <2>1 DEF Lossy!Next, Lossy!GiveUp
  <1>5. CASE wconn # links
    <2>1. open' = open /\ links \in Links
      BY <1>1, <1>5 DEF open
    <2>2. Carried(links) = {}
      BY <1>1, <1>5, <2>1 DEF Mapped, IInv, WrittenBefore
    <2>3. ToSet(wire[links]) \subseteq Sent \cup {Ping}
      BY <2>1, ElementAt DEF Mapped, IInv, TypeOK
    <2>4. flight[links] = {} /\ \A k \in 1 .. settled : <<links, k>> \notin got
      <3>1. flight[links] = ToSet(wire[links]) \ {Ping}
        BY <2>1 DEF flight
      <3>2. \A k \in Sent : k \notin ToSet(wire[links]) /\ <<links, k>> \notin got
        BY <2>2 DEF Carried
      <3>3. \A k \in 1 .. settled : k \in Sent
        BY <1>2 DEF Mapped, IInv, TypeOK
      <3>4. QED
        BY <2>3, <3>1, <3>2, <3>3
    <2>5. ~Lossy!Used(links)
      BY <2>4 DEF Lossy!Used
    <2>6. QED
      BY <1>1, <1>2, <1>3, <2>1, <2>5 DEF Lossy!Next, Lossy!GiveUp
  <1>6. QED
    BY <1>4, <1>5

LEMMA BeatStep ==
    ASSUME Mapped, HeartbeatWrite
    PROVE  [Lossy!Next]_(Lossy!vars)
  <1>1. UNCHANGED <<accepted, sendCh, wenv, got, links>> /\ hconn \in Links
    BY DEF HeartbeatWrite, connectVars, writeVars, Mapped, IInv, TypeOK
  <1>2. UNCHANGED settled
    BY <1>1, SettledFrame
  <1>3. CASE up' = AfterFailure(hconn) /\ UNCHANGED wire
    BY <1>1, <1>2, <1>3, FlightFrame, OpenStep DEF AfterFailure
  <1>4. CASE wire' = [wire EXCEPT ![hconn] = Append(@, Ping)] /\ UNCHANGED up
    <2>1. wire \in [Links -> Seq(Sent \cup {Ping})]
      BY DEF Mapped, IInv, TypeOK
    <2>2. /\ wire'[hconn] = Append(wire[hconn], Ping)
          /\ \A m \in Links : m # hconn => wire'[m] = wire[m]
      BY <1>1, <1>4, <2>1
    <2>3. ToSet(wire'[hconn]) = ToSet(wire[hconn]) \cup {Ping}
      <3> DEFINE T == Sent \cup {Ping}
                 q == wire[hconn]
      <3>1. q \in Seq(T) /\ Ping \in T
        BY <1>1, <2>1
      <3> HIDE DEF T, q, Ping
      <3>2. ToSet(Append(q, Ping)) = ToSet(q) \cup {Ping}
        BY <3>1, AppendSeq
      <3>3. QED
        BY <2>2, <3>2 DEF q
    <2>4. \A m \in Links : ToSet(wire'[m]) \ {Ping} = ToSet(wire[m]) \ {Ping}
      BY <2>2, <2>3
    <2>5. UNCHANGED flight
      BY <2>4 DEF flight
    <2>6. QED
      BY <1>1, <1>2, <1>4, <2>5, OpenStep
  <1>5. QED
    BY <1>3, <1>4 DEF HeartbeatWrite

\* A connection that breaks may lose what was on it.
LEMMA LostStep ==
    ASSUME Mapped, NEW l \in Links, Lose(l)
    PROVE  Lossy!Next
  <1>1. /\ UNCHANGED <<accepted, sendCh, wenv, got, links, up>> /\ l \notin up
        /\ wire \in [Links -> Seq(Sent \cup {Ping})] /\ wire' = [wire EXCEPT ![l] = <<>>]
    BY DEF Lose, connectVars, writeVars, Mapped, IInv, TypeOK
  <1>2. wire'[l] = <<>> /\ \A m \in Links : m # l => wire'[m] = wire[m]
    BY <1>1
  <1>3. ToSet(wire'[l]) \ {Ping} = {}
    BY <1>2, NothingIn
  <1>4. flight' = [flight EXCEPT ![l] = {}]
    BY <1>2, <1>3, FlightMoves
  <1>5. UNCHANGED <<settled, open>> /\ (l = links => ~open)
    BY <1>1, SettledFrame DEF open
  <1>6. QED
    BY <1>1, <1>4, <1>5 DEF Lossy!Next, Lossy!Lose, Lossy!Links

LEMMA ArriveStep ==
    ASSUME Mapped, NEW l \in Links, PeerReads(l)
    PROVE  [Lossy!Next]_(Lossy!vars)
  <1> DEFINE q == wire[l]
             k == Head(q)
  <1>1. /\ UNCHANGED <<accepted, sendCh, wenv, links, up>> /\ q # <<>>
        /\ wire \in [Links -> Seq(Sent \cup {Ping})] /\ wire' = [wire EXCEPT ![l] = Tail(q)]
        /\ got' = IF k = Ping THEN got ELSE got \cup {<<l, k>>}
        /\ q \in Seq(Sent \cup {Ping}) /\ Ascending(q, Sent)
    BY DEF PeerReads, connectVars, writeVars, Mapped, IInv, TypeOK, WireOrdered
  <1>2. wire'[l] = Tail(q) /\ \A m \in Links : m # l => wire'[m] = wire[m]
    BY <1>1
  <1>3. UNCHANGED <<settled, open>>
    BY <1>1, SettledFrame DEF open
  <1> HIDE DEF q
  <1>4. /\ k \in ToSet(q) /\ k \in Sent \cup {Ping} /\ ToSet(Tail(q)) \subseteq ToSet(q)
        /\ \A j \in ToSet(q) : j = k \/ j \in ToSet(Tail(q))
    BY <1>1, TailSeq
  <1>5. k \in Sent => \A j \in ToSet(Tail(q)) \cap Sent : k < j
    BY <1>1, TailAscending
  <1>6. ToSet(q) \subseteq Sent \cup {Ping}
    BY <1>1, ElementAt
  <1> HIDE DEF k
  <1>7. flight[l] = ToSet(q) \ {Ping}
    BY DEF flight, q
  <1>8. CASE k = Ping
    <2>1. ToSet(Tail(q)) \ {Ping} = ToSet(q) \ {Ping}
      BY <1>4, <1>8
    <2>2. flight' = flight
      BY <1>2, <2>1 DEF flight, q
    <2>3. QED
      BY <1>1, <1>3, <1>8, <2>2 DEF Lossy!vars
  <1>9. CASE k # Ping
    <2>1. k \in Sent /\ \A j \in ToSet(Tail(q)) \ {Ping} : j \in Nat /\ k < j
      BY <1>4, <1>5, <1>6, <1>9
    <2>2. k \notin ToSet(Tail(q))
      <3>1. ASSUME k \in ToSet(Tail(q)) PROVE FALSE
        <4>1. k \in Nat /\ k < k
          BY <1>9, <2>1, <3>1
        <4>2. QED
          BY <4>1
      <3>2. QED
        BY <3>1
    <2>3. ToSet(wire'[l]) \ {Ping} = flight[l] \ {k}
      BY <1>2, <1>4, <1>7, <2>2
    <2>4. flight' = [flight EXCEPT ![l] = flight[l] \ {k}]
      BY <1>2, <2>3, FlightMoves
    <2>5. k \in flight[l] /\ \A j \in flight[l] : k <= j
      <3>1. k \in flight[l]
        BY <1>4, <1>7, <1>9
      <3>2. ASSUME NEW j \in flight[l] PROVE k <= j
        <4>1. j \in ToSet(q) /\ j # Ping
          BY <1>7
        <4>2. j = k \/ j \in ToSet(Tail(q)) \ {Ping}
          BY <1>4, <4>1
        <4>3. k \in Nat
          BY <2>1 DEF Sent
        <4>4. QED
          BY <2>1, <4>2, <4>3
      <3>3. QED
        BY <3>1, <3>2
    <2>6. Lossy!Arrive(l)
      BY <1>1, <1>3, <1>9, <2>4, <2>5 DEF Lossy!Arrive
    <2>7. QED
      BY <2>6 DEF Lossy!Next, Lossy!Links
  <1>10. QED
    BY <1>8, <1>9

LEMMA LossyStep ==
    ASSUME Mapped, [Next]_vars
    PROVE  [Lossy!Next]_(Lossy!vars)
  <1>1. CASE UNCHANGED vars
    BY <1>1, FlightFrame, SettledFrame DEF vars, open, Lossy!vars
  <1>2. CASE Dial \/ Disconnect \/ Clear \/ HeartbeatPick \/ \E l \in Links : Break(l)
    <2>1. UNCHANGED <<accepted, sendCh, wenv, got, wire>>
      BY <1>2 DEF Dial, Disconnect, Clear, HeartbeatPick, Break, writeVars
    <2>2. UNCHANGED <<settled, flight>>
      BY <2>1, FlightFrame, SettledFrame
    <2>3. \/ UNCHANGED links /\ up' \subseteq up
          \/ links < MaxLinks /\ links' = links + 1 /\ links' \in up' /\ links \notin up
      BY <1>2 DEF Dial, Disconnect, Clear, HeartbeatPick, Break, connectVars, Mapped, OneOpen
    <2>4. QED
      BY <2>1, <2>2, <2>3, OpenStep
  <1>3. ASSUME NEW l \in Links, Lose(l) \/ PeerReads(l) PROVE [Lossy!Next]_(Lossy!vars)
    BY <1>3, LostStep, ArriveStep
  <1>4. QED
    BY <1>1, <1>2, <1>3, QueueSteps, DropStep, CarryStep, FailStep, BeatStep DEF Next, WriteLoop

\* remoteClient and GameRouter keep what LossyLinks promises: whatever breaks and
\* whenever it is noticed, no envelope travels twice, and one is given up only with
\* its connection, for want of one, or before the newest has carried anything.
THEOREM LinkImplementsLossy == Spec => LossySpec
  <1>1. Init => OneOpen /\ Contiguous
    BY OneOpenInit
  <1>2. IInv /\ IInv' /\ OneOpen /\ Contiguous /\ [Next]_vars => OneOpen' /\ Contiguous'
    BY OneOpenStep, ContiguousStep
  <1>3. IInv /\ OneOpen /\ Contiguous /\ [Next]_vars => [Lossy!Next]_(Lossy!vars)
    BY LossyStep DEF Mapped
  <1>4. QED
    BY <1>1, <1>2, <1>3, InvariantHolds, LossyInit, PTL DEF Spec, LossySpec, Lossy!Spec
=============================================================================
