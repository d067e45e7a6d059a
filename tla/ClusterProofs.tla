---------------------------- MODULE ClusterProofs ----------------------------
(***************************************************************************)
(* Gate, service and game server agree on whose session is whose, for any  *)
(* number of players, sessions, links, runs and faults.                    *)
(***************************************************************************)
EXTENDS Cluster, TLAPS

(* Queues: what Append and Tail leave in them, and what stays behind what.    *)

\* There is an element of B in q; after an element of A there is one of B.
Holds(q, B) == \E i \in 1 .. Len(q) : q[i] \in B
Followed(q, A, B) ==
    \A i \in 1 .. Len(q) : q[i] \in A => \E j \in 1 .. Len(q) : i < j /\ q[j] \in B

LEMMA ElementAt ==
    ASSUME NEW S, NEW q \in Seq(S)
    PROVE  /\ ToSet(q) = {q[i] : i \in 1 .. Len(q)}
           /\ ToSet(q) \subseteq S
  BY DEF ToSet

LEMMA NothingHeld ==
    ASSUME NEW q, q = <<>>
    PROVE  \A A, B : ~Holds(q, B) /\ Followed(q, A, B)
  <1>1. Len(q) = 0
    OBVIOUS
  <1>2. QED
    BY <1>1 DEF Holds, Followed

LEMMA HeldIsIn ==
    ASSUME NEW S, NEW q \in Seq(S), NEW B
    PROVE  Holds(q, B) <=> \E e \in ToSet(q) : e \in B
  BY ElementAt DEF Holds

LEMMA NoneFollowed ==
    ASSUME NEW q, NEW A, NEW B, ~Holds(q, A)
    PROVE  Followed(q, A, B)
  BY DEF Holds, Followed

LEMMA HoldsAppend ==
    ASSUME NEW S, NEW q \in Seq(S), NEW e \in S, NEW B
    PROVE  Holds(Append(q, e), B) <=> Holds(q, B) \/ e \in B
  <1>1. /\ Len(q) \in Nat /\ Len(Append(q, e)) = Len(q) + 1
        /\ \A i \in 1 .. Len(q) : Append(q, e)[i] = q[i]
        /\ Append(q, e)[Len(q) + 1] = e
    OBVIOUS
  <1>2. QED
    BY <1>1 DEF Holds

LEMMA HoldsTail ==
    ASSUME NEW S, NEW q \in Seq(S), q # <<>>, NEW B
    PROVE  Holds(q, B) <=> Head(q) \in B \/ Holds(Tail(q), B)
  <1>1. /\ Len(q) \in Nat \ {0} /\ Len(Tail(q)) = Len(q) - 1 /\ Head(q) = q[1]
        /\ \A i \in 1 .. Len(q) - 1 : Tail(q)[i] = q[i + 1]
    OBVIOUS
  <1>2. ASSUME NEW i \in 1 .. Len(q), q[i] \in B PROVE Head(q) \in B \/ Holds(Tail(q), B)
    <2>1. CASE i = 1
      BY <1>1, <1>2, <2>1
    <2>2. CASE i # 1
      <3>1. i - 1 \in 1 .. Len(Tail(q)) /\ Tail(q)[i - 1] = q[i]
        BY <1>1, <2>2
      <3>2. QED
        BY <1>2, <3>1 DEF Holds
    <2>3. QED
      BY <2>1, <2>2
  <1>3. Head(q) \in B => Holds(q, B)
    BY <1>1 DEF Holds
  <1>4. ASSUME NEW i \in 1 .. Len(Tail(q)), Tail(q)[i] \in B PROVE Holds(q, B)
    <2>1. i + 1 \in 1 .. Len(q) /\ q[i + 1] \in B
      BY <1>1, <1>4
    <2>2. QED
      BY <2>1 DEF Holds
  <1>5. QED
    BY <1>2, <1>3, <1>4 DEF Holds

\* What Append adds to a sequence, and what is left of one without its head.
LEMMA NothingIn ==
    ASSUME NEW q, q = <<>>
    PROVE  \A k : k \notin ToSet(q)
  <1>1. DOMAIN q = {}
    OBVIOUS
  <1>2. QED
    BY <1>1 DEF ToSet

LEMMA AppendSeq ==
    ASSUME NEW S, NEW q \in Seq(S), NEW e \in S
    PROVE  Append(q, e) \in Seq(S) /\ ToSet(Append(q, e)) = ToSet(q) \cup {e}
  <1>1. Append(q, e) \in Seq(S)
    OBVIOUS
  <1>2. ASSUME NEW k PROVE k \in ToSet(Append(q, e)) <=> k \in ToSet(q) \/ k \in {e}
    <2>1. k \in ToSet(Append(q, e)) <=> Holds(Append(q, e), {k})
      <3>1. Holds(Append(q, e), {k}) <=> \E i \in ToSet(Append(q, e)) : i \in {k}
        BY <1>1, HeldIsIn
      <3>2. QED
        BY <3>1
    <2>2. k \in ToSet(q) <=> Holds(q, {k})
      BY HeldIsIn
    <2>3. Holds(Append(q, e), {k}) <=> Holds(q, {k}) \/ e \in {k}
      BY HoldsAppend
    <2>4. QED
      BY <2>1, <2>2, <2>3
  <1>3. QED
    BY <1>1, <1>2

LEMMA TailSeq ==
    ASSUME NEW S, NEW q \in Seq(S), q # <<>>
    PROVE  /\ Tail(q) \in Seq(S) /\ Head(q) \in ToSet(q) /\ Head(q) \in S
           /\ ToSet(Tail(q)) \subseteq ToSet(q)
           /\ \A k \in ToSet(q) : k = Head(q) \/ k \in ToSet(Tail(q))
  <1>1. Tail(q) \in Seq(S) /\ Head(q) \in S
    OBVIOUS
  <1>2. ASSUME NEW k PROVE k \in ToSet(q) <=> k = Head(q) \/ k \in ToSet(Tail(q))
    <2>1. k \in ToSet(Tail(q)) <=> Holds(Tail(q), {k})
      <3>1. Holds(Tail(q), {k}) <=> \E i \in ToSet(Tail(q)) : i \in {k}
        BY <1>1, HeldIsIn
      <3>2. QED
        BY <3>1
    <2>2. k \in ToSet(q) <=> Holds(q, {k})
      BY HeldIsIn
    <2>3. Holds(q, {k}) <=> Head(q) \in {k} \/ Holds(Tail(q), {k})
      BY HoldsTail
    <2>4. QED
      BY <2>1, <2>2, <2>3
  <1>3. QED
    BY <1>1, <1>2

\* An element of B may be appended, and one that is not of A.
LEMMA FollowedAppend ==
    ASSUME NEW S, NEW q \in Seq(S), NEW e \in S, NEW A, NEW B,
           e \notin A, Followed(q, A, B) \/ e \in B
    PROVE  Followed(Append(q, e), A, B)
  <1>1. /\ Len(q) \in Nat /\ Len(Append(q, e)) = Len(q) + 1
        /\ \A i \in 1 .. Len(q) : Append(q, e)[i] = q[i]
        /\ Append(q, e)[Len(q) + 1] = e
    OBVIOUS
  <1>2. SUFFICES ASSUME NEW i \in 1 .. Len(Append(q, e)), Append(q, e)[i] \in A
                 PROVE  \E j \in 1 .. Len(Append(q, e)) : i < j /\ Append(q, e)[j] \in B
    BY DEF Followed
  <1>3. i \in 1 .. Len(q) /\ q[i] \in A
    BY <1>1, <1>2
  <1>4. CASE e \in B
    <2>1. Len(q) + 1 \in 1 .. Len(Append(q, e)) /\ i < Len(q) + 1
      BY <1>1, <1>3
    <2>2. QED
      BY <1>1, <1>4, <2>1
  <1>5. CASE Followed(q, A, B)
    <2>1. PICK j \in 1 .. Len(q) : i < j /\ q[j] \in B
      BY <1>3, <1>5 DEF Followed
    <2>2. QED
      BY <1>1, <2>1
  <1>6. QED
    BY <1>4, <1>5

LEMMA FollowedTail ==
    ASSUME NEW S, NEW q \in Seq(S), q # <<>>, NEW A, NEW B, Followed(q, A, B)
    PROVE  Followed(Tail(q), A, B) /\ (Head(q) \in A => Holds(Tail(q), B))
  <1>1. /\ Len(q) \in Nat \ {0} /\ Len(Tail(q)) = Len(q) - 1 /\ Head(q) = q[1]
        /\ \A i \in 1 .. Len(q) - 1 : Tail(q)[i] = q[i + 1]
    OBVIOUS
  <1>2. ASSUME NEW i \in 1 .. Len(q), q[i] \in A
        PROVE  \E j \in 1 .. Len(Tail(q)) : i <= j /\ Tail(q)[j] \in B
    <2>1. PICK j \in 1 .. Len(q) : i < j /\ q[j] \in B
      BY <1>2 DEF Followed
    <2>2. j - 1 \in 1 .. Len(Tail(q)) /\ i <= j - 1 /\ Tail(q)[j - 1] = q[j]
      BY <1>1, <2>1
    <2>3. QED
      BY <2>1, <2>2
  <1>3. ASSUME NEW i \in 1 .. Len(Tail(q)), Tail(q)[i] \in A
        PROVE  \E j \in 1 .. Len(Tail(q)) : i < j /\ Tail(q)[j] \in B
    <2>1. i + 1 \in 1 .. Len(q) /\ q[i + 1] \in A
      BY <1>1, <1>3
    <2>2. PICK j \in 1 .. Len(Tail(q)) : i + 1 <= j /\ Tail(q)[j] \in B
      BY <1>2, <2>1
    <2>3. QED
      BY <2>2
  <1>4. Head(q) \in A => Holds(Tail(q), B)
    <2>1. 1 \in 1 .. Len(q)
      BY <1>1
    <2>2. QED
      BY <1>1, <1>2, <2>1 DEF Holds
  <1>5. QED
    BY <1>3, <1>4 DEF Followed

-----------------------------------------------------------------------------
\* What leaves queue u enters queue g: some of B is on its way, and behind
\* everything of A there is some of B.
Within(u, g, B) == Holds(u, B) \/ Holds(g, B)
Behind(u, g, A, B) == Followed(u, A, B) /\ (Holds(u, B) \/ Followed(g, A, B))

\* The first of u moves to g.
LEMMA WithinMoved ==
    ASSUME NEW S, NEW T, NEW u \in Seq(S), NEW g \in Seq(T), u # <<>>, Head(u) \in T, NEW B,
           Within(u, g, B)
    PROVE  Within(Tail(u), Append(g, Head(u)), B)
  <1>1. Holds(u, B) => Head(u) \in B \/ Holds(Tail(u), B)
    BY HoldsTail
  <1>2. Holds(Append(g, Head(u)), B) <=> Holds(g, B) \/ Head(u) \in B
    BY HoldsAppend
  <1>3. QED
    BY <1>1, <1>2 DEF Within

LEMMA BehindMoved ==
    ASSUME NEW S, NEW T, NEW u \in Seq(S), NEW g \in Seq(T), u # <<>>, Head(u) \in T,
           NEW A, NEW B, Behind(u, g, A, B)
    PROVE  Behind(Tail(u), Append(g, Head(u)), A, B)
  <1>1. Holds(u, B) => Head(u) \in B \/ Holds(Tail(u), B)
    BY HoldsTail
  <1>2. Followed(Tail(u), A, B) /\ (Head(u) \in A => Holds(Tail(u), B))
    BY FollowedTail DEF Behind
  <1>3. CASE Holds(Tail(u), B)
    BY <1>2, <1>3 DEF Behind
  <1>4. CASE ~Holds(Tail(u), B)
    <2>1. Head(u) \notin A /\ (Followed(g, A, B) \/ Head(u) \in B)
      BY <1>1, <1>2, <1>4 DEF Behind
    <2>2. Followed(Append(g, Head(u)), A, B)
      BY <2>1, FollowedAppend
    <2>3. QED
      BY <1>2, <2>2 DEF Behind
  <1>5. QED
    BY <1>3, <1>4

\* The first of u, not of B, leaves it and goes elsewhere.
LEMMA WithinTaken ==
    ASSUME NEW S, NEW u \in Seq(S), NEW g, u # <<>>, NEW B, Head(u) \notin B
    PROVE  /\ Holds(u, B) => Holds(Tail(u), B)
           /\ Within(u, g, B) => Within(Tail(u), g, B)
  BY HoldsTail DEF Within

LEMMA BehindTaken ==
    ASSUME NEW S, NEW u \in Seq(S), NEW g, u # <<>>, NEW A, NEW B, Head(u) \notin B,
           Behind(u, g, A, B)
    PROVE  Behind(Tail(u), g, A, B) /\ (Head(u) \in A => Holds(Tail(u), B))
  <1>1. Holds(u, B) => Holds(Tail(u), B)
    BY HoldsTail
  <1>2. Followed(Tail(u), A, B) /\ (Head(u) \in A => Holds(Tail(u), B))
    BY FollowedTail DEF Behind
  <1>3. QED
    BY <1>1, <1>2 DEF Behind

\* The first of g leaves it.
LEMMA WithinRead ==
    ASSUME NEW T, NEW u, NEW g \in Seq(T), g # <<>>, NEW B
    PROVE  /\ Holds(g, B) => Head(g) \in B \/ Holds(Tail(g), B)
           /\ Within(u, g, B) => Head(g) \in B \/ Within(u, Tail(g), B)
  BY HoldsTail DEF Within

LEMMA BehindRead ==
    ASSUME NEW T, NEW u, NEW g \in Seq(T), g # <<>>, NEW A, NEW B, Behind(u, g, A, B)
    PROVE  Behind(u, Tail(g), A, B) /\ (Head(g) \in A => Within(u, Tail(g), B))
  <1>1. Followed(g, A, B) => Followed(Tail(g), A, B) /\ (Head(g) \in A => Holds(Tail(g), B))
    BY FollowedTail
  <1>2. QED
    BY <1>1 DEF Behind, Within

\* Something enters u: of B, or not of A.
LEMMA WithinSent ==
    ASSUME NEW S, NEW u \in Seq(S), NEW g, NEW e \in S, NEW B
    PROVE  /\ Within(u, g, B) \/ e \in B => Within(Append(u, e), g, B)
           /\ Holds(u, B) \/ e \in B => Holds(Append(u, e), B)
  BY HoldsAppend DEF Within

LEMMA BehindSent ==
    ASSUME NEW S, NEW u \in Seq(S), NEW g, NEW e \in S, NEW A, NEW B,
           e \notin A, Behind(u, g, A, B) \/ e \in B
    PROVE  Behind(Append(u, e), g, A, B)
  <1>1. Holds(Append(u, e), B) <=> Holds(u, B) \/ e \in B
    BY HoldsAppend
  <1>2. Followed(u, A, B) \/ e \in B => Followed(Append(u, e), A, B)
    BY FollowedAppend
  <1>3. QED
    BY <1>1, <1>2 DEF Behind

\* Something enters g from elsewhere.
LEMMA WithinJoined ==
    ASSUME NEW T, NEW u, NEW g \in Seq(T), NEW e \in T, NEW B
    PROVE  /\ Within(u, g, B) \/ e \in B => Within(u, Append(g, e), B)
           /\ Holds(g, B) \/ e \in B => Holds(Append(g, e), B)
  BY HoldsAppend DEF Within

LEMMA BehindJoined ==
    ASSUME NEW T, NEW u, NEW g \in Seq(T), NEW e \in T, NEW A, NEW B,
           Behind(u, g, A, B), e \notin A \/ Holds(u, B)
    PROVE  Behind(u, Append(g, e), A, B)
  <1>1. e \notin A /\ Followed(g, A, B) => Followed(Append(g, e), A, B)
    BY FollowedAppend
  <1>2. QED
    BY <1>1 DEF Behind

-----------------------------------------------------------------------------
PlayerIds == Players \cup {NoPlayer}
States == {"Init", "Online", "Authing", "Authenticated", "Offline", "Closed"}
Notices == [kind : {"offline", "present"}, session : Sessions, player : PlayerIds]
Logins == [kind : {"login"}, session : Sessions, player : {NoPlayer}, account : Players]
Answers == [session : Sessions, player : Players]
Sent == Notices \cup Logins

\* Every variable keeps the range its Go type and the protocol give it.
Types ==
    /\ run \in 1 .. MaxRuns /\ nextID \in 0 .. MaxSession
    /\ byPlayer \in [Players -> Sessions \cup {NoSession}]
    /\ state \in [Sessions -> States] /\ attached \in [Sessions -> BOOLEAN]
    /\ playerID \in [Sessions -> PlayerIds] /\ account \in [Sessions -> PlayerIds]
    /\ reads \in [Sessions -> Nat]
    /\ up \in [Links -> Seq(Sent)] /\ down \in [Links -> Seq(Answers)]
    /\ login \in [Links -> Logins \cup {NoLogin}]
    /\ sessionGate \in [Sessions -> Links \cup {NoLink}]
    /\ toGame \in Seq(Notices)
    /\ pstate \in [PlayerIds -> {"none", "Active", "Offline"}]
    /\ psid \in [PlayerIds -> Sessions \cup {NoSession}]
    /\ entry \in [Sessions -> PlayerIds]
    /\ lost \in Nat /\ stale \subseteq Sessions

\* A session has the account of its first LoginReq, and a player once an answer
\* has made it Authenticated.
SessionsOwned ==
    \A s \in Sessions :
        /\ IF s <= nextID THEN account[s] \in Players
           ELSE state[s] = "Init" /\ reads[s] = 0 /\ ~attached[s] /\ playerID[s] = NoPlayer
                /\ account[s] = NoPlayer
        /\ state[s] \in {"Init", "Online", "Authing"} => playerID[s] = NoPlayer

\* A login and its answer are of the account whose session they name, but for
\* those of an earlier run.
Owned(s, p) == s \notin stale => s <= nextID /\ p = account[s]

LoginsOwned ==
    /\ \A l \in Links : \A m \in ToSet(up[l]) \cap Logins : Owned(m.session, m.account)
    /\ \A l \in Links : login[l] # NoLogin => Owned(login[l].session, login[l].account)
    /\ \A l \in Links : \A a \in ToSet(down[l]) : Owned(a.session, a.player)

\* A notice is of a session in use and names its player or none; an offline
\* notice is sent for a session with a player.
NoticeOwned(m) ==
    /\ m.session <= nextID
    /\ m.player \in {NoPlayer, account[m.session]}
    /\ m.kind = "offline" => m.player # NoPlayer /\ playerID[m.session] # NoPlayer

\* In the first run of the gate, notices and entries are of their senders, and
\* what a session sends is on its link.
FirstRun ==
    run = 1 =>
        /\ stale = {}
        /\ \A m \in ToSet(toGame) : NoticeOwned(m)
        /\ \A l \in Links : \A m \in ToSet(up[l]) :
              (m \in Notices => NoticeOwned(m)) /\ l = LinkOf(m.session)
        /\ \A l \in Links : login[l] # NoLogin => l = LinkOf(login[l].session)
        /\ \A s \in Sessions : entry[s] \in {NoPlayer, account[s]}

IInv == Types /\ SessionsOwned /\ LoginsOwned /\ BoundToOwn /\ FirstRun


USE ClusterAssumption

-----------------------------------------------------------------------------
(* Messages and queues.                                                    *)

LEMMA LinkType ==
    ASSUME NEW s \in Sessions, run \in 1 .. MaxRuns
    PROVE  LinkOf(s) \in Links
  <1>1. s \in Nat /\ s % PoolSize \in 0 .. PoolSize - 1
    BY DEF Sessions
  <1>2. QED
    BY <1>1 DEF LinkOf, Links

LEMMA MessageType ==
    ASSUME NEW kind \in {"offline", "present"}, NEW s \in Sessions, NEW p \in PlayerIds
    PROVE  /\ Message(kind, s, p) \in Notices /\ Message(kind, s, p) \notin Logins
           /\ Message(kind, s, p).kind = kind /\ Message(kind, s, p).session = s
           /\ Message(kind, s, p).player = p
  BY DEF Message, Notices, Logins

LEMMA LoginType ==
    ASSUME NEW s \in Sessions, NEW p \in Players
    PROVE  /\ LoginReq(s, p) \in Logins /\ LoginReq(s, p) \notin Notices
           /\ LoginReq(s, p).kind = "login" /\ LoginReq(s, p).session = s
           /\ LoginReq(s, p).account = p /\ LoginReq(s, p) # NoLogin
  BY DEF LoginReq, Notices, Logins, NoLogin, NoSession, Sessions

\* A message sent by a gate is a notice or a login.
LEMMA SentParts ==
    ASSUME NEW m \in Sent
    PROVE  /\ m.session \in Sessions
           /\ m.kind = "login" => m \in Logins /\ m \notin Notices /\ m.account \in Players
           /\ m.kind # "login" => m \in Notices /\ m \notin Logins
           /\ m \in Logins => m.kind = "login"
           /\ m \in Notices => m.kind \in {"offline", "present"} /\ m.player \in PlayerIds
  BY DEF Sent, Notices, Logins

LEMMA LoginParts ==
    ASSUME NEW m \in Logins \cup {NoLogin}
    PROVE  /\ m # NoLogin => m.session \in Sessions /\ m.account \in Players
           /\ m.session \in Sessions \cup {NoSession}
  BY DEF Logins, NoLogin, LoginReq

\* A session adds m to its link.
Adds(s, m) == up' = [up EXCEPT ![LinkOf(s)] = Append(@, m)]

LEMMA AddUp ==
    ASSUME Types, NEW s \in Sessions, NEW m \in Sent, Adds(s, m)
    PROVE  /\ up' \in [Links -> Seq(Sent)]
           /\ up'[LinkOf(s)] = Append(up[LinkOf(s)], m)
           /\ \A l \in Links : l # LinkOf(s) => up'[l] = up[l]
           /\ \A l \in Links : \A n \in ToSet(up'[l]) : n \in ToSet(up[l]) \/ (n = m /\ l = LinkOf(s))
  <1> DEFINE k == LinkOf(s)
             q == up[k]
  <1>1. k \in Links /\ up \in [Links -> Seq(Sent)] /\ up' = [up EXCEPT ![k] = Append(q, m)]
    BY LinkType DEF Types, Adds
  <1>2. q \in Seq(Sent)
    BY <1>1
  <1> HIDE DEF k, q
  <1>3. Append(q, m) \in Seq(Sent) /\ ToSet(Append(q, m)) = ToSet(q) \cup {m}
    BY <1>2, AppendSeq
  <1>4. /\ up' \in [Links -> Seq(Sent)] /\ up'[k] = Append(q, m)
        /\ \A l \in Links : l # k => up'[l] = up[l]
    BY <1>1, <1>3
  <1>5. ASSUME NEW l \in Links, NEW n \in ToSet(up'[l]) PROVE n \in ToSet(up[l]) \/ (n = m /\ l = k)
    <2>1. CASE l = k
      BY <1>3, <1>4, <1>5, <2>1 DEF q
    <2>2. CASE l # k
      BY <1>4, <1>5, <2>2
    <2>3. QED
      BY <2>1, <2>2
  <1>6. QED
    BY <1>4, <1>5 DEF k, q

\* The oldest message leaves a link.
LEMMA TakeUp ==
    ASSUME Types, NEW l \in Links, up[l] # <<>>, up' = [up EXCEPT ![l] = Tail(@)]
    PROVE  /\ up' \in [Links -> Seq(Sent)] /\ Head(up[l]) \in ToSet(up[l]) /\ Head(up[l]) \in Sent
           /\ up'[l] = Tail(up[l]) /\ \A k \in Links : k # l => up'[k] = up[k]
           /\ \A k \in Links : ToSet(up'[k]) \subseteq ToSet(up[k])
  <1> DEFINE q == up[l]
  <1>1. /\ up \in [Links -> Seq(Sent)] /\ up' = [up EXCEPT ![l] = Tail(q)]
        /\ q \in Seq(Sent) /\ q # <<>>
    BY DEF Types
  <1> HIDE DEF q
  <1>2. /\ Tail(q) \in Seq(Sent) /\ Head(q) \in ToSet(q) /\ Head(q) \in Sent
        /\ ToSet(Tail(q)) \subseteq ToSet(q)
    BY <1>1, TailSeq
  <1>3. /\ up' \in [Links -> Seq(Sent)] /\ up'[l] = Tail(q)
        /\ \A k \in Links : k # l => up'[k] = up[k]
    BY <1>1, <1>2
  <1>4. \A k \in Links : ToSet(up'[k]) \subseteq ToSet(up[k])
    BY <1>2, <1>3 DEF q
  <1>5. QED
    BY <1>2, <1>3, <1>4 DEF q

LEMMA TakeDown ==
    ASSUME Types, NEW l \in Links, down[l] # <<>>, down' = [down EXCEPT ![l] = Tail(@)]
    PROVE  /\ down' \in [Links -> Seq(Answers)]
           /\ Head(down[l]) \in ToSet(down[l]) /\ Head(down[l]) \in Answers
           /\ \A k \in Links : ToSet(down'[k]) \subseteq ToSet(down[k])
  <1> DEFINE q == down[l]
  <1>1. /\ down \in [Links -> Seq(Answers)] /\ down' = [down EXCEPT ![l] = Tail(q)]
        /\ q \in Seq(Answers) /\ q # <<>>
    BY DEF Types
  <1> HIDE DEF q
  <1>2. /\ Tail(q) \in Seq(Answers) /\ Head(q) \in ToSet(q) /\ Head(q) \in Answers
        /\ ToSet(Tail(q)) \subseteq ToSet(q)
    BY <1>1, TailSeq
  <1>3. /\ down' \in [Links -> Seq(Answers)] /\ down'[l] = Tail(q)
        /\ \A k \in Links : k # l => down'[k] = down[k]
    BY <1>1, <1>2
  <1>4. \A k \in Links : ToSet(down'[k]) \subseteq ToSet(down[k])
    BY <1>2, <1>3 DEF q
  <1>5. QED
    BY <1>2, <1>3, <1>4 DEF q

\* An answer is added to a link back.
LEMMA AddDown ==
    ASSUME Types, NEW l \in Links, NEW a \in Answers, down' = [down EXCEPT ![l] = Append(@, a)]
    PROVE  /\ down' \in [Links -> Seq(Answers)]
           /\ \A k \in Links : \A b \in ToSet(down'[k]) : b \in ToSet(down[k]) \/ b = a
  <1> DEFINE q == down[l]
  <1>1. /\ down \in [Links -> Seq(Answers)] /\ down' = [down EXCEPT ![l] = Append(q, a)]
        /\ q \in Seq(Answers)
    BY DEF Types
  <1> HIDE DEF q
  <1>2. Append(q, a) \in Seq(Answers) /\ ToSet(Append(q, a)) = ToSet(q) \cup {a}
    BY <1>1, AppendSeq
  <1>3. /\ down' \in [Links -> Seq(Answers)] /\ down'[l] = Append(q, a)
        /\ \A k \in Links : k # l => down'[k] = down[k]
    BY <1>1, <1>2
  <1>4. \A k \in Links : \A b \in ToSet(down'[k]) : b \in ToSet(down[k]) \/ b = a
    BY <1>2, <1>3 DEF q
  <1>5. QED
    BY <1>3, <1>4

LEMMA ToGameTail ==
    ASSUME Types, toGame # <<>>
    PROVE  /\ Tail(toGame) \in Seq(Notices) /\ Head(toGame) \in ToSet(toGame)
           /\ Head(toGame) \in Notices /\ ToSet(Tail(toGame)) \subseteq ToSet(toGame)
  BY TailSeq DEF Types

LEMMA ToGameAppend ==
    ASSUME Types, NEW m \in Notices
    PROVE  /\ Append(toGame, m) \in Seq(Notices)
           /\ ToSet(Append(toGame, m)) = ToSet(toGame) \cup {m}
  BY AppendSeq DEF Types

-----------------------------------------------------------------------------
(* The gate.                                                               *)

\* What a session sends is rightly its own.
Rightly(m) ==
    /\ m \in Logins => Owned(m.session, m.account)
    /\ m \in Notices /\ run = 1 => NoticeOwned(m)

\* What every handler of the gate leaves alone, and keeps of sessions in use.
GateGrows ==
    /\ UNCHANGED <<run, login, sessionGate, toGame, pstate, psid, entry, lost, stale>>
    /\ nextID <= nextID'
    /\ \A s \in Sessions : s <= nextID =>
          account'[s] = account[s] /\ (playerID[s] # NoPlayer => playerID'[s] # NoPlayer)
    /\ \A l \in Links : ToSet(down'[l]) \subseteq ToSet(down[l])

GateSends(m) == m \in Sent /\ Adds(m.session, m) /\ Rightly(m)'

LEMMA SentType == Notices \subseteq Sent /\ Logins \subseteq Sent
  BY DEF Sent

LEMMA RightlyKept ==
    ASSUME Types, Types', GateGrows, NEW m \in Sent, Rightly(m)
    PROVE  Rightly(m)'
  <1>1. m.session \in Sessions /\ stale' = stale /\ run' = run
    BY SentParts DEF GateGrows
  <1>2. m.session <= nextID =>
            /\ m.session <= nextID' /\ account'[m.session] = account[m.session]
            /\ playerID[m.session] # NoPlayer => playerID'[m.session] # NoPlayer
    <2>1. nextID \in Nat /\ nextID' \in Nat /\ m.session \in Nat
      BY <1>1 DEF Types, Sessions
    <2>2. QED
      BY <1>1, <2>1 DEF GateGrows
  <1>3. m \in Logins => Owned(m.session, m.account)'
    BY <1>1, <1>2 DEF Rightly, Owned
  <1>4. m \in Notices /\ run = 1 => NoticeOwned(m)'
    BY <1>1, <1>2 DEF Rightly, NoticeOwned
  <1>5. QED
    BY <1>1, <1>3, <1>4 DEF Rightly

\* Messages and answers stay their sessions' own when the gate handles something.
LEMMA GateKeeps ==
    ASSUME IInv, Types', GateGrows, UNCHANGED up \/ \E m \in Sent : GateSends(m)
    PROVE  LoginsOwned' /\ FirstRun'
  <1>1. ASSUME NEW s \in Sessions, NEW p, Owned(s, p) PROVE Owned(s, p)'
    <2>1. nextID \in Nat /\ nextID' \in Nat /\ s \in Nat
      BY DEF IInv, Types, Sessions
    <2>2. QED
      BY <1>1, <2>1 DEF Owned, GateGrows
  <1>2. ASSUME NEW l \in Links, NEW m \in ToSet(up'[l])
        PROVE  m \in Sent /\ Rightly(m)' /\ (run = 1 => l = LinkOf(m.session))
    <2>1. ASSUME m \in ToSet(up[l]) PROVE m \in Sent /\ Rightly(m)' /\ (run = 1 => l = LinkOf(m.session))
      <3>1. m \in Sent
        BY <2>1, ElementAt DEF IInv, Types
      <3>2. Rightly(m)
        BY <2>1 DEF IInv, LoginsOwned, FirstRun, Rightly
      <3>3. QED
        BY <2>1, <3>1, <3>2, RightlyKept DEF IInv, FirstRun
    <2>2. ASSUME NEW n \in Sent, GateSends(n), m \notin ToSet(up[l])
          PROVE  m \in Sent /\ Rightly(m)' /\ l = LinkOf(m.session)
      <3>1. n.session \in Sessions
        BY SentParts
      <3>2. m = n /\ l = LinkOf(n.session)
        BY <1>2, <2>2, <3>1, AddUp DEF IInv, GateSends
      <3>3. QED
        BY <2>2, <3>2 DEF GateSends
    <2>3. QED
      BY <1>2, <2>1, <2>2
  <1>3. ASSUME NEW l \in Links, login'[l] # NoLogin
        PROVE  Owned(login[l].session, login[l].account)'
    <2>1. login' = login /\ login[l] \in Logins \cup {NoLogin}
      BY DEF IInv, Types, GateGrows
    <2>2. PICK m \in Logins : m = login[l] /\ m = login'[l] /\ m.session \in Sessions
      BY <1>3, <2>1, LoginParts
    <2>3. Owned(m.session, m.account)'
      BY <1>1, <1>3, <2>1, <2>2 DEF IInv, LoginsOwned
    <2>4. QED
      BY <2>2, <2>3
  <1>4. ASSUME NEW l \in Links, NEW a \in ToSet(down'[l]) PROVE Owned(a.session, a.player)'
    <2>1. a \in ToSet(down[l]) /\ a \in Answers
      BY <1>4, ElementAt DEF IInv, Types, GateGrows
    <2>2. QED
      BY <1>1, <2>1 DEF IInv, LoginsOwned, Answers
  <1>5. LoginsOwned'
    BY <1>2, <1>3, <1>4 DEF LoginsOwned, Rightly
  <1>6. ASSUME run = 1
        PROVE  /\ stale' = {} /\ \A m \in ToSet(toGame') : NoticeOwned(m)'
               /\ \A l \in Links : login'[l] # NoLogin => l = LinkOf(login[l].session)'
               /\ \A s \in Sessions : entry'[s] \in {NoPlayer, account'[s]}
    <2>1. stale' = {} /\ run' = run
      BY <1>6 DEF IInv, FirstRun, GateGrows
    <2>2. ASSUME NEW m \in ToSet(toGame') PROVE NoticeOwned(m)'
      <3>1. m \in ToSet(toGame) /\ m \in Notices
        BY <2>2, ElementAt DEF IInv, Types, GateGrows
      <3>2. m \in Sent /\ m \notin Logins
        BY <3>1, SentType, SentParts DEF Notices
      <3>3. Rightly(m)
        BY <1>6, <3>1, <3>2 DEF IInv, FirstRun, Rightly
      <3>4. QED
        BY <1>6, <2>1, <3>1, <3>2, <3>3, RightlyKept DEF IInv, Rightly
    <2>3. \A l \in Links : login'[l] # NoLogin => l = LinkOf(login[l].session)'
      BY <1>6, <2>1 DEF IInv, FirstRun, GateGrows, LinkOf
    <2>4. ASSUME NEW s \in Sessions PROVE entry'[s] \in {NoPlayer, account'[s]}
      <3>1. entry'[s] = entry[s] /\ entry[s] \in {NoPlayer, account[s]}
        BY <1>6 DEF IInv, FirstRun, GateGrows
      <3>2. CASE s <= nextID
        BY <3>1, <3>2 DEF GateGrows
      <3>3. CASE ~(s <= nextID)
        BY <3>1, <3>3 DEF IInv, SessionsOwned
      <3>4. QED
        BY <3>2, <3>3
    <2>5. QED
      BY <2>1, <2>2, <2>3, <2>4
  <1>7. FirstRun'
    <2>1. run' = run
      BY DEF GateGrows
    <2>2. ASSUME run = 1, NEW l \in Links, NEW m \in ToSet(up'[l])
          PROVE  (m \in Notices => NoticeOwned(m)') /\ l = LinkOf(m.session)'
      BY <1>2, <2>1, <2>2 DEF Rightly, LinkOf
    <2>3. QED
      BY <1>6, <2>1, <2>2 DEF FirstRun
  <1>8. QED
    BY <1>5, <1>7

\* A notice of a session: none without a player.
LEMMA NotifyEffect ==
    ASSUME IInv, NEW s \in Sessions, NEW kind \in {"offline", "present"}, Notifies(s, kind)
    PROVE  \/ playerID[s] = NoPlayer /\ UNCHANGED up
           \/ /\ playerID[s] # NoPlayer /\ s <= nextID
              /\ Adds(s, Message(kind, s, playerID[s]))
              /\ Message(kind, s, playerID[s]) \in Notices
              /\ Rightly(Message(kind, s, playerID[s]))
  <1> DEFINE m == Message(kind, s, playerID[s])
  <1>1. playerID[s] \in PlayerIds
    BY DEF IInv, Types
  <1>2. /\ m \in Notices /\ m \notin Logins /\ m.kind = kind /\ m.session = s
        /\ m.player = playerID[s]
    BY <1>1, MessageType
  <1>3. CASE playerID[s] # NoPlayer
    <2>1. s <= nextID
      BY <1>3 DEF IInv, SessionsOwned
    <2>2. run = 1 => playerID[s] = account[s]
      BY <1>3 DEF IInv, FirstRun, BoundToOwn
    <2>3. run = 1 => NoticeOwned(m)
      BY <1>2, <1>3, <2>1, <2>2 DEF NoticeOwned
    <2>4. Adds(s, m)
      BY <1>3 DEF Notifies, Sends, Adds
    <2>5. QED
      BY <1>2, <1>3, <2>1, <2>3, <2>4 DEF Rightly
  <1>4. CASE playerID[s] = NoPlayer
    BY <1>4 DEF Notifies
  <1>5. QED
    BY <1>3, <1>4

\* ... and keeps the types and owners.
LEMMA NotifyKeeps ==
    ASSUME IInv, NEW s \in Sessions, NEW kind \in {"offline", "present"}, Notifies(s, kind)
    PROVE  /\ up' \in [Links -> Seq(Sent)]
           /\ Types' /\ GateGrows => UNCHANGED up \/ \E m \in Sent : GateSends(m)
  <1> DEFINE m == Message(kind, s, playerID[s])
  <1>1. CASE UNCHANGED up
    BY <1>1 DEF IInv, Types
  <1>2. CASE m \in Notices /\ Adds(s, m) /\ Rightly(m)
    <2>1. m.session = s
      BY DEF Message
    <2>2. PICK n \in Sent : n = m
      BY <1>2, SentType
    <2>3. n.session = s /\ Adds(s, n) /\ Rightly(n)
      BY <1>2, <2>1, <2>2
    <2>4. up' \in [Links -> Seq(Sent)]
      BY <2>3, AddUp DEF IInv
    <2>5. Types' /\ GateGrows => GateSends(n)
      BY <2>3, RightlyKept DEF GateSends, IInv
    <2>6. QED
      BY <2>4, <2>5
  <1>3. QED
    BY <1>1, <1>2, NotifyEffect

\* A handler of the gate that keeps sessions and sends at most one message of its
\* session's keeps everything.
LEMMA GateDone ==
    ASSUME IInv, Types', SessionsOwned', BoundToOwn', GateGrows,
           UNCHANGED up \/ \E m \in Sent : GateSends(m)
    PROVE  IInv'
  BY GateKeeps DEF IInv

\* What a handler of an existing session leaves alone.
LEMMA GateSame ==
    ASSUME Types,
           UNCHANGED <<run, login, sessionGate, toGame, pstate, psid, entry, lost, stale, nextID,
                       account, playerID, down>>
    PROVE  GateGrows
  BY DEF Types, GateGrows

LEMMA FirstLoginStep ==
    ASSUME IInv, NEW p \in Players, FirstLogin(p)
    PROVE  IInv' /\ GateGrows
  <1>1. PICK s \in FreshId :
            /\ nextID' = s
            /\ state' = [state EXCEPT ![s] = "Online"]
            /\ attached' = [attached EXCEPT ![s] = TRUE]
            /\ playerID' = [playerID EXCEPT ![s] = NoPlayer]
            /\ account' = [account EXCEPT ![s] = p]
            /\ reads' = [reads EXCEPT ![s] = 1]
            /\ Sends(s, LoginReq(s, p))
            /\ UNCHANGED <<run, byPlayer, down, serviceVars, toGame, gameVars, faultVars>>
    BY DEF FirstLogin
  <1>2. /\ s = nextID + 1 /\ s \in Sessions /\ nextID \in Nat /\ s \in Nat /\ s <= MaxSession
    BY DEF FreshId, Sessions, IInv, Types
  <1> DEFINE m == LoginReq(s, p)
  <1>3. m \in Logins /\ m \notin Notices /\ m.session = s /\ m.account = p /\ m \in Sent
    BY <1>2, LoginType, SentType
  <1> HIDE DEF m
  <1>4. Adds(s, m)
    BY <1>1 DEF Sends, Adds, m
  <1>5. Types'
    <2>1. up' \in [Links -> Seq(Sent)]
      BY <1>2, <1>3, <1>4, AddUp DEF IInv
    <2>2. nextID' \in 0 .. MaxSession
      BY <1>1, <1>2
    <2>3. /\ state' \in [Sessions -> States] /\ attached' \in [Sessions -> BOOLEAN]
          /\ playerID' \in [Sessions -> PlayerIds] /\ account' \in [Sessions -> PlayerIds]
          /\ reads' \in [Sessions -> Nat]
      BY <1>1, <1>2 DEF IInv, Types, States, PlayerIds
    <2>4. QED
      BY <1>1, <2>1, <2>2, <2>3 DEF IInv, Types, serviceVars, gameVars, faultVars
  <1>6. /\ account'[s] = p /\ playerID'[s] = NoPlayer /\ state'[s] = "Online"
        /\ \A t \in Sessions : t # s => /\ account'[t] = account[t] /\ playerID'[t] = playerID[t]
                                        /\ state'[t] = state[t] /\ reads'[t] = reads[t]
                                        /\ attached'[t] = attached[t]
    BY <1>1, <1>2 DEF IInv, Types
  <1>7. \A t \in Sessions : t # s => (t <= nextID' <=> t <= nextID)
    BY <1>1, <1>2 DEF Sessions
  <1>8. SessionsOwned'
    <2>1. ASSUME NEW t \in Sessions
          PROVE  /\ IF t <= nextID' THEN account'[t] \in Players
                    ELSE state'[t] = "Init" /\ reads'[t] = 0 /\ ~attached'[t]
                         /\ playerID'[t] = NoPlayer /\ account'[t] = NoPlayer
                 /\ state'[t] \in {"Init", "Online", "Authing"} => playerID'[t] = NoPlayer
      <3>1. CASE t = s
        BY <1>1, <1>2, <1>6, <3>1
      <3>2. CASE t # s
        BY <1>6, <1>7, <3>2 DEF IInv, SessionsOwned
      <3>3. QED
        BY <3>1, <3>2
    <2>2. QED
      BY <2>1 DEF SessionsOwned
  <1>9. BoundToOwn'
    BY <1>1, <1>6 DEF IInv, BoundToOwn, faultVars
  <1>10. GateGrows
    <2>1. \A t \in Sessions : t <= nextID => t # s
      BY <1>2 DEF Sessions
    <2>2. nextID <= nextID'
      BY <1>1, <1>2
    <2>3. QED
      BY <1>1, <1>6, <2>1, <2>2 DEF GateGrows, serviceVars, gameVars, faultVars
  <1>11. Rightly(m)'
    <2>1. m' = m
      BY <1>1 DEF m, LoginReq
    <2>2. s <= nextID' /\ p = account'[s]
      BY <1>1, <1>2, <1>6
    <2>3. QED
      BY <1>1, <1>3, <2>1, <2>2 DEF Rightly, Owned, faultVars
  <1>12. QED
    BY <1>3, <1>4, <1>5, <1>8, <1>9, <1>10, <1>11, GateDone DEF GateSends

\* A session that is registered, connected or read from is in use.
LEMMA InUse ==
    ASSUME IInv, NEW s \in Sessions, Registered(s) \/ reads[s] > 0 \/ attached[s]
    PROVE  s <= nextID /\ account[s] \in Players
  <1>1. ASSUME ~(s <= nextID) PROVE FALSE
    <2>1. state[s] = "Init" /\ reads[s] = 0 /\ ~attached[s]
      BY <1>1 DEF IInv, SessionsOwned
    <2>2. QED
      BY <2>1 DEF Registered
  <1>2. QED
    BY <1>1 DEF IInv, SessionsOwned

\* A handler of one session in use.
LEMMA SameOwners ==
    ASSUME IInv, NEW s \in Sessions, s <= nextID,
           UNCHANGED <<nextID, account, playerID, stale>>,
           \A t \in Sessions : t # s =>
               state'[t] = state[t] /\ reads'[t] = reads[t] /\ attached'[t] = attached[t],
           state'[s] \in {"Init", "Online", "Authing"} => playerID[s] = NoPlayer
    PROVE  SessionsOwned' /\ BoundToOwn'
  <1>1. SessionsOwned'
    BY DEF IInv, SessionsOwned
  <1>2. BoundToOwn'
    BY DEF IInv, BoundToOwn
  <1>3. QED
    BY <1>1, <1>2

LEMMA LoginAgainStep ==
    ASSUME IInv, NEW s \in Sessions, LoginAgain(s)
    PROVE  IInv' /\ GateGrows
  <1> DEFINE m == LoginReq(s, account[s])
  <1>1. s <= nextID /\ account[s] \in Players
    BY InUse DEF LoginAgain
  <1>2. PICK n \in Sent : n = m
    BY <1>1, LoginType, SentType
  <1>3. n \in Logins /\ n \notin Notices /\ n.session = s /\ n.account = account[s] /\ Adds(s, n)
    BY <1>1, <1>2, LoginType DEF LoginAgain, Sends, Adds
  <1>4. Types'
    <2>1. up' \in [Links -> Seq(Sent)]
      BY <1>3, AddUp DEF IInv
    <2>2. state' \in [Sessions -> States]
      BY DEF IInv, Types, States, LoginAgain
    <2>3. QED
      BY <2>1, <2>2 DEF IInv, Types, LoginAgain, serviceVars, gameVars
  <1>5. GateGrows
    BY GateSame DEF IInv, LoginAgain, serviceVars, gameVars
  <1>6. SessionsOwned' /\ BoundToOwn'
    <2>1. playerID[s] = NoPlayer
      BY DEF IInv, SessionsOwned, LoginAgain
    <2>2. \A t \in Sessions : t # s =>
              state'[t] = state[t] /\ reads'[t] = reads[t] /\ attached'[t] = attached[t]
      BY DEF IInv, Types, LoginAgain
    <2>3. UNCHANGED <<nextID, account, playerID, stale>>
      BY DEF LoginAgain
    <2>4. QED
      BY <1>1, <2>1, <2>2, <2>3, SameOwners
  <1>7. Rightly(n)
    BY <1>1, <1>3 DEF Rightly, Owned
  <1>8. GateSends(n)
    BY <1>3, <1>4, <1>5, <1>7, RightlyKept DEF IInv, GateSends
  <1>9. QED
    BY <1>4, <1>5, <1>6, <1>8, GateDone

LEMMA ReadErrorStep ==
    ASSUME IInv, NEW s \in Sessions, ReadError(s)
    PROVE  IInv' /\ GateGrows
  <1>1. s <= nextID
    BY InUse DEF ReadError
  <1>2. Notifies(s, "offline") /\ UNCHANGED <<nextID, account, playerID, stale>>
    BY DEF ReadError, faultVars
  <1>3. /\ state' \in [Sessions -> States] /\ attached' \in [Sessions -> BOOLEAN]
        /\ reads' \in [Sessions -> Nat] /\ state'[s] = "Offline"
        /\ \A t \in Sessions : t # s =>
              state'[t] = state[t] /\ reads'[t] = reads[t] /\ attached'[t] = attached[t]
    BY DEF IInv, Types, States, ReadError
  <1>4. Types'
    BY <1>2, <1>3, NotifyKeeps DEF IInv, Types, ReadError, serviceVars, gameVars, faultVars
  <1>5. GateGrows
    BY GateSame DEF IInv, ReadError, serviceVars, gameVars, faultVars
  <1>6. QED
    BY <1>1, <1>2, <1>3, <1>4, <1>5, SameOwners, NotifyKeeps, GateDone

LEMMA KickStep ==
    ASSUME IInv, NEW s \in Sessions, Kick(s)
    PROVE  IInv' /\ GateGrows
  <1>1. s <= nextID
    BY InUse DEF Kick
  <1>2. Notifies(s, "offline") /\ UNCHANGED <<nextID, account, playerID, stale>>
    BY DEF Kick, KickNotifies, faultVars
  <1>3. /\ state' \in [Sessions -> States] /\ attached' \in [Sessions -> BOOLEAN]
        /\ state'[s] = "Offline"
        /\ \A t \in Sessions : t # s =>
              state'[t] = state[t] /\ reads'[t] = reads[t] /\ attached'[t] = attached[t]
    BY DEF IInv, Types, States, Kick
  <1>4. Types'
    BY <1>2, <1>3, NotifyKeeps DEF IInv, Types, Kick, serviceVars, gameVars, faultVars
  <1>5. GateGrows
    BY GateSame DEF IInv, Kick, serviceVars, gameVars, faultVars
  <1>6. QED
    BY <1>1, <1>2, <1>3, <1>4, <1>5, SameOwners, NotifyKeeps, GateDone

LEMMA ResumeStep ==
    ASSUME IInv, NEW s \in Sessions, Resume(s)
    PROVE  IInv' /\ GateGrows
  <1>1. s <= nextID
    BY InUse DEF Resume
  <1>2. Notifies(s, "present") /\ UNCHANGED <<nextID, account, playerID, stale>>
    BY DEF Resume, faultVars
  <1>3. /\ state' \in [Sessions -> States] /\ attached' \in [Sessions -> BOOLEAN]
        /\ reads' \in [Sessions -> Nat]
        /\ state'[s] = IF playerID[s] = NoPlayer THEN "Online" ELSE "Authenticated"
        /\ \A t \in Sessions : t # s =>
              state'[t] = state[t] /\ reads'[t] = reads[t] /\ attached'[t] = attached[t]
    BY DEF IInv, Types, States, Resume
  <1>4. Types'
    BY <1>2, <1>3, NotifyKeeps DEF IInv, Types, Resume, serviceVars, gameVars, faultVars
  <1>5. GateGrows
    BY GateSame DEF IInv, Resume, serviceVars, gameVars, faultVars
  <1>6. QED
    BY <1>1, <1>2, <1>3, <1>4, <1>5, SameOwners, NotifyKeeps, GateDone

LEMMA RequestStep ==
    ASSUME IInv, NEW s \in Sessions, Request(s)
    PROVE  IInv' /\ GateGrows
  <1> DEFINE m == Message("present", s, playerID[s])
  <1>1. s <= nextID
    BY InUse DEF Request
  <1>2. playerID[s] \in PlayerIds
    BY DEF IInv, Types
  <1>3. PICK n \in Sent : n = m
    BY <1>2, MessageType, SentType
  <1>4. /\ n \in Notices /\ n \notin Logins /\ n.session = s /\ n.kind = "present"
        /\ n.player = playerID[s] /\ Adds(s, n)
    BY <1>2, <1>3, MessageType DEF Request, Sends, Adds
  <1>5. Rightly(n)
    <2>1. run = 1 => playerID[s] \in {NoPlayer, account[s]}
      BY DEF IInv, FirstRun, BoundToOwn
    <2>2. QED
      BY <1>1, <1>4, <2>1 DEF Rightly, NoticeOwned
  <1>6. Types'
    <2>1. up' \in [Links -> Seq(Sent)]
      BY <1>4, AddUp DEF IInv
    <2>2. QED
      BY <2>1 DEF IInv, Types, Request, gateVars, serviceVars, gameVars, faultVars
  <1>7. GateGrows
    BY GateSame DEF IInv, Request, gateVars, serviceVars, gameVars, faultVars
  <1>8. SessionsOwned' /\ BoundToOwn'
    BY DEF IInv, SessionsOwned, BoundToOwn, Request, gateVars, faultVars
  <1>9. GateSends(n)
    BY <1>4, <1>5, <1>6, <1>7, RightlyKept DEF IInv, GateSends
  <1>10. QED
    BY <1>6, <1>7, <1>8, <1>9, GateDone

LEMMA CollectStep ==
    ASSUME IInv, NEW s \in Sessions, Collect(s)
    PROVE  IInv' /\ GateGrows
  <1>1. s <= nextID
    BY InUse DEF Collect, Registered
  <1>2. UNCHANGED <<nextID, account, playerID, stale, up>>
    BY DEF Collect, faultVars
  <1>3. /\ state' \in [Sessions -> States] /\ reads' \in [Sessions -> Nat]
        /\ state'[s] = "Closed"
        /\ \A t \in Sessions : t # s =>
              state'[t] = state[t] /\ reads'[t] = reads[t] /\ attached'[t] = attached[t]
    BY DEF IInv, Types, States, Collect
  <1>4. Types'
    BY <1>2, <1>3 DEF IInv, Types, Collect, serviceVars, gameVars, faultVars
  <1>5. GateGrows
    BY GateSame DEF IInv, Collect, serviceVars, gameVars, faultVars
  <1>6. QED
    BY <1>1, <1>2, <1>3, <1>4, <1>5, SameOwners, GateDone

\* The session that a login displaces is one other session at most.
LEMMA DisplacedIs ==
    ASSUME NEW s \in Sessions, NEW p \in Players
    PROVE  /\ \A t \in Displaced(s, p) : t = byPlayer[p] /\ t # s
           /\ \A t \in Sessions : t \in Displaced(s, p) => attached[t] /\ Registered(t)
  BY DEF Displaced

\* What an answer does for a session that is registered.
Answered(s, p) ==
    /\ byPlayer' = [byPlayer EXCEPT ![p] = s]
    /\ playerID' = [playerID EXCEPT ![s] = p]
    /\ attached' = [t \in Sessions |-> attached[t] /\ t \notin Displaced(s, p)]
    /\ state' = [t \in Sessions |->
                    IF t = s THEN "Authenticated"
                    ELSE IF t \in Displaced(s, p) THEN "Offline" ELSE state[t]]
    /\ IF Displaced(s, p) = {} THEN UNCHANGED up
       ELSE \A t \in Displaced(s, p) : Notifies(t, "offline")

LEMMA AnswerRead ==
    ASSUME IInv, NEW l \in Links, LoginRsp(l)
    PROVE  /\ \A k \in Links : ToSet(down'[k]) \subseteq ToSet(down[k])
           /\ down' \in [Links -> Seq(Answers)]
           /\ UNCHANGED <<run, nextID, account, reads, serviceVars, toGame, gameVars, faultVars>>
           /\ \E a \in Answers : a \in ToSet(down[l]) /\ Owned(a.session, a.player) /\
                 IF Registered(a.session) THEN Answered(a.session, a.player)
                 ELSE UNCHANGED <<byPlayer, playerID, attached, state, up>>
  <1>1. /\ down' \in [Links -> Seq(Answers)]
        /\ Head(down[l]) \in ToSet(down[l]) /\ Head(down[l]) \in Answers
        /\ \A k \in Links : ToSet(down'[k]) \subseteq ToSet(down[k])
    BY TakeDown DEF IInv, LoginRsp
  <1>2. PICK a \in Answers : a = Head(down[l])
    BY <1>1
  <1>3. a \in ToSet(down[l]) /\ Owned(a.session, a.player)
    BY <1>1, <1>2 DEF IInv, LoginsOwned
  <1>4. IF Registered(a.session) THEN Answered(a.session, a.player)
        ELSE UNCHANGED <<byPlayer, playerID, attached, state, up>>
    BY <1>2 DEF LoginRsp, Answered
  <1>5. UNCHANGED <<run, nextID, account, reads, serviceVars, toGame, gameVars, faultVars>>
    BY DEF LoginRsp
  <1>6. QED
    BY <1>1, <1>3, <1>4, <1>5

LEMMA LoginRspStep ==
    ASSUME IInv, NEW l \in Links, LoginRsp(l)
    PROVE  IInv' /\ GateGrows
  <1>1. PICK a \in Answers : a \in ToSet(down[l]) /\ Owned(a.session, a.player) /\
            IF Registered(a.session) THEN Answered(a.session, a.player)
            ELSE UNCHANGED <<byPlayer, playerID, attached, state, up>>
    BY AnswerRead
  <1> DEFINE s == a.session
             p == a.player
  <1>2. s \in Sessions /\ p \in Players /\ p # NoPlayer /\ p \in PlayerIds
    BY DEF Answers, PlayerIds
  <1>3. /\ \A k \in Links : ToSet(down'[k]) \subseteq ToSet(down[k])
        /\ down' \in [Links -> Seq(Answers)]
        /\ UNCHANGED <<run, nextID, account, reads, login, sessionGate, toGame, pstate, psid, entry,
                       repeats, lost, stale>>
    BY AnswerRead DEF serviceVars, gameVars, faultVars
  <1> HIDE DEF s, p
  <1>4. CASE ~Registered(s)
    <2>1. UNCHANGED <<byPlayer, playerID, attached, state, up>>
      BY <1>1, <1>4 DEF s
    <2>2. Types'
      BY <1>3, <2>1 DEF IInv, Types
    <2>3. GateGrows
      BY <1>3, <2>1 DEF IInv, Types, GateGrows
    <2>4. SessionsOwned' /\ BoundToOwn'
      BY <1>3, <2>1 DEF IInv, SessionsOwned, BoundToOwn
    <2>5. QED
      BY <2>1, <2>2, <2>3, <2>4, GateDone
  <1>5. CASE Registered(s)
    <2>1. Answered(s, p)
      BY <1>1, <1>5 DEF s, p
    <2>2. s <= nextID
      BY <1>2, <1>5, InUse
    <2>3. \/ UNCHANGED up
          \/ \E t \in Sessions : t \in Displaced(s, p) /\ Notifies(t, "offline")
      <3>1. CASE Displaced(s, p) = {}
        BY <2>1, <3>1 DEF Answered
      <3>2. ASSUME NEW t \in Displaced(s, p)
            PROVE  \E u \in Sessions : u \in Displaced(s, p) /\ Notifies(u, "offline")
        <4>1. Registered(t) /\ attached[t] /\ Notifies(t, "offline")
          BY <2>1, <3>2 DEF Answered, Displaced
        <4>2. t \in Sessions
          <5>1. t = byPlayer[p] /\ t # NoSession
            BY <3>2 DEF Displaced
          <5>2. QED
            BY <1>2, <5>1 DEF IInv, Types
        <4>3. QED
          BY <3>2, <4>1, <4>2
      <3>3. QED
        BY <3>1, <3>2
    <2>4. up' \in [Links -> Seq(Sent)]
      BY <2>3, NotifyKeeps DEF IInv, Types
    <2>5. /\ playerID' \in [Sessions -> PlayerIds] /\ state' \in [Sessions -> States]
          /\ attached' \in [Sessions -> BOOLEAN]
          /\ byPlayer' \in [Players -> Sessions \cup {NoSession}]
      BY <1>2, <2>1 DEF IInv, Types, Answered, States
    <2>6. Types'
      BY <1>3, <2>4, <2>5 DEF IInv, Types
    <2>7. /\ playerID'[s] = p /\ state'[s] = "Authenticated"
          /\ \A t \in Sessions : t # s => playerID'[t] = playerID[t]
          /\ \A t \in Sessions : t # s => state'[t] \in {state[t], "Offline"}
          /\ \A t \in Sessions : t # s /\ t \notin Displaced(s, p) => state'[t] = state[t]
          /\ \A t \in Sessions : attached'[t] => attached[t]
      BY <1>2, <2>1 DEF IInv, Types, Answered
    <2>8. SessionsOwned'
      <3>1. \A t \in Sessions : ~(t <= nextID) => t # s /\ t \notin Displaced(s, p)
        BY <2>2, InUse DEF Displaced
      <3>2. QED
        BY <1>3, <2>7, <3>1 DEF IInv, SessionsOwned
    <2>9. BoundToOwn'
      BY <1>1, <1>3, <2>7 DEF IInv, BoundToOwn, Owned, s, p
    <2>10. GateGrows
      <3>1. nextID <= nextID'
        BY <1>3 DEF IInv, Types
      <3>2. QED
        BY <1>2, <1>3, <2>7, <3>1 DEF GateGrows
    <2>11. UNCHANGED up \/ \E m \in Sent : GateSends(m)
      BY <2>3, <2>6, <2>10, NotifyKeeps
    <2>12. QED
      BY <2>6, <2>8, <2>9, <2>10, <2>11, GateDone
  <1>6. QED
    BY <1>4, <1>5

\* Whatever the gate handles.
GateStep ==
    \/ \E p \in Players : FirstLogin(p)
    \/ \E s \in Sessions :
          LoginAgain(s) \/ ReadError(s) \/ Kick(s) \/ Resume(s) \/ Request(s) \/ Collect(s)
    \/ \E l \in Links : LoginRsp(l)

LEMMA GateStepKeeps ==
    ASSUME IInv, GateStep
    PROVE  IInv' /\ GateGrows
  BY FirstLoginStep, LoginAgainStep, ReadErrorStep, KickStep, ResumeStep, RequestStep, CollectStep,
     LoginRspStep DEF GateStep

-----------------------------------------------------------------------------
(* The service, the game server, and what is lost.                         *)

\* What every step of these leaves alone.
GateIdle == UNCHANGED <<run, nextID, byPlayer, state, attached, playerID, account, reads, stale>>

\* Owners are kept when no message is new but those a login brings.
LEMMA IdleKeeps ==
    ASSUME IInv, Types', GateIdle,
           \A l \in Links : ToSet(up'[l]) \subseteq ToSet(up[l]),
           \A l \in Links : \A a \in ToSet(down'[l]) :
               a \in ToSet(down[l]) \/ Owned(a.session, a.player),
           \A l \in Links : login'[l] \in {NoLogin, login[l]} \cup (ToSet(up[l]) \cap Logins),
           run = 1 => \A m \in ToSet(toGame') : m \in ToSet(toGame) \/ NoticeOwned(m),
           run = 1 => \A s \in Sessions : entry'[s] \in {NoPlayer, account[s]}
    PROVE  IInv'
  <1>1. ASSUME NEW s, NEW p, Owned(s, p) PROVE Owned(s, p)'
    BY <1>1 DEF Owned, GateIdle
  <1>2. SessionsOwned' /\ BoundToOwn'
    BY DEF IInv, SessionsOwned, BoundToOwn, GateIdle
  <1>3. ASSUME NEW l \in Links, NEW m \in ToSet(up'[l]) \cap Logins
        PROVE  Owned(m.session, m.account)'
    BY <1>1 DEF IInv, LoginsOwned
  <1>4. ASSUME NEW l \in Links, login'[l] # NoLogin
        PROVE  Owned(login'[l].session, login'[l].account) /\ (run = 1 => l = LinkOf(login'[l].session))
    BY <1>4 DEF IInv, LoginsOwned, FirstRun
  <1>5. ASSUME NEW l \in Links, login'[l] # NoLogin
        PROVE  Owned(login[l].session, login[l].account)' /\ (run = 1 => l = LinkOf(login[l].session)')
    <2>1. PICK m : m = login'[l]
      OBVIOUS
    <2>2. Owned(m.session, m.account)' /\ (run = 1 => l = LinkOf(m.session)')
      BY <1>1, <1>4, <1>5, <2>1 DEF LinkOf, GateIdle
    <2>3. QED
      BY <2>1, <2>2
  <1>6. ASSUME NEW l \in Links, NEW a \in ToSet(down'[l]) PROVE Owned(a.session, a.player)'
    BY <1>1 DEF IInv, LoginsOwned
  <1>7. LoginsOwned'
    BY <1>3, <1>5, <1>6 DEF LoginsOwned
  <1>8. ASSUME NEW m, NoticeOwned(m) PROVE NoticeOwned(m)'
    BY <1>8 DEF NoticeOwned, GateIdle
  <1>9. FirstRun'
    <2>1. run' = run /\ stale' = stale /\ account' = account
      BY DEF GateIdle
    <2>2. ASSUME run = 1, NEW m \in ToSet(toGame') PROVE NoticeOwned(m)'
      BY <1>8, <2>2 DEF IInv, FirstRun
    <2>3. ASSUME run = 1, NEW l \in Links, NEW m \in ToSet(up'[l])
          PROVE  (m \in Notices => NoticeOwned(m)') /\ l = LinkOf(m.session)'
      BY <1>8, <2>1, <2>3 DEF IInv, FirstRun, LinkOf
    <2>4. QED
      BY <1>5, <2>1, <2>2, <2>3 DEF IInv, FirstRun
  <1>10. QED
    BY <1>2, <1>7, <1>9 DEF IInv

\* What is read of a link is a login or a notice, as its kind says.
LEMMA HeadOfLink ==
    ASSUME IInv, NEW l \in Links, up[l] # <<>>
    PROVE  \E m \in Sent :
              /\ m = Head(up[l]) /\ m \in ToSet(up[l]) /\ m.session \in Sessions
              /\ m.kind = "login" => m \in Logins
              /\ m.kind # "login" => m \in Notices /\ (run = 1 => NoticeOwned(m))
  <1>1. Head(up[l]) \in ToSet(up[l]) /\ Head(up[l]) \in Sent
    <2>1. up[l] \in Seq(Sent)
      BY DEF IInv, Types
    <2>2. QED
      BY <2>1, TailSeq
  <1>2. PICK m \in Sent : m = Head(up[l])
    BY <1>1
  <1>3. QED
    BY <1>1, <1>2, SentParts DEF IInv, FirstRun

LEMMA StartLoginStep ==
    ASSUME IInv, NEW l \in Links, StartLogin(l)
    PROVE  IInv'
  <1>1. PICK m \in Logins : m = Head(up[l]) /\ m \in ToSet(up[l]) /\ m.session \in Sessions
    BY HeadOfLink DEF StartLogin, Reading
  <1>2. /\ up' \in [Links -> Seq(Sent)] /\ \A k \in Links : ToSet(up'[k]) \subseteq ToSet(up[k])
    BY TakeUp DEF IInv, StartLogin, Reading
  <1>3. /\ login' = [login EXCEPT ![l] = m] /\ sessionGate' = [sessionGate EXCEPT ![m.session] = l]
        /\ UNCHANGED <<gateVars, down, toGame, gameVars, faultVars>>
    BY <1>1 DEF StartLogin
  <1>4. Types'
    BY <1>1, <1>2, <1>3 DEF IInv, Types, gateVars, gameVars, faultVars
  <1>5. \A k \in Links : login'[k] \in {NoLogin, login[k]} \cup (ToSet(up[k]) \cap Logins)
    BY <1>1, <1>3 DEF IInv, Types
  <1>6. GateIdle
    BY <1>3 DEF GateIdle, gateVars, faultVars
  <1>7. QED
    BY <1>2, <1>3, <1>4, <1>5, <1>6, IdleKeeps DEF IInv, FirstRun, gameVars

\* The message to the game server, and the answer, of a login that has finished.
LEMMA LoginFinished ==
    ASSUME IInv, NEW l \in Links, FinishLogin(l)
    PROVE  \E m \in Logins :
              LET n == Message("present", m.session, m.account)
                  a == [session |-> m.session, player |-> m.account]
              IN
              /\ m = login[l] /\ m.session \in Sessions /\ m.account \in Players
              /\ n \in Notices /\ n.session = m.session /\ n.kind = "present" /\ n.player = m.account
              /\ toGame' = Append(toGame, n) /\ (run = 1 => NoticeOwned(n))
              /\ a \in Answers /\ a.session = m.session /\ a.player = m.account
              /\ Owned(a.session, a.player)
              /\ UNCHANGED down \/ \E k \in Links : down' = [down EXCEPT ![k] = Append(@, a)]
  <1>1. login[l] \in Logins \cup {NoLogin} /\ login[l] # NoLogin
    BY DEF IInv, Types, FinishLogin
  <1>2. PICK m \in Logins : m = login[l]
    BY <1>1
  <1>3. m.session \in Sessions /\ m.account \in Players /\ Owned(m.session, m.account)
    BY <1>1, <1>2, LoginParts DEF IInv, LoginsOwned
  <1> DEFINE n == Message("present", m.session, m.account)
             a == [session |-> m.session, player |-> m.account]
  <1>4. n \in Notices /\ n.session = m.session /\ n.kind = "present" /\ n.player = m.account
    BY <1>3, MessageType DEF PlayerIds
  <1>5. a \in Answers /\ a.session = m.session /\ a.player = m.account
    BY <1>3 DEF Answers
  <1>6. toGame' = Append(toGame, n)
    BY <1>2 DEF FinishLogin, Forwards, Entering
  <1>7. run = 1 => NoticeOwned(n)
    BY <1>3, <1>4 DEF NoticeOwned, Owned, IInv, FirstRun
  <1>8. UNCHANGED down \/ \E k \in Links : down' = [down EXCEPT ![k] = Append(@, a)]
    <2>1. sessionGate[m.session] \in Links \cup {NoLink}
      BY <1>3 DEF IInv, Types
    <2>2. QED
      BY <1>2, <2>1 DEF FinishLogin
  <1>9. QED
    BY <1>2, <1>3, <1>4, <1>5, <1>6, <1>7, <1>8

LEMMA FinishLoginStep ==
    ASSUME IInv, NEW l \in Links, FinishLogin(l)
    PROVE  IInv'
  <1>1. PICK n \in Notices : toGame' = Append(toGame, n) /\ (run = 1 => NoticeOwned(n))
    BY LoginFinished
  <1>2. PICK a \in Answers : /\ Owned(a.session, a.player)
                             /\ UNCHANGED down \/ \E k \in Links : down' = [down EXCEPT ![k] = Append(@, a)]
    BY LoginFinished
  <1>3. /\ down' \in [Links -> Seq(Answers)]
        /\ \A k \in Links : \A b \in ToSet(down'[k]) : b \in ToSet(down[k]) \/ b = a
    BY <1>2, AddDown DEF IInv, Types
  <1>4. toGame' \in Seq(Notices) /\ ToSet(toGame') = ToSet(toGame) \cup {n}
    BY <1>1, ToGameAppend DEF IInv
  <1>5. /\ login' = [login EXCEPT ![l] = NoLogin]
        /\ UNCHANGED <<gateVars, up, sessionGate, gameVars, faultVars>>
    BY DEF FinishLogin
  <1>6. Types'
    BY <1>3, <1>4, <1>5 DEF IInv, Types, gateVars, gameVars, faultVars
  <1>7. \A k \in Links : login'[k] \in {NoLogin, login[k]}
    BY <1>5 DEF IInv, Types
  <1>8. GateIdle
    BY <1>5 DEF GateIdle, gateVars, faultVars
  <1>9. run = 1 => \A s \in Sessions : entry'[s] \in {NoPlayer, account[s]}
    BY <1>5 DEF IInv, FirstRun, gameVars
  <1>10. QED
    BY <1>1, <1>2, <1>3, <1>4, <1>5, <1>6, <1>7, <1>8, <1>9, IdleKeeps

LEMMA LoginFailsStep ==
    ASSUME IInv, NEW l \in Links, LoginFails(l)
    PROVE  IInv'
  <1>1. /\ login' = [login EXCEPT ![l] = NoLogin]
        /\ UNCHANGED <<gateVars, up, down, sessionGate, toGame, gameVars, faultVars>>
    BY DEF LoginFails
  <1>2. Types' /\ \A k \in Links : login'[k] \in {NoLogin, login[k]}
    BY <1>1 DEF IInv, Types, gateVars, gameVars, faultVars
  <1>3. GateIdle
    BY <1>1 DEF GateIdle, gateVars, faultVars
  <1>4. QED
    BY <1>1, <1>2, <1>3, IdleKeeps DEF IInv, FirstRun, gameVars

LEMMA ForwardStep ==
    ASSUME IInv, NEW l \in Links, Forward(l)
    PROVE  IInv'
  <1>1. PICK m \in Notices : /\ m = Head(up[l]) /\ m \in ToSet(up[l]) /\ m.session \in Sessions
                             /\ (run = 1 => NoticeOwned(m))
    BY HeadOfLink DEF Forward, Reading
  <1>2. /\ up' \in [Links -> Seq(Sent)] /\ \A k \in Links : ToSet(up'[k]) \subseteq ToSet(up[k])
    BY TakeUp DEF IInv, Forward, Reading
  <1>3. /\ toGame' = Append(toGame, m) /\ sessionGate' = [sessionGate EXCEPT ![m.session] = l]
        /\ UNCHANGED <<gateVars, down, login, gameVars, faultVars>>
    BY <1>1 DEF Forward, Forwards
  <1>4. toGame' \in Seq(Notices) /\ ToSet(toGame') = ToSet(toGame) \cup {m}
    BY <1>3, ToGameAppend DEF IInv
  <1>5. Types'
    BY <1>1, <1>2, <1>3, <1>4 DEF IInv, Types, gateVars, gameVars, faultVars
  <1>6. GateIdle
    BY <1>3 DEF GateIdle, gateVars, faultVars
  <1>7. QED
    BY <1>1, <1>2, <1>3, <1>4, <1>5, <1>6, IdleKeeps DEF IInv, FirstRun, gameVars

LEMMA PurgeStep ==
    ASSUME IInv, NEW l \in Links, Purge(l)
    PROVE  IInv'
  <1>1. up' = [up EXCEPT ![l] = <<>>] /\ UNCHANGED <<gateVars, down, login, toGame, gameVars, faultVars>>
    BY DEF Purge
  <1>2. /\ up' \in [Links -> Seq(Sent)] /\ up'[l] = <<>>
        /\ \A k \in Links : k # l => up'[k] = up[k]
    BY <1>1 DEF IInv, Types
  <1>3. \A k \in Links : ToSet(up'[k]) \subseteq ToSet(up[k])
    BY <1>2, NothingIn
  <1>4. sessionGate' \in [Sessions -> Links \cup {NoLink}]
    BY DEF IInv, Types, Purge
  <1>5. Types'
    BY <1>1, <1>2, <1>4 DEF IInv, Types, gateVars, gameVars, faultVars
  <1>6. GateIdle
    BY <1>1 DEF GateIdle, gateVars, faultVars
  <1>7. QED
    BY <1>1, <1>3, <1>5, <1>6, IdleKeeps DEF IInv, FirstRun, gameVars

\* What the game server takes a message for.
LEMMA ResolvedIs ==
    ASSUME IInv, NEW m \in Notices
    PROVE  /\ Resolved(m) \in PlayerIds
           /\ run = 1 /\ NoticeOwned(m) => Resolved(m) \in {NoPlayer, account[m.session]}
  <1>1. m.session \in Sessions /\ m.player \in PlayerIds
    BY DEF Notices
  <1>2. entry[m.session] \in PlayerIds /\ (run = 1 => entry[m.session] \in {NoPlayer, account[m.session]})
    BY <1>1 DEF IInv, Types, FirstRun
  <1>3. Resolved(m) \in {NoPlayer, m.player, entry[m.session]}
    BY DEF Resolved
  <1>4. NoPlayer \in PlayerIds
    BY DEF PlayerIds
  <1>5. QED
    BY <1>1, <1>2, <1>3, <1>4 DEF NoticeOwned

LEMMA GameReadsStep ==
    ASSUME IInv, GameReads
    PROVE  IInv'
  <1>1. PICK m \in Notices : m = Head(toGame) /\ m \in ToSet(toGame)
    BY ToGameTail DEF IInv, GameReads
  <1>2. /\ toGame' \in Seq(Notices) /\ ToSet(toGame') \subseteq ToSet(toGame)
        /\ UNCHANGED <<gateVars, up, down, serviceVars, faultVars>>
    BY ToGameTail DEF IInv, GameReads
  <1>3. m.session \in Sessions
    BY DEF Notices
  <1> DEFINE p == Resolved(m)
  <1>4. p \in PlayerIds /\ (run = 1 => p \in {NoPlayer, account[m.session]})
    BY <1>1, ResolvedIs DEF IInv, FirstRun
  <1>5. MarkOffline(p) \/ GetOrCreate(m.session, p)
    BY <1>1 DEF GameReads
  <1> HIDE DEF p
  <1>6. /\ pstate' \in [PlayerIds -> {"none", "Active", "Offline"}]
        /\ psid' \in [PlayerIds -> Sessions \cup {NoSession}]
        /\ entry' \in [Sessions -> PlayerIds]
        /\ \A s \in Sessions : entry'[s] \in {entry[s], NoPlayer} \/ (s = m.session /\ entry'[s] = p)
    <2>1. CASE MarkOffline(p)
      BY <1>4, <2>1 DEF IInv, Types, MarkOffline, gameVars, PlayerIds
    <2>2. CASE GetOrCreate(m.session, p)
      BY <1>3, <1>4, <2>2 DEF IInv, Types, GetOrCreate
    <2>3. QED
      BY <1>5, <2>1, <2>2
  <1>7. Types'
    BY <1>2, <1>6 DEF IInv, Types, gateVars, serviceVars, faultVars
  <1>8. GateIdle
    BY <1>2 DEF GateIdle, gateVars, faultVars
  <1>9. run = 1 => \A s \in Sessions : entry'[s] \in {NoPlayer, account[s]}
    BY <1>4, <1>6 DEF IInv, FirstRun
  <1>10. \A l \in Links : up'[l] = up[l] /\ down'[l] = down[l] /\ login'[l] = login[l]
    BY <1>2 DEF serviceVars
  <1>11. QED
    BY <1>2, <1>7, <1>8, <1>9, <1>10, IdleKeeps

LEMMA LoseStep ==
    ASSUME IInv, Lose
    PROVE  IInv'
  <1>1. /\ up' \in [Links -> Seq(Sent)] /\ \A k \in Links : ToSet(up'[k]) \subseteq ToSet(up[k])
        /\ down' \in [Links -> Seq(Answers)] /\ \A k \in Links : ToSet(down'[k]) \subseteq ToSet(down[k])
        /\ toGame' \in Seq(Notices) /\ ToSet(toGame') \subseteq ToSet(toGame)
    <2>1. CASE /\ \E l \in Links : up[l] # <<>> /\ up' = [up EXCEPT ![l] = Tail(@)]
               /\ UNCHANGED <<down, toGame>>
      BY <2>1, TakeUp DEF IInv, Types
    <2>2. CASE /\ \E l \in Links : down[l] # <<>> /\ down' = [down EXCEPT ![l] = Tail(@)]
               /\ UNCHANGED <<up, toGame>>
      BY <2>2, TakeDown DEF IInv, Types
    <2>3. CASE toGame # <<>> /\ toGame' = Tail(toGame) /\ UNCHANGED <<up, down>>
      BY <2>3, ToGameTail DEF IInv, Types
    <2>4. QED
      BY <2>1, <2>2, <2>3 DEF Lose
  <1>2. lost' = lost + 1 /\ UNCHANGED <<gateVars, serviceVars, gameVars, repeats, stale>>
    BY DEF Lose
  <1>3. Types'
    BY <1>1, <1>2 DEF IInv, Types, gateVars, serviceVars, gameVars
  <1>4. GateIdle
    BY <1>2 DEF GateIdle, gateVars
  <1>5. login' = login /\ entry' = entry
    BY <1>2 DEF serviceVars, gameVars
  <1>6. QED
    BY <1>1, <1>3, <1>4, <1>5, IdleKeeps DEF IInv, FirstRun

\* A restarted gate knows no session; the logins that reach the service later
\* are of stale ids.
LEMMA RestartStep ==
    ASSUME IInv, Restart
    PROVE  IInv'
  <1>1. \A l \in Links : \A m \in ToSet(up[l]) : m \in Sent
    <2>1. \A l \in Links : up[l] \in Seq(Sent)
      BY DEF IInv, Types
    <2>2. QED
      BY <2>1, ElementAt
  <1>2. ASSUME NEW l \in Links, NEW m \in ToSet(up[l]), m \in Logins
        PROVE  m.session \in Unanswered
    <2>1. m.kind = "login"
      BY <1>1, <1>2, SentParts
    <2>2. m \in UNION {ToSet(up[k]) : k \in Links}
      OBVIOUS
    <2>3. m \in {n \in UNION {ToSet(up[k]) : k \in Links} : n.kind = "login"}
      BY <2>1, <2>2
    <2>4. QED
      BY <2>3 DEF Unanswered
  <1>3. \A l \in Links : login[l].session \in Unanswered /\ login[l].session \in Sessions \cup {NoSession}
    <2>1. \A l \in Links : login[l] \in Logins \cup {NoLogin}
      BY DEF IInv, Types
    <2>2. QED
      BY <2>1, LoginParts DEF Unanswered
  <1>4. stale' \subseteq Sessions
    <2>1. ASSUME NEW s \in Unanswered PROVE s \in Sessions \cup {NoSession}
      <3>1. CASE \E l \in Links : s = login[l].session
        BY <1>3, <3>1
      <3>2. CASE \E m \in {n \in UNION {ToSet(up[l]) : l \in Links} : n.kind = "login"} : s = m.session
        <4>1. PICK m \in UNION {ToSet(up[l]) : l \in Links} : s = m.session
          BY <3>2
        <4>2. PICK l \in Links : m \in ToSet(up[l])
          BY <4>1
        <4>3. m \in Sent
          BY <1>1, <4>2
        <4>4. QED
          BY <4>1, <4>3, SentParts
      <3>3. QED
        BY <2>1, <3>1, <3>2 DEF Unanswered
    <2>2. QED
      BY <2>1 DEF Restart
  <1>5. /\ run' \in 1 .. MaxRuns /\ run' # 1 /\ nextID' = 0
    BY DEF IInv, Types, Restart
  <1>6. Types'
    BY <1>4, <1>5 DEF IInv, Types, Restart, States, PlayerIds, serviceVars, gameVars, Answers
  <1>7. \A s \in Sessions : /\ state'[s] = "Init" /\ ~attached'[s] /\ playerID'[s] = NoPlayer
                            /\ account'[s] = NoPlayer /\ reads'[s] = 0
    BY DEF Restart
  <1>8. \A s \in Sessions : ~(s <= nextID')
    BY <1>5 DEF Sessions
  <1>9. SessionsOwned' /\ BoundToOwn'
    BY <1>7, <1>8 DEF SessionsOwned, BoundToOwn
  <1>10. LoginsOwned'
    <2>1. stale' = Unanswered \ {NoSession} /\ up' = up /\ login' = login
      BY DEF Restart, serviceVars
    <2>2. ASSUME NEW l \in Links, NEW m \in ToSet(up'[l]) \cap Logins
          PROVE  Owned(m.session, m.account)'
      <3>1. m.session \in Unanswered /\ m.session \in Sessions
        BY <1>2, <2>1, SentParts, SentType
      <3>2. m.session # NoSession
        BY <3>1 DEF Sessions, NoSession
      <3>3. QED
        BY <2>1, <3>1, <3>2 DEF Owned
    <2>3. ASSUME NEW l \in Links, login'[l] # NoLogin
          PROVE  Owned(login[l].session, login[l].account)'
      <3>1. PICK m \in Logins \cup {NoLogin} : m = login[l] /\ m = login'[l]
        BY <2>1 DEF IInv, Types
      <3>2. m.session \in Unanswered /\ m.session \in Sessions
        BY <1>3, <2>3, <3>1, LoginParts
      <3>3. m.session # NoSession
        BY <3>2 DEF Sessions, NoSession
      <3>4. Owned(m.session, m.account)'
        BY <2>1, <3>2, <3>3 DEF Owned
      <3>5. QED
        BY <3>1, <3>4
    <2>4. \A l \in Links : \A a : a \notin ToSet(down'[l])
      <3>1. \A l \in Links : down'[l] = <<>>
        BY DEF Restart
      <3>2. QED
        BY <3>1, NothingIn
    <2>5. QED
      BY <2>2, <2>3, <2>4 DEF LoginsOwned
  <1>11. FirstRun'
    BY <1>5 DEF FirstRun
  <1>12. QED
    BY <1>6, <1>9, <1>10, <1>11 DEF IInv

-----------------------------------------------------------------------------
(* Whose session is whose.                                                 *)

LEMMA InitKeeps ==
    ASSUME Init
    PROVE  IInv
  <1>1. NoLogin.session = NoSession
    BY DEF NoLogin, LoginReq
  <1>2. Types
    BY DEF Init, Types, States, PlayerIds, Answers, Sent, Notices
  <1>3. \A s \in Sessions : ~(s <= nextID)
    BY DEF Init, Sessions
  <1>4. SessionsOwned /\ BoundToOwn
    BY <1>3 DEF Init, SessionsOwned, BoundToOwn
  <1>5. \A l \in Links : \A m : m \notin ToSet(up[l]) /\ m \notin ToSet(down[l])
    <2>1. \A l \in Links : up[l] = <<>> /\ down[l] = <<>>
      BY DEF Init
    <2>2. QED
      BY <2>1, NothingIn
  <1>6. \A m : m \notin ToSet(toGame)
    BY NothingIn DEF Init
  <1>7. \A l \in Links : login[l] = NoLogin
    BY DEF Init
  <1>8. LoginsOwned
    BY <1>5, <1>7 DEF LoginsOwned
  <1>9. FirstRun
    BY <1>5, <1>6, <1>7 DEF Init, FirstRun
  <1>10. QED
    BY <1>2, <1>4, <1>8, <1>9 DEF IInv

LEMMA NextKeeps ==
    ASSUME IInv, [Next]_vars
    PROVE  IInv'
  <1>1. CASE GateStep
    BY <1>1, GateStepKeeps
  <1>2. CASE \E l \in Links : StartLogin(l) \/ FinishLogin(l) \/ LoginFails(l) \/ Forward(l) \/ Purge(l)
    BY <1>2, StartLoginStep, FinishLoginStep, LoginFailsStep, ForwardStep, PurgeStep
  <1>3. CASE Restart \/ GameReads \/ Lose
    BY <1>3, RestartStep, GameReadsStep, LoseStep
  <1>4. CASE UNCHANGED vars
    <2>1. \A l \in Links : up'[l] = up[l] /\ down'[l] = down[l] /\ login'[l] = login[l]
      BY <1>4 DEF vars
    <2>2. Types' /\ GateIdle /\ toGame' = toGame /\ entry' = entry
      BY <1>4 DEF IInv, Types, vars, GateIdle
    <2>3. QED
      BY <2>1, <2>2, IdleKeeps DEF IInv, FirstRun
  <1>5. QED
    BY <1>1, <1>2, <1>3, <1>4 DEF Next, GateStep

\* The inductive invariant: types, the owners of sessions, logins and answers,
\* and of the notices of the first run.
THEOREM InvariantHolds == Spec => []IInv
  <1>1. Init => IInv
    BY InitKeeps
  <1>2. IInv /\ [Next]_vars => IInv'
    BY NextKeeps
  <1>3. QED
    BY <1>1, <1>2, PTL DEF Spec

\* onLoginRsp: a session becomes the player of its own account's login alone, but
\* for an id that a login of an earlier run had, unanswered at the restart.
THEOREM SessionsBoundToOwn == Spec => []BoundToOwn
  <1>1. IInv => BoundToOwn
    BY DEF IInv
  <1>2. QED
    BY <1>1, InvariantHolds, PTL

\* handleConn: the game server handles a message for the account whose session
\* sent it, or for player id 0, until a gate restarts.
THEOREM MessagesHandledForSender == Spec => []HandledForSender
  <1>1. IInv => HandledForSender
    <2>1. SUFFICES ASSUME IInv, run = 1, toGame # <<>>
                   PROVE  Resolved(Head(toGame)) \in {NoPlayer, account[Head(toGame).session]}
      BY DEF HandledForSender
    <2>2. PICK m \in Notices : m = Head(toGame) /\ m \in ToSet(toGame)
      BY <2>1, ToGameTail DEF IInv
    <2>3. Resolved(m) \in {NoPlayer, account[m.session]}
      BY <2>1, <2>2, ResolvedIs DEF IInv, FirstRun
    <2>4. QED
      BY <2>2, <2>3
  <1>2. QED
    BY <1>1, InvariantHolds, PTL

-----------------------------------------------------------------------------
(* What the game server is yet to hear, when no message was lost.          *)

OfflineOf(s) == {m \in Notices : m.kind = "offline" /\ m.session = s}
PresentOf(s) == {m \in Notices : m.kind = "present" /\ m.session = s /\ m.player # NoPlayer}
OtherOf(s) == {m \in Sent : m.kind # "offline" /\ m.session = s}

Live(s) == state[s] = "Authenticated" \/ playerID[s] = NoPlayer
Bound(s) == attached[s] /\ playerID[s] # NoPlayer
Alone(s) == account[s] \in Players /\ SessionsOf(account[s]) = {s}
Awaiting(s) ==
    playerID[s] = NoPlayer /\ \E l \in Links : \E a \in ToSet(down[l]) : a.session = s

\* A session that is not live any more has said so behind everything else it sent,
\* its login at the service included.
EndAnnounced(s) ==
    \/ Live(s)
    \/ /\ Behind(up[LinkOf(s)], toGame, OtherOf(s), OfflineOf(s))
       /\ login[LinkOf(s)].session = s => Holds(up[LinkOf(s)], OfflineOf(s))

\* A player is Active for a live session, or for one whose notice is on its way.
ActiveFor(p) ==
    pstate[p] = "Active" =>
        \E s \in SessionsOf(p) : Live(s) \/ Within(up[LinkOf(s)], toGame, OfflineOf(s))

\* The player of a connected session, the only one of its account, is Active or
\* hears of it behind every offline notice; the game server hears of a login
\* before the gate has its answer.
PresenceAnnounced(s) ==
    Alone(s) =>
        /\ Bound(s) =>
              /\ Behind(up[LinkOf(s)], toGame, OfflineOf(s), PresentOf(s))
              /\ Within(up[LinkOf(s)], toGame, PresentOf(s)) \/ pstate[account[s]] = "Active"
        /\ Awaiting(s) => Holds(toGame, PresentOf(s)) \/ pstate[account[s]] = "Active"

Heard ==
    /\ \A s \in Sessions : EndAnnounced(s) /\ PresenceAnnounced(s)
    /\ \A p \in Players : ActiveFor(p)

Tracked == run = 1 /\ lost = 0 => Heard

\* What a message is of decides the sets it is in.
LEMMA MessageSets ==
    ASSUME NEW s \in Sessions, NEW m \in Sent
    PROVE  /\ m.session # s => m \notin OtherOf(s) /\ m \notin OfflineOf(s) /\ m \notin PresentOf(s)
           /\ m.kind # "offline" => m \notin OfflineOf(s)
           /\ m.kind = "offline" => m \notin OtherOf(s) /\ m \notin PresentOf(s)
           /\ m \in PresentOf(s) => m.session = s /\ m \in OtherOf(s) /\ m \in Notices
           /\ m \in Notices /\ m.session = s /\ m.kind = "offline" => m \in OfflineOf(s)
           /\ m.session = s /\ m.kind # "offline" => m \in OtherOf(s)
           /\ m \in Notices /\ m.session = s /\ m.kind = "present" /\ m.player # NoPlayer
                => m \in PresentOf(s)
           /\ OfflineOf(s) \subseteq Sent /\ PresentOf(s) \subseteq Sent /\ OtherOf(s) \subseteq Sent
  BY SentType DEF OtherOf, OfflineOf, PresentOf

\* What a handler of the gate does to the link of session s.
Mum(s) == up'[LinkOf(s)] = up[LinkOf(s)]
Says(s, M) == \E m \in M : up'[LinkOf(s)] = Append(up[LinkOf(s)], m)

\* A session ends with an offline notice and says nothing else after it; it is
\* bound by an answer or, when it is resumed, with a notice.
GateMove(s) ==
    /\ Mum(s) \/ Says(s, Sent)
    /\ Live(s)' \/ Says(s, OfflineOf(s)) \/ (~Live(s) /\ (Mum(s) \/ Says(s, Sent \ OtherOf(s))))
    /\ Bound(s)' => \/ Says(s, PresentOf(s))
                    \/ (Bound(s) \/ Awaiting(s)) /\ (Mum(s) \/ Says(s, Sent \ OfflineOf(s)))

\* Others on the link of a session that says m.
LEMMA OthersHear ==
    ASSUME Types, NEW s \in Sessions, NEW m \in Sent, m.session = s, Adds(s, m),
           NEW t \in Sessions, t # s
    PROVE  Mum(t) \/ (Says(t, Sent \ OtherOf(t)) /\ Says(t, Sent \ OfflineOf(t)) /\ Says(t, Sent))
  <1>1. m \notin OtherOf(t) /\ m \notin OfflineOf(t)
    BY MessageSets
  <1>2. /\ up'[LinkOf(s)] = Append(up[LinkOf(s)], m)
        /\ \A l \in Links : l # LinkOf(s) => up'[l] = up[l]
    BY AddUp
  <1>3. LinkOf(t) \in Links
    BY LinkType DEF Types
  <1>4. CASE LinkOf(t) = LinkOf(s)
    BY <1>1, <1>2, <1>4 DEF Says
  <1>5. CASE LinkOf(t) # LinkOf(s)
    BY <1>2, <1>3, <1>5 DEF Mum
  <1>6. QED
    BY <1>4, <1>5

\* A handler of session s, which says at most one message of its own.
LEMMA OneActs ==
    ASSUME Types, NEW s \in Sessions,
           UNCHANGED up \/ (\E m \in Sent : m.session = s /\ Adds(s, m)),
           GateMove(s),
           \A t \in Sessions : t # s => (Live(t)' <=> Live(t)) /\ (Bound(t)' => Bound(t))
    PROVE  \A t \in Sessions : GateMove(t)
  <1>1. SUFFICES ASSUME NEW t \in Sessions, t # s PROVE GateMove(t)
    OBVIOUS
  <1>2. Mum(t) \/ (Says(t, Sent \ OtherOf(t)) /\ Says(t, Sent \ OfflineOf(t)) /\ Says(t, Sent))
    BY <1>1, OthersHear DEF Mum
  <1>3. QED
    BY <1>1, <1>2 DEF GateMove

LEMMA SaysOwn ==
    ASSUME Types, NEW s \in Sessions, NEW m, Adds(s, m), m \in Sent
    PROVE  \A M : m \in M => Says(s, M)
  BY AddUp DEF Says

LEMMA NotifyMove ==
    ASSUME IInv, NEW s \in Sessions, NEW kind \in {"offline", "present"}, Notifies(s, kind)
    PROVE  /\ UNCHANGED up \/ (\E m \in Sent : m.session = s /\ Adds(s, m))
           /\ Mum(s) \/ Says(s, Sent)
           /\ \/ playerID[s] = NoPlayer /\ UNCHANGED up
              \/ kind = "offline" /\ Says(s, OfflineOf(s))
              \/ kind = "present" /\ Says(s, PresentOf(s))
  <1>1. CASE UNCHANGED up /\ playerID[s] = NoPlayer
    BY <1>1 DEF Mum
  <1> DEFINE n == Message(kind, s, playerID[s])
  <1>2. CASE playerID[s] # NoPlayer /\ Adds(s, n) /\ n \in Notices
    <2>1. PICK m \in Notices : m = n
      BY <1>2
    <2>2. m.kind = kind /\ m.session = s /\ m.player = playerID[s]
      BY <2>1 DEF Message
    <2>3. m \in Sent /\ Adds(s, m)
      BY <1>2, <2>1, SentType
    <2>4. /\ kind = "offline" => m \in OfflineOf(s)
          /\ kind = "present" => m \in PresentOf(s)
      BY <1>2, <2>2, <2>3, MessageSets
    <2>5. \A M : m \in M => Says(s, M)
      BY <2>3, SaysOwn DEF IInv
    <2>6. QED
      BY <2>2, <2>3, <2>4, <2>5
  <1>3. QED
    BY <1>1, <1>2, NotifyEffect

LEMMA FirstLoginMove ==
    ASSUME IInv, IInv', NEW p \in Players, FirstLogin(p)
    PROVE  \A t \in Sessions : GateMove(t)
  <1>1. PICK s \in FreshId :
            /\ state' = [state EXCEPT ![s] = "Online"]
            /\ attached' = [attached EXCEPT ![s] = TRUE]
            /\ playerID' = [playerID EXCEPT ![s] = NoPlayer]
            /\ Sends(s, LoginReq(s, p))
    BY DEF FirstLogin
  <1>2. s \in Sessions
    BY <1>1 DEF FreshId
  <1>3. PICK m \in Logins : m = LoginReq(s, p)
    BY <1>2, LoginType
  <1>4. m \in Sent /\ m.session = s /\ Adds(s, m)
    BY <1>1, <1>2, <1>3, LoginType, SentType DEF Sends, Adds
  <1>5. Live(s)' /\ ~Bound(s)'
    BY <1>1, <1>2 DEF IInv, Types, Live, Bound
  <1>6. Says(s, Sent)
    BY <1>2, <1>4, SaysOwn DEF IInv
  <1>7. GateMove(s)
    BY <1>5, <1>6 DEF GateMove
  <1>8. \A t \in Sessions : t # s => (Live(t)' <=> Live(t)) /\ (Bound(t)' => Bound(t))
    BY <1>1, <1>2 DEF IInv, Types, Live, Bound
  <1>9. QED
    BY <1>2, <1>4, <1>7, <1>8, OneActs DEF IInv

LEMMA LoginAgainMove ==
    ASSUME IInv, NEW s \in Sessions, LoginAgain(s)
    PROVE  \A t \in Sessions : GateMove(t)
  <1>1. account[s] \in Players /\ playerID[s] = NoPlayer
    BY InUse DEF LoginAgain, IInv, SessionsOwned
  <1>2. PICK m \in Logins : m = LoginReq(s, account[s])
    BY <1>1, LoginType
  <1>3. m \in Sent /\ m.session = s /\ Adds(s, m)
    BY <1>1, <1>2, LoginType, SentType DEF LoginAgain, Sends, Adds
  <1>4. Live(s)' /\ ~Bound(s)'
    BY <1>1 DEF LoginAgain, Live, Bound
  <1>5. Says(s, Sent)
    BY <1>3, SaysOwn DEF IInv
  <1>6. GateMove(s)
    BY <1>4, <1>5 DEF GateMove
  <1>7. \A t \in Sessions : t # s => (Live(t)' <=> Live(t)) /\ (Bound(t)' => Bound(t))
    BY DEF LoginAgain, IInv, Types, Live, Bound
  <1>8. QED
    BY <1>3, <1>6, <1>7, OneActs DEF IInv

LEMMA ReadErrorMove ==
    ASSUME IInv, NEW s \in Sessions, ReadError(s)
    PROVE  \A t \in Sessions : GateMove(t)
  <1>1. Notifies(s, "offline")
    BY DEF ReadError
  <1>2. ~Bound(s)' /\ (playerID[s] = NoPlayer => Live(s)')
    BY DEF ReadError, IInv, Types, Live, Bound
  <1>3. GateMove(s)
    BY <1>1, <1>2, NotifyMove DEF GateMove
  <1>4. \A t \in Sessions : t # s => (Live(t)' <=> Live(t)) /\ (Bound(t)' => Bound(t))
    BY DEF ReadError, IInv, Types, Live, Bound
  <1>5. QED
    BY <1>1, <1>3, <1>4, NotifyMove, OneActs DEF IInv

LEMMA KickMove ==
    ASSUME IInv, NEW s \in Sessions, Kick(s)
    PROVE  \A t \in Sessions : GateMove(t)
  <1>1. Notifies(s, "offline")
    BY DEF Kick, KickNotifies
  <1>2. ~Bound(s)' /\ (playerID[s] = NoPlayer => Live(s)')
    BY DEF Kick, IInv, Types, Live, Bound
  <1>3. GateMove(s)
    BY <1>1, <1>2, NotifyMove DEF GateMove
  <1>4. \A t \in Sessions : t # s => (Live(t)' <=> Live(t)) /\ (Bound(t)' => Bound(t))
    BY DEF Kick, IInv, Types, Live, Bound
  <1>5. QED
    BY <1>1, <1>3, <1>4, NotifyMove, OneActs DEF IInv

LEMMA ResumeMove ==
    ASSUME IInv, NEW s \in Sessions, Resume(s)
    PROVE  \A t \in Sessions : GateMove(t)
  <1>1. Notifies(s, "present")
    BY DEF Resume
  <1>2. Live(s)' /\ (playerID[s] = NoPlayer => ~Bound(s)')
    BY DEF Resume, IInv, Types, Live, Bound
  <1>3. GateMove(s)
    BY <1>1, <1>2, NotifyMove DEF GateMove
  <1>4. \A t \in Sessions : t # s => (Live(t)' <=> Live(t)) /\ (Bound(t)' => Bound(t))
    BY DEF Resume, IInv, Types, Live, Bound
  <1>5. QED
    BY <1>1, <1>3, <1>4, NotifyMove, OneActs DEF IInv

\* A session that makes a request is live.
LEMMA RequestMove ==
    ASSUME IInv, NEW s \in Sessions, Request(s)
    PROVE  \A t \in Sessions : GateMove(t)
  <1>1. playerID[s] \in PlayerIds
    BY DEF IInv, Types
  <1>2. PICK m \in Notices : m = Message("present", s, playerID[s])
    BY <1>1, MessageType
  <1>3. m \in Sent /\ m.session = s /\ m.kind = "present" /\ Adds(s, m)
    BY <1>1, <1>2, MessageType, SentType DEF Request, Sends, Adds
  <1>4. Says(s, Sent \ OfflineOf(s)) /\ Says(s, Sent)
    <2>1. m \notin OfflineOf(s)
      BY <1>3, MessageSets
    <2>2. QED
      BY <1>3, <2>1, SaysOwn DEF IInv
  <1>5. \A t \in Sessions : (Live(t)' <=> Live(t)) /\ (Bound(t)' <=> Bound(t))
    BY DEF Request, gateVars, Live, Bound
  <1>6. Live(s)
    BY DEF Request, Live, IInv, SessionsOwned
  <1>7. GateMove(s)
    BY <1>4, <1>5, <1>6 DEF GateMove
  <1>8. QED
    BY <1>3, <1>5, <1>7, OneActs DEF IInv

LEMMA CollectMove ==
    ASSUME IInv, NEW s \in Sessions, Collect(s)
    PROVE  \A t \in Sessions : GateMove(t)
  <1>1. \A t \in Sessions : Mum(t)
    BY DEF Collect, Mum
  <1>2. \A t \in Sessions : (Live(t)' <=> Live(t)) /\ (Bound(t)' <=> Bound(t))
    BY DEF Collect, IInv, Types, Live, Bound
  <1>3. QED
    BY <1>1, <1>2 DEF GateMove

\* The session an answer binds was bound before or awaited one; the session it
\* displaces ends.
LEMMA LoginRspMove ==
    ASSUME IInv, NEW l \in Links, LoginRsp(l)
    PROVE  \A t \in Sessions : GateMove(t)
  <1>1. PICK a \in Answers : a \in ToSet(down[l]) /\
            IF Registered(a.session) THEN Answered(a.session, a.player)
            ELSE UNCHANGED <<byPlayer, playerID, attached, state, up>>
    BY AnswerRead
  <1> DEFINE s == a.session
             p == a.player
  <1>2. s \in Sessions /\ p \in Players
    BY DEF Answers
  <1>3. playerID[s] = NoPlayer => Awaiting(s)
    BY <1>1 DEF Awaiting
  <1>4. /\ ~Registered(s) => UNCHANGED <<byPlayer, playerID, attached, state, up>>
        /\ Registered(s) => Answered(s, p)
    BY <1>1
  <1> HIDE DEF s, p
  <1>5. CASE ~Registered(s)
    <2>1. \A t \in Sessions : Mum(t) /\ (Live(t)' <=> Live(t)) /\ (Bound(t)' <=> Bound(t))
      BY <1>4, <1>5 DEF Mum, Live, Bound
    <2>2. QED
      BY <2>1 DEF GateMove
  <1>6. CASE Registered(s)
    <2>1. Answered(s, p)
      BY <1>4, <1>6
    <2>2. /\ Live(s)' /\ (Bound(s)' => Bound(s) \/ Awaiting(s))
          /\ \A t \in Sessions : t # s /\ t \notin Displaced(s, p) =>
                (Live(t)' <=> Live(t)) /\ (Bound(t)' <=> Bound(t))
          /\ \A t \in Sessions : t # s /\ t \in Displaced(s, p) =>
                ~Bound(t)' /\ (playerID[t] = NoPlayer => Live(t)')
      <3>1. /\ state'[s] = "Authenticated" /\ (attached'[s] => attached[s])
            /\ \A t \in Sessions : t # s => playerID'[t] = playerID[t]
            /\ \A t \in Sessions : t # s /\ t \notin Displaced(s, p) =>
                  state'[t] = state[t] /\ attached'[t] = attached[t]
            /\ \A t \in Sessions : t \in Displaced(s, p) => ~attached'[t]
        BY <1>2, <2>1 DEF Answered, IInv, Types
      <3>2. QED
        BY <1>3, <3>1 DEF Live, Bound
    <2>3. CASE Displaced(s, p) = {}
      <3>1. \A t \in Sessions : Mum(t)
        BY <2>1, <2>3 DEF Answered, Mum
      <3>2. \A t \in Sessions : t = s \/ ((Live(t)' <=> Live(t)) /\ (Bound(t)' <=> Bound(t)))
        BY <2>2, <2>3
      <3>3. QED
        BY <2>2, <3>1, <3>2 DEF GateMove
    <2>4. ASSUME NEW u \in Displaced(s, p) PROVE \A t \in Sessions : GateMove(t)
      <3>1. u = byPlayer[p] /\ u # NoSession /\ u # s /\ \A t \in Displaced(s, p) : t = u
        BY <1>2, <2>4, DisplacedIs DEF Displaced
      <3>2. u \in Sessions
        BY <1>2, <3>1 DEF IInv, Types
      <3>3. Notifies(u, "offline")
        BY <2>1, <2>4 DEF Answered
      <3>4. GateMove(u)
        BY <2>2, <2>4, <3>1, <3>2, <3>3, NotifyMove DEF GateMove
      <3>5. ASSUME NEW t \in Sessions, t # u PROVE GateMove(t)
        <4>1. Mum(t) \/ (Says(t, Sent \ OtherOf(t)) /\ Says(t, Sent \ OfflineOf(t)) /\ Says(t, Sent))
          BY <3>2, <3>3, <3>5, NotifyMove, OthersHear DEF Mum, IInv
        <4>2. CASE t = s
          BY <2>2, <4>1, <4>2 DEF GateMove
        <4>3. CASE t # s
          <5>1. (Live(t)' <=> Live(t)) /\ (Bound(t)' <=> Bound(t))
            BY <2>2, <3>1, <3>5, <4>3
          <5>2. QED
            BY <4>1, <5>1 DEF GateMove
        <4>4. QED
          BY <4>2, <4>3
      <3>6. QED
        BY <3>4, <3>5
    <2>5. QED
      BY <2>3, <2>4
  <1>7. QED
    BY <1>5, <1>6

LEMMA GateMoves ==
    ASSUME IInv, GateStep
    PROVE  \A s \in Sessions : GateMove(s)
  <1>1. IInv'
    BY GateStepKeeps
  <1>2. QED
    BY <1>1, FirstLoginMove, LoginAgainMove, ReadErrorMove, KickMove, ResumeMove, RequestMove, CollectMove,
       LoginRspMove DEF GateStep

\* A session with a player or an answer to come is in use.
LEMMA KnownInUse ==
    ASSUME IInv, run = 1, NEW s \in Sessions, Bound(s) \/ Awaiting(s)
    PROVE  s <= nextID
  BY DEF IInv, SessionsOwned, LoginsOwned, Owned, FirstRun, Bound, Awaiting

\* No offline notice is on its way for a session that has had no player.
LEMMA NoEnd ==
    ASSUME IInv, run = 1, NEW s \in Sessions, playerID[s] = NoPlayer, NEW B
    PROVE  Behind(up[LinkOf(s)], toGame, OfflineOf(s), B)
  <1>1. LinkOf(s) \in Links /\ up[LinkOf(s)] \in Seq(Sent) /\ toGame \in Seq(Notices)
    BY LinkType DEF IInv, Types
  <1>2. ASSUME NEW m \in OfflineOf(s) PROVE ~NoticeOwned(m)
    BY DEF OfflineOf, NoticeOwned
  <1>3. ASSUME NEW m \in OfflineOf(s) PROVE m \notin ToSet(up[LinkOf(s)]) /\ m \notin ToSet(toGame)
    BY <1>1, <1>2 DEF IInv, FirstRun, OfflineOf
  <1>4. ~Holds(up[LinkOf(s)], OfflineOf(s)) /\ ~Holds(toGame, OfflineOf(s))
    BY <1>1, <1>3, HeldIsIn
  <1>5. QED
    BY <1>4, NoneFollowed DEF Behind

LEMMA GateHears ==
    ASSUME IInv, IInv', run = 1, Heard, GateGrows, \A s \in Sessions : GateMove(s)
    PROVE  Heard'
  <1>1. /\ toGame' = toGame /\ pstate' = pstate /\ login' = login /\ run' = run
        /\ \A l \in Links : ToSet(down'[l]) \subseteq ToSet(down[l])
        /\ \A s \in Sessions : s <= nextID =>
              account'[s] = account[s] /\ (playerID'[s] = NoPlayer => playerID[s] = NoPlayer)
    BY DEF GateGrows
  <1>2. \A s \in Sessions : LinkOf(s)' = LinkOf(s) /\ LinkOf(s) \in Links
    BY <1>1, LinkType DEF LinkOf, IInv, Types
  <1>3. \A s \in Sessions : up[LinkOf(s)] \in Seq(Sent)
    BY <1>2 DEF IInv, Types
  <1>4. ASSUME NEW s \in Sessions PROVE EndAnnounced(s)'
    <2> DEFINE u == up[LinkOf(s)]
               v == up'[LinkOf(s)]
               A == OtherOf(s)
               B == OfflineOf(s)
    <2>1. SUFFICES ASSUME ~Live(s)'
                   PROVE  Behind(v, toGame, A, B) /\ (login[LinkOf(s)].session = s => Holds(v, B))
      BY <1>1, <1>2 DEF EndAnnounced
    <2>2. u \in Seq(Sent)
      BY <1>3
    <2>3. ~Live(s) => Behind(u, toGame, A, B) /\ (login[LinkOf(s)].session = s => Holds(u, B))
      BY DEF Heard, EndAnnounced
    <2>4. CASE Says(s, OfflineOf(s))
      <3>1. PICK m \in B : v = Append(u, m)
        BY <2>4 DEF Says
      <3>2. m \in Sent /\ m \notin A
        BY SentType DEF OtherOf, OfflineOf
      <3> HIDE DEF u, v, A, B
      <3>3. QED
        BY <2>2, <3>1, <3>2, BehindSent, WithinSent
    <2>5. CASE ~Live(s) /\ Mum(s)
      BY <2>3, <2>5 DEF Mum
    <2>6. CASE ~Live(s) /\ Says(s, Sent \ OtherOf(s))
      <3>1. PICK m \in Sent : m \notin A /\ v = Append(u, m)
        BY <2>6 DEF Says
      <3>2. ~Live(s)
        BY <2>6
      <3> HIDE DEF u, v, A, B
      <3>3. QED
        BY <2>2, <2>3, <3>1, <3>2, BehindSent, WithinSent
    <2>7. QED
      BY <2>1, <2>4, <2>5, <2>6 DEF GateMove
  <1>5. ASSUME NEW s \in Sessions, NEW B, Within(up[LinkOf(s)], toGame, B)
        PROVE  Within(up'[LinkOf(s)], toGame, B)
    <2>1. CASE Mum(s)
      BY <1>5, <2>1 DEF Mum
    <2>2. CASE Says(s, Sent)
      <3>1. PICK m \in Sent : up'[LinkOf(s)] = Append(up[LinkOf(s)], m)
        BY <2>2 DEF Says
      <3>2. QED
        BY <1>3, <1>5, <3>1, WithinSent
    <2>3. QED
      BY <2>1, <2>2 DEF GateMove
  <1>6. ASSUME NEW p \in Players PROVE ActiveFor(p)'
    <2>1. SUFFICES ASSUME pstate[p] = "Active"
                   PROVE  \E s \in SessionsOf(p)' : Live(s)' \/ Within(up'[LinkOf(s)], toGame, OfflineOf(s))
      BY <1>1, <1>2 DEF ActiveFor, SessionsOf
    <2>2. PICK s \in SessionsOf(p) : Live(s) \/ Within(up[LinkOf(s)], toGame, OfflineOf(s))
      BY <2>1 DEF Heard, ActiveFor
    <2>3. s \in Sessions /\ account[s] = p /\ p # NoPlayer
      BY <2>2, ClusterAssumption DEF SessionsOf
    <2>4. account'[s] = p
      BY <1>1, <2>3 DEF IInv, SessionsOwned
    <2>5. s \in SessionsOf(p)'
      BY <2>3, <2>4 DEF SessionsOf
    <2>6. CASE Live(s)'
      BY <2>5, <2>6
    <2>7. CASE Says(s, OfflineOf(s))
      <3>1. PICK m \in OfflineOf(s) : up'[LinkOf(s)] = Append(up[LinkOf(s)], m)
        BY <2>7 DEF Says
      <3>2. m \in Sent
        BY <2>3, SentType DEF OfflineOf
      <3>3. Within(up'[LinkOf(s)], toGame, OfflineOf(s))
        BY <1>3, <2>3, <3>1, <3>2, WithinSent
      <3>4. QED
        BY <2>5, <3>3
    <2>8. CASE ~Live(s)
      BY <1>5, <2>2, <2>3, <2>5, <2>8
    <2>9. QED
      BY <2>3, <2>6, <2>7, <2>8 DEF GateMove
  <1>7. ASSUME NEW s \in Sessions PROVE PresenceAnnounced(s)'
    <2> DEFINE u == up[LinkOf(s)]
               v == up'[LinkOf(s)]
               A == OfflineOf(s)
               B == PresentOf(s)
    <2>1. u \in Seq(Sent)
      BY <1>3
    <2>2. ASSUME s <= nextID, Alone(s)'
          PROVE  Alone(s) /\ pstate[account'[s]] = pstate[account[s]]
      <3>1. account'[s] = account[s] /\ account[s] \in Players
        BY <1>1, <2>2 DEF IInv, SessionsOwned
      <3>2. ASSUME NEW t \in Sessions, account[t] = account[s] PROVE t = s
        <4>1. t <= nextID
          BY <3>1, <3>2, ClusterAssumption DEF IInv, SessionsOwned
        <4>2. account'[t] = account'[s]
          BY <1>1, <3>1, <3>2, <4>1
        <4>3. QED
          BY <2>2, <4>2 DEF Alone, SessionsOf
      <3>3. SessionsOf(account[s]) = {s}
        BY <3>2 DEF SessionsOf
      <3>4. QED
        BY <3>1, <3>3 DEF Alone
    <2>3. ASSUME Alone(s)', Bound(s)'
          PROVE  Behind(v, toGame, A, B) /\ (Within(v, toGame, B) \/ pstate[account'[s]] = "Active")
      <3>1. CASE Says(s, PresentOf(s))
        <4>1. PICK m \in B : v = Append(u, m)
          BY <3>1 DEF Says
        <4>2. m \in Sent /\ m \notin A
          BY SentType DEF OfflineOf, PresentOf
        <4> HIDE DEF u, v, A, B
        <4>3. QED
          BY <2>1, <4>1, <4>2, BehindSent, WithinSent
      <3>2. CASE (Bound(s) \/ Awaiting(s)) /\ (Mum(s) \/ Says(s, Sent \ OfflineOf(s)))
        <4>1. Alone(s) /\ pstate[account'[s]] = pstate[account[s]]
          BY <2>2, <2>3, <3>2, KnownInUse
        <4>2. Within(u, toGame, B) \/ pstate[account[s]] = "Active"
          BY <3>2, <4>1 DEF Heard, PresenceAnnounced, Within
        <4>3. Behind(u, toGame, A, B)
          <5>1. CASE Bound(s)
            BY <4>1, <5>1 DEF Heard, PresenceAnnounced
          <5>2. CASE Awaiting(s)
            BY <5>2, NoEnd DEF Awaiting
          <5>3. QED
            BY <3>2, <5>1, <5>2
        <4>4. Behind(v, toGame, A, B)
          <5>1. CASE Mum(s)
            BY <4>3, <5>1 DEF Mum
          <5>2. CASE Says(s, Sent \ OfflineOf(s))
            <6>1. PICK m \in Sent : m \notin A /\ v = Append(u, m)
              BY <5>2 DEF Says
            <6> HIDE DEF u, v, A, B
            <6>2. QED
              BY <2>1, <4>3, <6>1, BehindSent
          <5>3. QED
            BY <3>2, <5>1, <5>2
        <4>5. QED
          BY <1>5, <4>1, <4>2, <4>4
      <3>3. QED
        BY <2>3, <3>1, <3>2 DEF GateMove
    <2>4. ASSUME Alone(s)', Awaiting(s)'
          PROVE  Holds(toGame, B) \/ pstate[account'[s]] = "Active"
      <3>1. PICK l \in Links : \E a \in ToSet(down'[l]) : a.session = s
        BY <2>4 DEF Awaiting
      <3>2. \E a \in ToSet(down[l]) : a.session = s
        BY <1>1, <3>1
      <3>3. s <= nextID
        BY <3>2 DEF IInv, LoginsOwned, Owned, FirstRun
      <3>4. Awaiting(s) /\ Alone(s) /\ pstate[account'[s]] = pstate[account[s]]
        BY <1>1, <2>2, <2>4, <3>2, <3>3 DEF Awaiting
      <3>5. QED
        BY <3>4 DEF Heard, PresenceAnnounced
    <2>5. QED
      BY <1>1, <1>2, <2>3, <2>4 DEF PresenceAnnounced
  <1>8. QED
    BY <1>4, <1>6, <1>7 DEF Heard

\* What stays of sessions when the gate does nothing.
LEMMA IdleSessions ==
    ASSUME IInv, GateIdle
    PROVE  /\ account' = account
           /\ \A p : SessionsOf(p)' = SessionsOf(p)
           /\ \A s \in Sessions :
                 /\ LinkOf(s)' = LinkOf(s) /\ LinkOf(s) \in Links /\ up[LinkOf(s)] \in Seq(Sent)
                 /\ (Live(s)' <=> Live(s)) /\ (Bound(s)' <=> Bound(s)) /\ (Alone(s)' <=> Alone(s))
                 /\ playerID'[s] = playerID[s]
  <1>1. \A s \in Sessions : LinkOf(s) \in Links
    BY LinkType DEF IInv, Types
  <1>2. \A s \in Sessions : up[LinkOf(s)] \in Seq(Sent)
    BY <1>1 DEF IInv, Types
  <1>3. QED
    BY <1>1, <1>2 DEF GateIdle, LinkOf, SessionsOf, Live, Bound, Alone

\* A login that starts has its session's offline notice behind it, if there is one.
LEMMA StartLoginHears ==
    ASSUME IInv, run = 1, Heard, NEW l \in Links, StartLogin(l)
    PROVE  Heard'
  <1>1. PICK m \in Logins : m = Head(up[l]) /\ m \in ToSet(up[l]) /\ m.session \in Sessions
    BY HeadOfLink DEF StartLogin, Reading
  <1>2. m \in Sent /\ m.kind = "login" /\ l = LinkOf(m.session) /\ up[l] # <<>> /\ login[l] = NoLogin
    BY <1>1, SentType DEF Logins, IInv, FirstRun, StartLogin, Reading
  <1>3. /\ up'[l] = Tail(up[l]) /\ \A k \in Links : k # l => up'[k] = up[k]
    BY <1>2, TakeUp DEF IInv, StartLogin
  <1>4. /\ login'[l] = m /\ \A k \in Links : k # l => login'[k] = login[k]
        /\ toGame' = toGame /\ pstate' = pstate /\ down' = down /\ GateIdle
    BY <1>1 DEF StartLogin, gateVars, gameVars, faultVars, GateIdle, IInv, Types
  <1>5. \A s \in Sessions :
            m \notin OfflineOf(s) /\ m \notin PresentOf(s) /\ (m.session = s => m \in OtherOf(s))
    BY <1>2 DEF OfflineOf, PresentOf, OtherOf
  <1>6. ASSUME NEW s \in Sessions, NEW B, m \notin B, Within(up[LinkOf(s)], toGame, B)
        PROVE  Within(up'[LinkOf(s)], toGame, B)
    <2>1. CASE LinkOf(s) = l
      <3>1. up[l] \in Seq(Sent) /\ up[l] # <<>> /\ Head(up[l]) \notin B /\ Within(up[l], toGame, B)
        BY <1>1, <1>2, <1>4, <1>6, <2>1, IdleSessions
      <3>2. Within(Tail(up[l]), toGame, B)
        BY <3>1, WithinTaken
      <3>3. QED
        BY <1>3, <2>1, <3>2
    <2>2. CASE LinkOf(s) # l
      BY <1>3, <1>4, <1>6, <2>2, IdleSessions
    <2>3. QED
      BY <2>1, <2>2
  <1>7. ASSUME NEW s \in Sessions, NEW A, NEW B, m \notin B, Behind(up[LinkOf(s)], toGame, A, B)
        PROVE  Behind(up'[LinkOf(s)], toGame, A, B)
    <2>1. CASE LinkOf(s) = l
      <3>1. up[l] \in Seq(Sent) /\ up[l] # <<>> /\ Head(up[l]) \notin B /\ Behind(up[l], toGame, A, B)
        BY <1>1, <1>2, <1>4, <1>7, <2>1, IdleSessions
      <3>2. Behind(Tail(up[l]), toGame, A, B)
        BY <3>1, BehindTaken
      <3>3. QED
        BY <1>3, <2>1, <3>2
    <2>2. CASE LinkOf(s) # l
      BY <1>3, <1>4, <1>7, <2>2, IdleSessions
    <2>3. QED
      BY <2>1, <2>2
  <1>8. ASSUME NEW s \in Sessions PROVE EndAnnounced(s)'
    <2>1. SUFFICES ASSUME ~Live(s)
                   PROVE  /\ Behind(up'[LinkOf(s)], toGame, OtherOf(s), OfflineOf(s))
                          /\ login'[LinkOf(s)].session = s => Holds(up'[LinkOf(s)], OfflineOf(s))
      BY <1>4, IdleSessions DEF EndAnnounced
    <2>2. /\ Behind(up[LinkOf(s)], toGame, OtherOf(s), OfflineOf(s))
          /\ login[LinkOf(s)].session = s => Holds(up[LinkOf(s)], OfflineOf(s))
      BY <2>1 DEF Heard, EndAnnounced
    <2>3. Behind(up'[LinkOf(s)], toGame, OtherOf(s), OfflineOf(s))
      BY <1>5, <1>7, <2>2
    <2>4. CASE LinkOf(s) = l
      <3>1. m.session = s => Holds(Tail(up[l]), OfflineOf(s))
        <4>1. /\ up[l] \in Seq(Sent) /\ up[l] # <<>> /\ Head(up[l]) \notin OfflineOf(s)
              /\ Behind(up[l], toGame, OtherOf(s), OfflineOf(s))
          BY <1>1, <1>2, <1>4, <1>5, <2>2, <2>4, IdleSessions
        <4>2. Head(up[l]) \in OtherOf(s) => Holds(Tail(up[l]), OfflineOf(s))
          BY <4>1, BehindTaken
        <4>3. QED
          BY <1>1, <1>5, <4>2
      <3>2. QED
        BY <1>3, <1>4, <2>3, <2>4, <3>1
    <2>5. CASE LinkOf(s) # l
      BY <1>3, <1>4, <2>2, <2>3, <2>5, IdleSessions
    <2>6. QED
      BY <2>4, <2>5
  <1>9. ASSUME NEW s \in Sessions PROVE PresenceAnnounced(s)'
    <2>1. Awaiting(s)' <=> Awaiting(s)
      BY <1>4 DEF Awaiting, GateIdle
    <2>2. QED
      BY <1>4, <1>5, <1>6, <1>7, <2>1, IdleSessions DEF Heard, PresenceAnnounced
  <1>10. ASSUME NEW p \in Players PROVE ActiveFor(p)'
    BY <1>4, <1>5, <1>6, IdleSessions DEF Heard, ActiveFor, SessionsOf
  <1>11. QED
    BY <1>8, <1>9, <1>10 DEF Heard

\* A notice goes on from its session's link; others' notices are none of its own.
LEMMA ForwardHears ==
    ASSUME IInv, run = 1, Heard, NEW l \in Links, Forward(l)
    PROVE  Heard'
  <1>1. PICK m \in Notices : m = Head(up[l]) /\ m \in ToSet(up[l]) /\ m.session \in Sessions
    BY HeadOfLink DEF Forward, Reading
  <1>2. m \in Sent /\ l = LinkOf(m.session) /\ up[l] # <<>> /\ login[l] = NoLogin
    BY <1>1, SentType DEF IInv, FirstRun, Forward, Reading
  <1>3. /\ up'[l] = Tail(up[l]) /\ \A k \in Links : k # l => up'[k] = up[k]
    BY <1>2, TakeUp DEF IInv, Forward
  <1>4. /\ login' = login /\ toGame' = Append(toGame, m) /\ toGame \in Seq(Notices)
        /\ pstate' = pstate /\ down' = down /\ GateIdle
    BY <1>1 DEF Forward, Forwards, gateVars, gameVars, faultVars, GateIdle, IInv, Types
  <1>5. \A s \in Sessions : m.session # s =>
            m \notin OfflineOf(s) /\ m \notin PresentOf(s) /\ m \notin OtherOf(s)
    BY <1>2, MessageSets
  <1>6. ASSUME NEW s \in Sessions, NEW B, Within(up[LinkOf(s)], toGame, B)
        PROVE  Within(up'[LinkOf(s)], toGame', B)
    <2>1. CASE LinkOf(s) = l
      <3>1. up[l] \in Seq(Sent) /\ up[l] # <<>> /\ Head(up[l]) \in Notices /\ Within(up[l], toGame, B)
        BY <1>1, <1>2, <1>4, <1>6, <2>1, IdleSessions
      <3>2. Within(Tail(up[l]), Append(toGame, Head(up[l])), B)
        BY <1>4, <3>1, WithinMoved
      <3>3. QED
        BY <1>1, <1>3, <1>4, <2>1, <3>2
    <2>2. CASE LinkOf(s) # l
      BY <1>3, <1>4, <1>6, <2>2, IdleSessions, WithinJoined
    <2>3. QED
      BY <2>1, <2>2
  <1>7. ASSUME NEW s \in Sessions, NEW A, NEW B, m.session # s => m \notin A,
               Behind(up[LinkOf(s)], toGame, A, B)
        PROVE  Behind(up'[LinkOf(s)], toGame', A, B)
    <2>1. CASE LinkOf(s) = l
      <3>1. up[l] \in Seq(Sent) /\ up[l] # <<>> /\ Head(up[l]) \in Notices /\ Behind(up[l], toGame, A, B)
        BY <1>1, <1>2, <1>4, <1>7, <2>1, IdleSessions
      <3>2. Behind(Tail(up[l]), Append(toGame, Head(up[l])), A, B)
        BY <1>4, <3>1, BehindMoved
      <3>3. QED
        BY <1>1, <1>3, <1>4, <2>1, <3>2
    <2>2. CASE LinkOf(s) # l
      BY <1>2, <1>3, <1>4, <1>7, <2>2, IdleSessions, BehindJoined
    <2>3. QED
      BY <2>1, <2>2
  <1>8. ASSUME NEW s \in Sessions PROVE EndAnnounced(s)'
    <2>1. SUFFICES ASSUME ~Live(s)
                   PROVE  /\ Behind(up'[LinkOf(s)], toGame', OtherOf(s), OfflineOf(s))
                          /\ login[LinkOf(s)].session = s => Holds(up'[LinkOf(s)], OfflineOf(s))
      BY <1>4, IdleSessions DEF EndAnnounced
    <2>2. /\ Behind(up[LinkOf(s)], toGame, OtherOf(s), OfflineOf(s))
          /\ login[LinkOf(s)].session = s => Holds(up[LinkOf(s)], OfflineOf(s))
      BY <2>1 DEF Heard, EndAnnounced
    <2>3. login[l].session # s
      BY <1>2 DEF NoLogin, LoginReq, NoSession, Sessions
    <2>4. LinkOf(s) # l => up'[LinkOf(s)] = up[LinkOf(s)]
      BY <1>3, <1>4, IdleSessions
    <2>5. QED
      BY <1>5, <1>7, <2>2, <2>3, <2>4
  <1>9. ASSUME NEW s \in Sessions PROVE PresenceAnnounced(s)'
    <2>1. Awaiting(s)' <=> Awaiting(s)
      BY <1>4 DEF Awaiting, GateIdle
    <2>2. Holds(toGame, PresentOf(s)) => Holds(toGame', PresentOf(s))
      BY <1>4, WithinJoined
    <2>3. QED
      BY <1>4, <1>5, <1>6, <1>7, <2>1, <2>2, IdleSessions DEF Heard, PresenceAnnounced
  <1>10. ASSUME NEW p \in Players PROVE ActiveFor(p)'
    BY <1>4, <1>5, <1>6, IdleSessions DEF Heard, ActiveFor, SessionsOf
  <1>11. QED
    BY <1>8, <1>9, <1>10 DEF Heard

\* The game server is told of a login in front of the session's offline notice.
LEMMA FinishLoginHears ==
    ASSUME IInv, run = 1, Heard, NEW l \in Links, FinishLogin(l)
    PROVE  Heard'
  <1>1. PICK m \in Logins :
            LET n == Message("present", m.session, m.account)
                a == [session |-> m.session, player |-> m.account]
            IN
            /\ m = login[l] /\ m.session \in Sessions /\ m.account \in Players
            /\ n \in Notices /\ n.session = m.session /\ n.kind = "present" /\ n.player = m.account
            /\ toGame' = Append(toGame, n)
            /\ a \in Answers /\ a.session = m.session
            /\ UNCHANGED down \/ \E k \in Links : down' = [down EXCEPT ![k] = Append(@, a)]
    BY LoginFinished
  <1>2. PICK n \in Notices : n.session = m.session /\ n.kind = "present" /\ n.player = m.account
                             /\ toGame' = Append(toGame, n)
    BY <1>1
  <1>3. PICK a \in Answers : a.session = m.session /\
            (UNCHANGED down \/ \E k \in Links : down' = [down EXCEPT ![k] = Append(@, a)])
    BY <1>1
  <1>4. \A k \in Links : \A b \in ToSet(down'[k]) : b \in ToSet(down[k]) \/ b = a
    BY <1>3, AddDown DEF IInv
  <1>5. /\ login'[l] = NoLogin /\ \A k \in Links : k # l => login'[k] = login[k]
        /\ up' = up /\ pstate' = pstate /\ toGame \in Seq(Notices) /\ GateIdle
    BY DEF FinishLogin, gateVars, gameVars, faultVars, GateIdle, IInv, Types
  <1>6. l = LinkOf(m.session)
    BY <1>1 DEF IInv, FirstRun, FinishLogin
  <1>7. n \in Sent /\ n \in PresentOf(m.session) /\ \A s \in Sessions :
            n \notin OfflineOf(s) /\ (m.session # s => n \notin OtherOf(s))
    <2>1. n \in Sent /\ n.player # NoPlayer
      BY <1>1, <1>2, SentType, ClusterAssumption
    <2>2. QED
      BY <1>2, <2>1 DEF PresentOf, OfflineOf, OtherOf
  <1>8. ASSUME NEW s \in Sessions, NEW B, Within(up[LinkOf(s)], toGame, B)
        PROVE  Within(up[LinkOf(s)], toGame', B)
    BY <1>2, <1>5, <1>8, WithinJoined
  <1>9. ASSUME NEW s \in Sessions PROVE EndAnnounced(s)'
    <2>1. SUFFICES ASSUME ~Live(s)
                   PROVE  /\ Behind(up[LinkOf(s)], toGame', OtherOf(s), OfflineOf(s))
                          /\ login'[LinkOf(s)].session = s => Holds(up[LinkOf(s)], OfflineOf(s))
      BY <1>5, IdleSessions DEF EndAnnounced
    <2>2. /\ Behind(up[LinkOf(s)], toGame, OtherOf(s), OfflineOf(s))
          /\ login[LinkOf(s)].session = s => Holds(up[LinkOf(s)], OfflineOf(s))
      BY <2>1 DEF Heard, EndAnnounced
    <2>3. n \notin OtherOf(s) \/ Holds(up[LinkOf(s)], OfflineOf(s))
      BY <1>1, <1>6, <1>7, <2>2
    <2>4. Behind(up[LinkOf(s)], toGame', OtherOf(s), OfflineOf(s))
      BY <1>2, <1>5, <2>2, <2>3, BehindJoined
    <2>5. login'[l].session # s
      BY <1>5 DEF NoLogin, LoginReq, NoSession, Sessions
    <2>6. QED
      BY <1>5, <2>2, <2>4, <2>5, IdleSessions
  <1>10. ASSUME NEW s \in Sessions PROVE PresenceAnnounced(s)'
    <2>1. Awaiting(s)' => Awaiting(s) \/ s = m.session
      BY <1>3, <1>4, <1>5 DEF Awaiting, GateIdle
    <2>2. Holds(toGame, PresentOf(s)) \/ s = m.session => Holds(toGame', PresentOf(s))
      BY <1>2, <1>5, <1>7, WithinJoined
    <2>3. Behind(up[LinkOf(s)], toGame, OfflineOf(s), PresentOf(s)) =>
              Behind(up[LinkOf(s)], toGame', OfflineOf(s), PresentOf(s))
      BY <1>2, <1>5, <1>7, BehindJoined
    <2>4. QED
      BY <1>5, <1>8, <2>1, <2>2, <2>3, IdleSessions DEF Heard, PresenceAnnounced
  <1>11. ASSUME NEW p \in Players PROVE ActiveFor(p)'
    BY <1>5, <1>8, IdleSessions DEF Heard, ActiveFor, SessionsOf
  <1>12. QED
    BY <1>9, <1>10, <1>11 DEF Heard

LEMMA LoginFailsHears ==
    ASSUME IInv, run = 1, Heard, NEW l \in Links, LoginFails(l)
    PROVE  Heard'
  <1>1. /\ login'[l] = NoLogin /\ \A k \in Links : k # l => login'[k] = login[k]
        /\ up' = up /\ down' = down /\ toGame' = toGame /\ pstate' = pstate /\ GateIdle
    BY DEF LoginFails, gateVars, gameVars, faultVars, GateIdle, IInv, Types
  <1>2. ASSUME NEW s \in Sessions PROVE EndAnnounced(s)'
    <2>1. login'[LinkOf(s)].session = s => login[LinkOf(s)].session = s
      BY <1>1, IdleSessions DEF NoLogin, LoginReq, NoSession, Sessions
    <2>2. QED
      BY <1>1, <2>1, IdleSessions DEF Heard, EndAnnounced
  <1>3. ASSUME NEW s \in Sessions PROVE PresenceAnnounced(s)'
    <2>1. Awaiting(s)' <=> Awaiting(s)
      BY <1>1 DEF Awaiting, GateIdle
    <2>2. QED
      BY <1>1, <2>1, IdleSessions DEF Heard, PresenceAnnounced
  <1>4. ASSUME NEW p \in Players PROVE ActiveFor(p)'
    BY <1>1, IdleSessions DEF Heard, ActiveFor, SessionsOf
  <1>5. QED
    BY <1>2, <1>3, <1>4 DEF Heard

\* What the game server reads: an offline notice is for the player of the
\* session's account, which another session of the account may keep Active; any
\* other message that has a player makes it Active.
LEMMA GameReadsHears ==
    ASSUME IInv, run = 1, Heard, GameReads
    PROVE  Heard'
  <1>1. PICK m \in Notices : m = Head(toGame) /\ m \in ToSet(toGame)
    BY ToGameTail DEF IInv, GameReads
  <1>2. m.session \in Sessions /\ m \in Sent /\ NoticeOwned(m) /\ m.kind \in {"offline", "present"}
    BY <1>1, SentType DEF Notices, IInv, FirstRun
  <1>3. /\ toGame # <<>> /\ toGame \in Seq(Notices) /\ toGame' = Tail(toGame)
        /\ login' = login /\ up' = up /\ down' = down /\ GateIdle
    BY DEF GameReads, gateVars, serviceVars, faultVars, GateIdle, IInv, Types
  <1> DEFINE p == Resolved(m)
  <1>4. /\ p \in {NoPlayer, account[m.session]} /\ p \in PlayerIds
        /\ m.player # NoPlayer => p = account[m.session]
    BY <1>1, <1>2, ResolvedIs DEF Resolved, NoticeOwned
  <1>5. IF m.kind = "offline" THEN MarkOffline(p) ELSE GetOrCreate(m.session, p)
    BY <1>1 DEF GameReads
  <1> HIDE DEF p
  <1>6. m.kind = "offline" => p = account[m.session] /\ playerID[m.session] # NoPlayer
    BY <1>2, <1>4 DEF NoticeOwned
  <1>7. /\ m.kind = "offline" => pstate'[p] # "Active"
        /\ m.kind = "present" => pstate'[p] = "Active"
        /\ \A q \in PlayerIds : q # p => pstate'[q] = pstate[q]
    BY <1>4, <1>5 DEF MarkOffline, GetOrCreate, gameVars, IInv, Types
  <1>8. ASSUME NEW s \in Sessions PROVE EndAnnounced(s)'
    <2>1. Behind(up[LinkOf(s)], toGame, OtherOf(s), OfflineOf(s)) =>
              Behind(up[LinkOf(s)], toGame', OtherOf(s), OfflineOf(s))
      BY <1>3, BehindRead
    <2>2. QED
      BY <1>3, <2>1, IdleSessions DEF Heard, EndAnnounced
  <1>9. ASSUME NEW q \in Players PROVE ActiveFor(q)'
    <2>1. SUFFICES ASSUME pstate'[q] = "Active"
                   PROVE  \E s \in SessionsOf(q) : Live(s) \/ Within(up[LinkOf(s)], toGame', OfflineOf(s))
      BY <1>3, IdleSessions DEF ActiveFor, SessionsOf
    <2>2. CASE q = p
      <3>1. m.kind = "present" /\ q = account[m.session]
        BY <1>2, <1>4, <1>7, <2>1, <2>2, ClusterAssumption
      <3>2. m.session \in SessionsOf(q)
        BY <1>2, <3>1 DEF SessionsOf
      <3>3. m \in OtherOf(m.session)
        BY <1>2, <3>1 DEF OtherOf
      <3>4. Live(m.session) \/ Behind(up[LinkOf(m.session)], toGame, OtherOf(m.session), OfflineOf(m.session))
        BY <1>2 DEF Heard, EndAnnounced
      <3>5. Live(m.session) \/ Within(up[LinkOf(m.session)], toGame', OfflineOf(m.session))
        BY <1>1, <1>3, <3>3, <3>4, BehindRead
      <3>6. QED
        BY <3>2, <3>5
    <2>3. CASE q # p
      <3>1. pstate[q] = "Active"
        BY <1>7, <2>1, <2>3 DEF PlayerIds
      <3>2. PICK s \in SessionsOf(q) : Live(s) \/ Within(up[LinkOf(s)], toGame, OfflineOf(s))
        BY <3>1 DEF Heard, ActiveFor
      <3>3. m \notin OfflineOf(s)
        <4>1. account[s] = q
          BY <3>2 DEF SessionsOf
        <4>2. QED
          BY <1>6, <2>3, <4>1 DEF OfflineOf
      <3>4. Live(s) \/ Within(up[LinkOf(s)], toGame', OfflineOf(s))
        BY <1>1, <1>3, <3>2, <3>3, WithinRead
      <3>5. QED
        BY <3>2, <3>4
    <2>4. QED
      BY <2>2, <2>3
  <1>10. ASSUME NEW s \in Sessions PROVE PresenceAnnounced(s)'
    <2>1. Awaiting(s)' <=> Awaiting(s)
      BY <1>3 DEF Awaiting, GateIdle
    <2>2. SUFFICES ASSUME Alone(s)
                   PROVE  /\ Bound(s) =>
                             /\ Behind(up[LinkOf(s)], toGame', OfflineOf(s), PresentOf(s))
                             /\ Within(up[LinkOf(s)], toGame', PresentOf(s)) \/ pstate'[account[s]] = "Active"
                          /\ Awaiting(s) => Holds(toGame', PresentOf(s)) \/ pstate'[account[s]] = "Active"
      BY <1>3, <2>1, IdleSessions DEF PresenceAnnounced
    <2>3. m \in PresentOf(s) => pstate'[account[s]] = "Active"
      BY <1>4, <1>7 DEF PresentOf
    <2>4. account[s] = p /\ m.kind = "offline" => m \in OfflineOf(s)
      <3>1. ASSUME account[s] = p, m.kind = "offline" PROVE m \in OfflineOf(s)
        <4>1. m.session \in SessionsOf(account[s])
          BY <1>2, <1>6, <3>1 DEF SessionsOf
        <4>2. m.session = s
          BY <2>2, <4>1 DEF Alone
        <4>3. QED
          BY <3>1, <4>2 DEF OfflineOf
      <3>2. QED
        BY <3>1
    <2>5. pstate[account[s]] = "Active" => m \in OfflineOf(s) \/ pstate'[account[s]] = "Active"
      <3>1. account[s] \in PlayerIds
        BY <2>2 DEF Alone, PlayerIds
      <3>2. QED
        BY <1>2, <1>7, <2>4, <3>1
    <2>6. ASSUME Bound(s)
          PROVE  /\ Behind(up[LinkOf(s)], toGame', OfflineOf(s), PresentOf(s))
                 /\ Within(up[LinkOf(s)], toGame', PresentOf(s)) \/ pstate'[account[s]] = "Active"
      <3>1. /\ Behind(up[LinkOf(s)], toGame, OfflineOf(s), PresentOf(s))
            /\ Within(up[LinkOf(s)], toGame, PresentOf(s)) \/ pstate[account[s]] = "Active"
        BY <2>2, <2>6 DEF Heard, PresenceAnnounced
      <3>2. /\ Behind(up[LinkOf(s)], toGame', OfflineOf(s), PresentOf(s))
            /\ m \in OfflineOf(s) => Within(up[LinkOf(s)], toGame', PresentOf(s))
        BY <1>1, <1>3, <3>1, BehindRead
      <3>3. Within(up[LinkOf(s)], toGame, PresentOf(s)) =>
                m \in PresentOf(s) \/ Within(up[LinkOf(s)], toGame', PresentOf(s))
        BY <1>1, <1>3, WithinRead
      <3>4. QED
        BY <2>3, <2>5, <3>1, <3>2, <3>3
    <2>7. ASSUME Awaiting(s) PROVE Holds(toGame', PresentOf(s)) \/ pstate'[account[s]] = "Active"
      <3>1. Holds(toGame, PresentOf(s)) \/ pstate[account[s]] = "Active"
        BY <2>2, <2>7 DEF Heard, PresenceAnnounced
      <3>2. Holds(toGame, PresentOf(s)) => m \in PresentOf(s) \/ Holds(toGame', PresentOf(s))
        BY <1>1, <1>3, WithinRead
      <3>3. m \notin OfflineOf(s)
        BY <1>6, <2>7 DEF OfflineOf, Awaiting
      <3>4. QED
        BY <2>3, <2>5, <3>1, <3>2, <3>3
    <2>8. QED
      BY <2>6, <2>7
  <1>11. QED
    BY <1>8, <1>9, <1>10 DEF Heard

LEMMA InitHears ==
    ASSUME Init
    PROVE  Heard
  <1>1. \A s \in Sessions : Live(s) /\ account[s] = NoPlayer
    BY DEF Init, Live
  <1>2. \A p \in Players : pstate[p] # "Active"
    BY DEF Init
  <1>3. QED
    BY <1>1, <1>2, ClusterAssumption DEF Heard, EndAnnounced, PresenceAnnounced, Alone, ActiveFor

LEMMA NextHears ==
    ASSUME IInv, Tracked, [Next]_vars
    PROVE  Tracked'
  <1>1. SUFFICES ASSUME run' = 1, lost' = 0 PROVE Heard'
    BY DEF Tracked
  <1>2. CASE GateStep
    <2>1. IInv' /\ GateGrows
      BY <1>2, GateStepKeeps
    <2>2. run = 1 /\ lost = 0
      BY <1>1, <2>1 DEF GateGrows
    <2>3. QED
      BY <1>2, <2>1, <2>2, GateMoves, GateHears DEF Tracked
  <1>3. ASSUME NEW l \in Links, StartLogin(l) \/ FinishLogin(l) \/ LoginFails(l) \/ Forward(l)
        PROVE  Heard'
    <2>1. run = 1 /\ lost = 0
      BY <1>1, <1>3 DEF StartLogin, FinishLogin, LoginFails, Forward, gateVars, faultVars
    <2>2. QED
      BY <1>3, <2>1, StartLoginHears, FinishLoginHears, LoginFailsHears, ForwardHears DEF Tracked
  <1>4. ASSUME NEW l \in Links, Purge(l) PROVE FALSE
    <2>1. run = 1 /\ l[1] < run
      BY <1>1, <1>4 DEF Purge, gateVars
    <2>2. l[1] \in 1 .. MaxRuns
      BY DEF Links
    <2>3. QED
      BY <2>1, <2>2
  <1>5. CASE GameReads
    <2>1. run = 1 /\ lost = 0
      BY <1>1, <1>5 DEF GameReads, gateVars, faultVars
    <2>2. QED
      BY <1>5, <2>1, GameReadsHears DEF Tracked
  <1>6. ~Restart
    BY <1>1 DEF Restart, IInv, Types
  <1>7. ~Lose
    BY <1>1 DEF Lose, IInv, Types
  <1>8. CASE UNCHANGED vars
    <2>1. Tracked'
      BY <1>8 DEF vars, Tracked, Heard, EndAnnounced, PresenceAnnounced, ActiveFor, Alone, Bound, Live,
                  Awaiting, SessionsOf, LinkOf
    <2>2. QED
      BY <1>1, <2>1 DEF Tracked
  <1>9. QED
    BY <1>2, <1>3, <1>4, <1>5, <1>6, <1>7, <1>8 DEF Next, GateStep

\* Nothing is on its way when everything sent has arrived.
LEMMA QuietHolds ==
    ASSUME Types, Quiet, NEW s \in Sessions, NEW B
    PROVE  ~Within(up[LinkOf(s)], toGame, B)
  <1>1. up[LinkOf(s)] = <<>> /\ toGame = <<>>
    BY LinkType DEF Types, Quiet
  <1>2. QED
    BY <1>1, NothingHeld DEF Within

\* Gate and game server: once everything sent has arrived, none of it lost, a
\* player with one session, connected, is Active, and an Active player has a
\* session that is authenticated or that no login was answered for.
THEOREM ViewsAgreeWhenQuiet == Spec => []QuietAgrees
  <1>1. Init => Tracked
    BY InitHears DEF Tracked
  <1>2. IInv /\ Tracked /\ [Next]_vars => Tracked'
    BY NextHears
  <1>3. IInv /\ Tracked => QuietAgrees
    <2>1. SUFFICES ASSUME IInv, Heard, Quiet, run = 1, NEW p \in Players
                   PROVE  /\ \A s \in SessionsOf(p) :
                                SessionsOf(p) = {s} /\ attached[s] /\ playerID[s] = p => pstate[p] = "Active"
                          /\ pstate[p] = "Active" =>
                                \E s \in SessionsOf(p) : state[s] = "Authenticated" \/ playerID[s] = NoPlayer
      BY DEF QuietAgrees, Tracked
    <2>2. ASSUME NEW s \in SessionsOf(p), SessionsOf(p) = {s}, attached[s], playerID[s] = p
          PROVE  pstate[p] = "Active"
      <3>1. s \in Sessions /\ account[s] = p
        BY <2>2 DEF SessionsOf
      <3>2. Alone(s) /\ Bound(s)
        BY <2>1, <2>2, <3>1, ClusterAssumption DEF Alone, Bound
      <3>3. Within(up[LinkOf(s)], toGame, PresentOf(s)) \/ pstate[p] = "Active"
        BY <2>1, <3>1, <3>2 DEF Heard, PresenceAnnounced
      <3>4. QED
        BY <2>1, <3>1, <3>3, QuietHolds DEF IInv
    <2>3. ASSUME pstate[p] = "Active"
          PROVE  \E s \in SessionsOf(p) : state[s] = "Authenticated" \/ playerID[s] = NoPlayer
      <3>1. PICK s \in SessionsOf(p) : Live(s) \/ Within(up[LinkOf(s)], toGame, OfflineOf(s))
        BY <2>1, <2>3 DEF Heard, ActiveFor
      <3>2. s \in Sessions
        BY <3>1 DEF SessionsOf
      <3>3. Live(s)
        BY <2>1, <3>1, <3>2, QuietHolds DEF IInv
      <3>4. QED
        BY <3>1, <3>3 DEF Live
    <2>4. QED
      BY <2>2, <2>3
  <1>4. QED
    BY <1>1, <1>2, <1>3, InvariantHolds, PTL DEF Spec
=============================================================================
