----------------------------- MODULE GameProofs -----------------------------
(***************************************************************************)
(* A look-up in PlayerManager finds no destroyed Player and, with one      *)
(* link, one Player is made per id; a Player keeps what ActorMailbox       *)
(* promises.  All for any number of players, sessions, objects and calls   *)
(* and any capacity of the inbox, and but for the second for any number of *)
(* links.                                                                  *)
(***************************************************************************)
EXTENDS GamePlayers, TLAPS

(* Queues: what Append and Tail leave in them, and in what order.           *)

\* The elements of q that are in S are in ascending order.
Ascending(q, S) ==
    \A h, i \in 1 .. Len(q) : h < i /\ q[h] \in S /\ q[i] \in S => q[h] < q[i]

LEMMA ElementAt ==
    ASSUME NEW S, NEW q \in Seq(S)
    PROVE  /\ ToSet(q) = {q[i] : i \in 1 .. Len(q)}
           /\ ToSet(q) \subseteq S
  BY DEF ToSet

LEMMA NothingIn ==
    ASSUME NEW q, q = <<>>
    PROVE  (\A S : Ascending(q, S)) /\ \A k : k \notin ToSet(q)
  <1>1. Len(q) = 0
    OBVIOUS
  <1>2. DOMAIN q = {}
    OBVIOUS
  <1>3. \A S : Ascending(q, S)
    BY <1>1 DEF Ascending
  <1>4. \A k : k \notin ToSet(q)
    BY <1>2 DEF ToSet
  <1>5. QED
    BY <1>3, <1>4

\* What Append adds to a sequence.
LEMMA AppendSeq ==
    ASSUME NEW S, NEW q \in Seq(S), NEW e \in S
    PROVE  Append(q, e) \in Seq(S) /\ ToSet(Append(q, e)) = ToSet(q) \cup {e}
  <1>1. /\ Append(q, e) \in Seq(S) /\ Len(q) \in Nat
        /\ Len(Append(q, e)) = Len(q) + 1
        /\ \A i \in 1 .. Len(q) : Append(q, e)[i] = q[i]
        /\ Append(q, e)[Len(q) + 1] = e
    OBVIOUS
  <1>2. ToSet(Append(q, e)) = {Append(q, e)[i] : i \in 1 .. Len(q) + 1}
    BY <1>1, ElementAt
  <1>3. ToSet(q) = {q[i] : i \in 1 .. Len(q)}
    BY ElementAt
  <1>4. ASSUME NEW k \in ToSet(Append(q, e)) PROVE k \in ToSet(q) \cup {e}
    <2>1. PICK i \in 1 .. Len(q) + 1 : k = Append(q, e)[i]
      BY <1>2
    <2>2. i \in 1 .. Len(q) \/ i = Len(q) + 1
      BY <1>1
    <2>3. QED
      BY <1>1, <1>3, <2>1, <2>2
  <1>5. ASSUME NEW k \in ToSet(q) \cup {e} PROVE k \in ToSet(Append(q, e))
    <2>1. CASE k = e
      BY <1>1, <1>2, <2>1
    <2>2. CASE k \in ToSet(q)
      <3>1. PICK i \in 1 .. Len(q) : k = q[i]
        BY <1>3, <2>2
      <3>2. i \in 1 .. Len(q) + 1 /\ k = Append(q, e)[i]
        BY <1>1, <3>1
      <3>3. QED
        BY <1>2, <3>2
    <2>3. QED
      BY <2>1, <2>2
  <1>6. QED
    BY <1>1, <1>4, <1>5

LEMMA AppendAscending ==
    ASSUME NEW T, NEW S, NEW q \in Seq(T), NEW e \in T, Ascending(q, S),
           e \in S => \A k \in ToSet(q) \cap S : k < e
    PROVE  Ascending(Append(q, e), S)
  <1>1. /\ Len(q) \in Nat /\ Len(Append(q, e)) = Len(q) + 1
        /\ \A i \in 1 .. Len(q) : Append(q, e)[i] = q[i]
        /\ Append(q, e)[Len(q) + 1] = e
    OBVIOUS
  <1>2. \A i \in 1 .. Len(q) : q[i] \in ToSet(q)
    BY ElementAt
  <1>3. SUFFICES ASSUME NEW h \in 1 .. Len(q) + 1, NEW i \in 1 .. Len(q) + 1, h < i,
                        Append(q, e)[h] \in S, Append(q, e)[i] \in S
                 PROVE  Append(q, e)[h] < Append(q, e)[i]
    BY <1>1 DEF Ascending
  <1>4. h \in 1 .. Len(q)
    BY <1>1, <1>3
  <1>5. CASE i \in 1 .. Len(q)
    BY <1>1, <1>3, <1>4, <1>5 DEF Ascending
  <1>6. CASE i = Len(q) + 1
    BY <1>1, <1>2, <1>3, <1>4, <1>6
  <1>7. QED
    BY <1>1, <1>5, <1>6

\* What is left of a sequence without its head.
LEMMA TailSeq ==
    ASSUME NEW S, NEW q \in Seq(S), q # <<>>
    PROVE  /\ Tail(q) \in Seq(S) /\ Head(q) \in ToSet(q) /\ Head(q) \in S
           /\ ToSet(Tail(q)) \subseteq ToSet(q)
           /\ \A k \in ToSet(q) : k = Head(q) \/ k \in ToSet(Tail(q))
  <1>1. /\ Tail(q) \in Seq(S) /\ Len(q) \in Nat \ {0} /\ Len(Tail(q)) = Len(q) - 1
        /\ Head(q) = q[1] /\ Head(q) \in S
        /\ \A i \in 1 .. Len(q) - 1 : Tail(q)[i] = q[i + 1]
    OBVIOUS
  <1>2. ToSet(q) = {q[i] : i \in 1 .. Len(q)}
    BY ElementAt
  <1>3. ToSet(Tail(q)) = {Tail(q)[i] : i \in 1 .. Len(q) - 1}
    BY <1>1, ElementAt
  <1>4. \A i \in 1 .. Len(q) : i = 1 \/ (i - 1 \in 1 .. Len(q) - 1 /\ Tail(q)[i - 1] = q[i])
    BY <1>1
  <1>5. ASSUME NEW k \in ToSet(Tail(q)) PROVE k \in ToSet(q)
    <2>1. PICK i \in 1 .. Len(q) - 1 : k = Tail(q)[i]
      BY <1>3
    <2>2. i + 1 \in 1 .. Len(q) /\ k = q[i + 1]
      BY <1>1, <2>1
    <2>3. QED
      BY <1>2, <2>2
  <1>6. ASSUME NEW k \in ToSet(q) PROVE k = Head(q) \/ k \in ToSet(Tail(q))
    <2>1. PICK i \in 1 .. Len(q) : k = q[i]
      BY <1>2
    <2>2. QED
      BY <1>1, <1>3, <1>4, <2>1
  <1>7. Head(q) \in ToSet(q)
    BY <1>1, <1>2
  <1>8. QED
    BY <1>1, <1>5, <1>6, <1>7

LEMMA TailAscending ==
    ASSUME NEW T, NEW S, NEW q \in Seq(T), q # <<>>, Ascending(q, S)
    PROVE  /\ Ascending(Tail(q), S)
           /\ Head(q) \in S => \A k \in ToSet(Tail(q)) \cap S : Head(q) < k
  <1>1. /\ Tail(q) \in Seq(T)
        /\ Len(q) \in Nat \ {0} /\ Len(Tail(q)) = Len(q) - 1 /\ Head(q) = q[1]
        /\ \A i \in 1 .. Len(q) - 1 : Tail(q)[i] = q[i + 1]
    OBVIOUS
  <1>2. Ascending(Tail(q), S)
    BY <1>1 DEF Ascending
  <1>3. \A i \in 1 .. Len(q) - 1 : q[1] \in S /\ Tail(q)[i] \in S => q[1] < Tail(q)[i]
    BY <1>1 DEF Ascending
  <1>4. ToSet(Tail(q)) = {Tail(q)[i] : i \in 1 .. Len(q) - 1}
    BY <1>1, ElementAt
  <1>5. QED
    BY <1>1, <1>2, <1>3, <1>4

-----------------------------------------------------------------------------
Labels == {"read", "lookup", "load", "install", "revive", "bind", "post", "enqueue", "wait",
           "mark", "offline", "unbind"}

\* The variables TypeOK leaves out.
MoreTypes ==
    /\ calls \in Seq([env : Envelopes \cup {NoEnv}, obj : Objects])
    /\ Len(calls) <= MaxCalls
    /\ reply \in [Calls -> {<<>>, <<"handled">>, <<"refused">>}]
    /\ pc \in [Workers -> Labels]
    /\ env \in [Workers -> Envelopes \cup {NoEnv}]
    /\ pid \in [Workers -> PlayerIds]

\* A goroutine that holds a Player holds one that was made, of its player id.
HoldsMade ==
    \A w \in Workers :
        /\ pc[w] \in {"revive", "bind", "post", "enqueue", "offline", "unbind"} =>
              obj[w] \in Objects /\ Made(obj[w])
        /\ pc[w] = "read" => obj[w] = NoObj
        /\ obj[w] # NoObj => Made(obj[w]) /\ owner[obj[w]] = pid[w]

\* The loop has a message in hand just while it handles it, drains only for a
\* destroyed player, and runs only for one that was made.
LoopCoherent ==
    \A o \in Objects :
        /\ loop[o] = "handle" <=> cur[o] # NoCall
        /\ loop[o] = "drain" => pstate[o] = "Destroyed"

\* A message in an inbox is one posted to that player, without an answer and
\* later than the one in hand; an inbox is in the order of posting.
InboxCoherent ==
    \A o \in Objects :
        /\ Ascending(inbox[o], Calls)
        /\ \A k \in ToSet(inbox[o]) : calls[k].obj = o /\ reply[k] = <<>> /\ cur[o] < k

HandCoherent ==
    \A o \in Objects : cur[o] # NoCall => calls[cur[o]].obj = o /\ reply[cur[o]] = <<>>

\* A posted message has an answer, or is in its player's inbox or in hand.
Accounted ==
    \A k \in Calls :
        IF k <= Len(calls)
        THEN /\ Made(calls[k].obj)
             /\ \/ reply[k] # <<>>
                \/ k = cur[calls[k].obj]
                \/ k \in ToSet(inbox[calls[k].obj])
        ELSE reply[k] = <<>>

IInv ==
    /\ TypeOK
    /\ MoreTypes
    /\ IndexedIsUsable
    /\ HoldsMade
    /\ LoopCoherent
    /\ InboxCoherent
    /\ HandCoherent
    /\ Accounted

USE GameAssumption DEF Objects, NoObj, Calls, NoCall

LEMMA InitIInv == Init => IInv
  <1> SUFFICES ASSUME Init PROVE IInv
    OBVIOUS
  <1>1. \A o \in Objects : inbox[o] = <<>> /\ cur[o] = NoCall /\ loop[o] = "none" /\ ~Made(o)
    BY DEF Init, Made
  <1>2. calls = <<>> /\ Len(calls) = 0
    BY DEF Init
  <1>3. TypeOK
    BY <1>2 DEF Init, TypeOK, PlayerIds
  <1>4. MoreTypes
    BY <1>2 DEF Init, MoreTypes, PlayerIds, Labels
  <1>5. IndexedIsUsable /\ HoldsMade
    BY DEF Init, IndexedIsUsable, HoldsMade
  <1>6. LoopCoherent /\ HandCoherent
    BY <1>1 DEF LoopCoherent, HandCoherent
  <1>7. InboxCoherent
    BY <1>1, NothingIn DEF InboxCoherent
  <1>8. Accounted
    BY <1>2 DEF Init, Accounted
  <1>9. QED
    BY <1>3, <1>4, <1>5, <1>6, <1>7, <1>8 DEF IInv

\* Players that were made stay made, destroyed ones destroyed.
Ages == \A o \in Objects : /\ Made(o) => Made(o)'
                           /\ pstate[o] = "Destroyed" => pstate'[o] = "Destroyed"

LEMMA EnvelopeSession ==
    ASSUME NEW e \in Envelopes \cup {NoEnv}
    PROVE  e.session \in Sessions \cup {NoSession} /\ e.kind \in Kinds
  BY DEF Envelopes, NoEnv, Kinds

\* A call made so far, and its parts.
LEMMA CallAt ==
    ASSUME MoreTypes, NEW k \in Calls, k <= Len(calls)
    PROVE  calls[k].obj \in Objects /\ calls[k].env \in Envelopes \cup {NoEnv}
  <1> DEFINE Call == [env : Envelopes \cup {NoEnv}, obj : Objects]
  <1>1. calls \in Seq(Call) /\ Len(calls) \in Nat
    BY DEF MoreTypes
  <1>2. k \in 1 .. Len(calls)
    BY <1>1
  <1> HIDE DEF Call
  <1>3. calls[k] \in Call
    BY <1>1, <1>2
  <1>4. QED
    BY <1>3 DEF Call

LEMMA CallCount ==
    ASSUME IInv
    PROVE  /\ Len(calls) \in Nat /\ Len(calls) <= MaxCalls
           /\ \A o \in Objects : cur[o] # NoCall => cur[o] \in Calls /\ cur[o] <= Len(calls)
  <1>1. Len(calls) \in Nat /\ Len(calls) <= MaxCalls
    BY DEF IInv, MoreTypes
  <1>2. \A o \in Objects : cur[o] \in 0 .. Len(calls)
    BY DEF IInv, TypeOK
  <1>3. QED
    BY <1>1, <1>2

\* A step that leaves mailboxes alone keeps them coherent.
LEMMA MailFrame ==
    ASSUME IInv, Ages, UNCHANGED <<inbox, loop, cur, calls, reply>>
    PROVE  LoopCoherent' /\ InboxCoherent' /\ HandCoherent' /\ Accounted'
  <1>1. LoopCoherent'
    BY DEF IInv, LoopCoherent, Ages
  <1>2. InboxCoherent' /\ HandCoherent'
    BY DEF IInv, InboxCoherent, HandCoherent
  <1>3. Accounted'
    <2>1. \A k \in Calls : k <= Len(calls) => calls[k].obj \in Objects
      BY CallAt DEF IInv
    <2>2. QED
      BY <2>1 DEF IInv, Accounted, Ages
  <1>4. QED
    BY <1>1, <1>2, <1>3

-----------------------------------------------------------------------------
(* The steps of a link that only move its goroutine.                       *)

Walks(w) ==
    \/ \E e \in Envelopes, p \in PlayerIds : Receive(w, e, p)
    \/ Lookup(w) \/ LoadProfile(w) \/ PostCheck(w) \/ InboxFull(w) \/ Answered(w) \/ Timeout(w)
    \/ Mark(w)

LEMMA WalkFrame ==
    ASSUME NEW w \in Workers, Walks(w)
    PROVE  UNCHANGED <<players, sessions, owner, sid, pstate, inbox, loop, cur, calls, reply>>
  BY DEF Walks, Receive, Lookup, LoadProfile, PostCheck, InboxFull, Answered, Timeout, Mark,
         managerVars, objectVars

LEMMA ResolvedType ==
    ASSUME IInv, NEW e \in Envelopes, NEW p \in PlayerIds
    PROVE  ResolvedPlayer(e, p) \in PlayerIds
  <1>1. e.session \in Sessions
    BY DEF Envelopes
  <1>2. sessions[e.session] \in PlayerIds
    BY <1>1 DEF IInv, TypeOK
  <1>3. players[sessions[e.session]] \in Objects \cup {NoObj}
    BY <1>2 DEF IInv, TypeOK
  <1>4. PlayerOfSession(e.session) \in PlayerIds
    BY <1>3 DEF IInv, TypeOK, PlayerOfSession, PlayerIds
  <1>5. QED
    BY <1>4 DEF ResolvedPlayer

\* NextEnvelope keeps the types of the locals, and holds no Player.
LEMMA NextEnvelopeLocals ==
    ASSUME IInv, NEW w \in Workers, NextEnvelope(w), UNCHANGED <<owner, pstate>>
    PROVE  /\ pc' \in [Workers -> Labels] /\ env' \in [Workers -> Envelopes \cup {NoEnv}]
           /\ pid' \in [Workers -> PlayerIds] /\ obj' \in [Workers -> Objects \cup {NoObj}]
           /\ call' \in [Workers -> 0 .. Len(calls)]
           /\ HoldsMade'
  <1>1. /\ pc' \in [Workers -> Labels] /\ env' \in [Workers -> Envelopes \cup {NoEnv}]
        /\ pid' \in [Workers -> PlayerIds] /\ obj' \in [Workers -> Objects \cup {NoObj}]
        /\ call' \in [Workers -> 0 .. Len(calls)]
    BY DEF IInv, TypeOK, MoreTypes, NextEnvelope, Goto, Labels, PlayerIds
  <1>2. HoldsMade'
    BY DEF IInv, TypeOK, MoreTypes, HoldsMade, NextEnvelope, Goto, Made
  <1>3. QED
    BY <1>1, <1>2

LEMMA WalkLocals ==
    ASSUME IInv, NEW w \in Workers, Walks(w)
    PROVE  /\ pc' \in [Workers -> Labels] /\ env' \in [Workers -> Envelopes \cup {NoEnv}]
           /\ pid' \in [Workers -> PlayerIds] /\ obj' \in [Workers -> Objects \cup {NoObj}]
           /\ call' \in [Workers -> 0 .. Len(calls)]
           /\ HoldsMade'
  <1>1. UNCHANGED <<owner, pstate>>
    BY WalkFrame
  <1>2. CASE NextEnvelope(w)
    BY <1>1, <1>2, NextEnvelopeLocals
  <1>3. ASSUME NEW e \in Envelopes, NEW p \in PlayerIds, Receive(w, e, p)
        PROVE  /\ pc' \in [Workers -> Labels] /\ env' \in [Workers -> Envelopes \cup {NoEnv}]
               /\ pid' \in [Workers -> PlayerIds] /\ UNCHANGED <<obj, call>>
               /\ HoldsMade'
    <2>1. ResolvedPlayer(e, p) \in PlayerIds
      BY ResolvedType
    <2>2. pc' \in [Workers -> Labels] /\ env' \in [Workers -> Envelopes \cup {NoEnv}]
          /\ pid' \in [Workers -> PlayerIds] /\ UNCHANGED <<obj, call>>
      BY <1>3, <2>1 DEF IInv, MoreTypes, Receive, Goto, Labels
    <2>3. HoldsMade'
      BY <1>1, <1>3 DEF IInv, TypeOK, MoreTypes, HoldsMade, Receive, At, Goto, Made
    <2>4. QED
      BY <2>2, <2>3
  <1>4. CASE Lookup(w)
    <2>1. players[pid[w]] \in Objects \cup {NoObj}
      BY DEF IInv, TypeOK, MoreTypes
    <2>2. players[pid[w]] # NoObj =>
              Made(players[pid[w]]) /\ owner[players[pid[w]]] = pid[w]
      BY DEF IInv, MoreTypes, IndexedIsUsable, Made
    <2>3. /\ pc' \in [Workers -> Labels] /\ obj' \in [Workers -> Objects \cup {NoObj}]
          /\ UNCHANGED <<env, pid, call>>
      BY <1>4, <2>1 DEF IInv, TypeOK, MoreTypes, Lookup, Goto, Labels
    <2>4. HoldsMade'
      BY <1>1, <1>4, <2>1, <2>2 DEF IInv, TypeOK, MoreTypes, HoldsMade, Lookup, Goto, Made
    <2>5. QED
      BY <2>3, <2>4 DEF IInv, TypeOK, MoreTypes
  <1>5. CASE Goto(w, "install") /\ UNCHANGED <<env, pid, obj, call>>
    BY <1>1, <1>5 DEF IInv, TypeOK, MoreTypes, HoldsMade, Goto, Labels, Made
  <1>6. CASE At(w, "post") /\ Goto(w, "enqueue") /\ UNCHANGED <<env, pid, obj, call>>
    BY <1>1, <1>6 DEF IInv, TypeOK, MoreTypes, HoldsMade, At, Goto, Labels, Made
  <1>7. CASE Mark(w) /\ players[pid[w]] # NoObj
    <2>1. /\ players[pid[w]] \in Objects /\ Made(players[pid[w]])
          /\ owner[players[pid[w]]] = pid[w]
      <3>1. pid[w] \in PlayerIds
        BY DEF IInv, MoreTypes
      <3>2. players[pid[w]] \in Objects
        BY <1>7, <3>1 DEF IInv, TypeOK
      <3>3. Made(players[pid[w]]) /\ owner[players[pid[w]]] = pid[w]
        BY <1>7, <3>1 DEF IInv, IndexedIsUsable, Made
      <3>4. QED
        BY <3>2, <3>3
    <2>2. /\ pc' \in [Workers -> Labels] /\ obj' \in [Workers -> Objects \cup {NoObj}]
          /\ UNCHANGED <<env, pid, call>>
      BY <1>7, <2>1 DEF IInv, TypeOK, MoreTypes, Mark, Goto, Labels
    <2>3. /\ UNCHANGED <<owner, pid>> /\ obj' = [obj EXCEPT ![w] = players[pid[w]]]
          /\ pc' = [pc EXCEPT ![w] = "offline"]
      BY <1>1, <1>7 DEF Mark, Goto
    <2>4. HoldsMade'
      <3>1. ASSUME NEW u \in Workers, u # w PROVE UNCHANGED <<pc[u], obj[u], pid[u], owner>>
        BY <2>3, <3>1 DEF IInv, TypeOK, MoreTypes
      <3>2. pc'[w] = "offline" /\ obj'[w] = players[pid[w]] /\ pid'[w] = pid[w]
        BY <2>3 DEF IInv, TypeOK, MoreTypes
      <3>3. SUFFICES ASSUME NEW u \in Workers
                     PROVE  /\ pc'[u] \in {"revive", "bind", "post", "enqueue", "offline", "unbind"} =>
                                  obj'[u] \in Objects /\ Made(obj'[u])
                            /\ pc'[u] = "read" => obj'[u] = NoObj
                            /\ obj'[u] # NoObj => Made(obj'[u]) /\ owner[obj'[u]] = pid'[u]
        BY <1>1, <2>3 DEF HoldsMade, Made
      <3>4. CASE u = w
        BY <2>1, <3>2, <3>4
      <3>5. CASE u # w
        BY <3>1, <3>5 DEF IInv, HoldsMade
      <3>6. QED
        BY <3>4, <3>5
    <2>5. QED
      BY <2>2, <2>4 DEF IInv, TypeOK, MoreTypes
  <1>8. QED
    <2>1. CASE \E e \in Envelopes, p \in PlayerIds : Receive(w, e, p)
      BY <1>3, <2>1 DEF IInv, TypeOK
    <2>2. CASE LoadProfile(w)
      BY <1>2, <1>5, <2>2 DEF LoadProfile
    <2>3. CASE PostCheck(w)
      BY <1>2, <1>6, <2>3 DEF PostCheck
    <2>4. CASE InboxFull(w) \/ Answered(w) \/ Timeout(w)
      BY <1>2, <2>4 DEF InboxFull, Answered, Timeout
    <2>5. CASE Mark(w)
      BY <1>2, <1>7, <2>5 DEF Mark
    <2>6. QED
      BY <1>4, <2>1, <2>2, <2>3, <2>4, <2>5 DEF Walks

LEMMA WalkStep ==
    ASSUME IInv, NEW w \in Workers, Walks(w)
    PROVE  IInv'
  <1>1. UNCHANGED <<players, sessions, owner, sid, pstate, inbox, loop, cur, calls, reply>>
    BY WalkFrame
  <1>2. TypeOK' /\ MoreTypes'
    BY <1>1, WalkLocals DEF IInv, TypeOK, MoreTypes
  <1>3. IndexedIsUsable' /\ HoldsMade'
    BY <1>1, WalkLocals DEF IInv, IndexedIsUsable
  <1>4. Ages
    BY <1>1 DEF Ages, Made
  <1>5. QED
    BY <1>1, <1>2, <1>3, <1>4, MailFrame DEF IInv

-----------------------------------------------------------------------------
(* The steps that change a player or the maps.                             *)

\* The moves of Player.state, as OnResume, OnOffline and Destroy make them.
LEMMA StateMoves ==
    ASSUME NEW st \in {"none", "Active", "Offline", "Destroyed"}
    PROVE  /\ ResumedState(st) = IF st = "Offline" THEN "Active" ELSE st
           /\ OfflinedState(st) = IF st = "Active" THEN "Offline" ELSE st
           /\ DestroyedState(st) = IF st = "Offline" THEN "Destroyed" ELSE st
  BY DEF ResumedState, OfflinedState, DestroyedState

\* A step of a link that holds a Player and leaves the calls and loops alone.
LEMMA ReviveStep ==
    ASSUME IInv, NEW w \in Workers, Revive(w)
    PROVE  IInv'
  <1>1. obj[w] \in Objects /\ Made(obj[w]) /\ env[w].session \in Sessions \cup {NoSession}
    BY EnvelopeSession DEF IInv, MoreTypes, HoldsMade, Revive, At
  <1>2. /\ pstate' = [pstate EXCEPT ![obj[w]] = ResumedState(@)]
        /\ pstate[obj[w]] \in {"none", "Active", "Offline", "Destroyed"}
    BY <1>1 DEF IInv, TypeOK, Revive
  <1>3. TypeOK' /\ MoreTypes'
    <2>1. pstate' \in [Objects -> {"none", "Active", "Offline", "Destroyed"}]
      BY <1>1, <1>2, StateMoves DEF IInv, TypeOK
    <2>2. QED
      BY <1>1, <2>1 DEF IInv, TypeOK, MoreTypes, Revive, Goto, Labels, managerVars
  <1>4. Ages
    BY <1>1, <1>2, StateMoves DEF IInv, TypeOK, Ages, Made
  <1>5. IndexedIsUsable'
    BY <1>2, StateMoves DEF IInv, TypeOK, IndexedIsUsable, Revive, managerVars
  <1>6. HoldsMade'
    BY <1>4 DEF IInv, TypeOK, MoreTypes, HoldsMade, Ages, Revive, At, Goto, managerVars
  <1>7. QED
    BY <1>3, <1>4, <1>5, <1>6, MailFrame DEF IInv, Revive

LEMMA OfflineStep ==
    ASSUME IInv, NEW w \in Workers, Offline(w)
    PROVE  IInv'
  <1>1. obj[w] \in Objects /\ Made(obj[w])
    BY DEF IInv, HoldsMade, Offline, At
  <1>2. /\ pstate' = [pstate EXCEPT ![obj[w]] = OfflinedState(@)]
        /\ pstate[obj[w]] \in {"none", "Active", "Offline", "Destroyed"}
    BY <1>1 DEF IInv, TypeOK, Offline
  <1>3. TypeOK' /\ MoreTypes'
    <2>1. pstate' \in [Objects -> {"none", "Active", "Offline", "Destroyed"}]
      BY <1>1, <1>2, StateMoves DEF IInv, TypeOK
    <2>2. QED
      BY <1>1, <2>1 DEF IInv, TypeOK, MoreTypes, Offline, Goto, Labels, managerVars
  <1>4. Ages
    BY <1>1, <1>2, StateMoves DEF IInv, TypeOK, Ages, Made
  <1>5. IndexedIsUsable'
    BY <1>2, StateMoves DEF IInv, TypeOK, IndexedIsUsable, Offline, managerVars
  <1>6. HoldsMade'
    BY <1>4 DEF IInv, TypeOK, MoreTypes, HoldsMade, Ages, Offline, At, Goto, managerVars
  <1>7. QED
    BY <1>3, <1>4, <1>5, <1>6, MailFrame DEF IInv, Offline

LEMMA BindStep ==
    ASSUME IInv, NEW w \in Workers, BindSession(w) \/ Unbind(w)
    PROVE  IInv'
  <1>1. UNCHANGED <<players, owner, sid, pstate, inbox, loop, cur, calls, reply>>
    BY DEF BindSession, Unbind, objectVars
  <1>2. obj[w] \in Objects /\ owner[obj[w]] \in PlayerIds
    BY DEF IInv, TypeOK, HoldsMade, BindSession, Unbind, At
  <1>3. sessions' \in [Sessions -> PlayerIds]
    BY <1>2 DEF IInv, TypeOK, BindSession, Unbind, PlayerIds
  <1>4. /\ pc' \in [Workers -> Labels] /\ env' \in [Workers -> Envelopes \cup {NoEnv}]
        /\ pid' \in [Workers -> PlayerIds] /\ obj' \in [Workers -> Objects \cup {NoObj}]
        /\ call' \in [Workers -> 0 .. Len(calls)]
        /\ HoldsMade'
    <2>1. CASE BindSession(w)
      BY <1>1, <2>1 DEF IInv, TypeOK, MoreTypes, HoldsMade, BindSession, At, Goto, Labels, Made
    <2>2. CASE Unbind(w)
      BY <1>1, <2>2, NextEnvelopeLocals DEF Unbind
    <2>3. QED
      BY <2>1, <2>2
  <1>5. TypeOK' /\ MoreTypes'
    BY <1>1, <1>3, <1>4 DEF IInv, TypeOK, MoreTypes
  <1>6. IndexedIsUsable'
    BY <1>1 DEF IInv, IndexedIsUsable
  <1>7. Ages
    BY <1>1 DEF Ages, Made
  <1>8. QED
    BY <1>1, <1>4, <1>5, <1>6, <1>7, MailFrame DEF IInv

LEMMA DestroyStep ==
    ASSUME IInv, NEW p \in Destroyable, DestroyPlayer(p)
    PROVE  IInv'
  <1> DEFINE o == players[p]
  <1>1. p \in PlayerIds /\ o \in Objects
    BY DEF IInv, TypeOK, DestroyPlayer, PlayerIds
  <1>2. /\ pstate' = [pstate EXCEPT ![o] = DestroyedState(@)]
        /\ pstate[o] \in {"Active", "Offline"} /\ owner[o] = p
        /\ players' = [players EXCEPT ![p] = NoObj]
        /\ UNCHANGED <<sessions, owner, sid, inbox, loop, cur, workerVars, calls, reply>>
    BY <1>1 DEF IInv, IndexedIsUsable, DestroyPlayer, ForgetPlayer
  <1>3. TypeOK' /\ MoreTypes'
    BY <1>1, <1>2, StateMoves DEF IInv, TypeOK, MoreTypes, workerVars
  <1>4. Ages
    BY <1>1, <1>2, StateMoves DEF IInv, TypeOK, Ages, Made
  <1>5. IndexedIsUsable'
    <2> SUFFICES ASSUME NEW q \in PlayerIds, players'[q] # NoObj
                 PROVE  owner'[players'[q]] = q /\ pstate'[players'[q]] \in {"Active", "Offline"}
      BY DEF IndexedIsUsable
    <2>1. q # p /\ players'[q] = players[q] /\ players[q] \in Objects
      BY <1>1, <1>2 DEF IInv, TypeOK
    <2>2. owner[players[q]] = q /\ pstate[players[q]] \in {"Active", "Offline"}
      BY <2>1 DEF IInv, IndexedIsUsable
    <2>3. players[q] # o
      BY <1>2, <2>1, <2>2
    <2>4. QED
      BY <1>2, <2>1, <2>2, <2>3 DEF IInv, TypeOK
  <1>6. HoldsMade'
    BY <1>2, <1>4 DEF IInv, TypeOK, HoldsMade, Ages, workerVars
  <1>7. QED
    BY <1>2, <1>3, <1>4, <1>5, <1>6, MailFrame DEF IInv

\* A new Player is not one that anything refers to.
LEMMA InstallStep ==
    ASSUME IInv, NEW w \in Workers, NEW o \in Objects, Install(w, o)
    PROVE  IInv'
  <1>1. /\ ~Made(o) /\ pid[w] \in PlayerIds /\ env[w].session \in Sessions \cup {NoSession}
        /\ owner' = [owner EXCEPT ![o] = pid[w]] /\ sid' = [sid EXCEPT ![o] = env[w].session]
        /\ pstate' = [pstate EXCEPT ![o] = "Active"] /\ loop' = [loop EXCEPT ![o] = "check"]
        /\ players' = [players EXCEPT ![pid[w]] = o]
        /\ sessions' = [sessions EXCEPT ![env[w].session] = pid[w]]
        /\ obj' = [obj EXCEPT ![w] = o] /\ pc' = [pc EXCEPT ![w] = "post"]
        /\ UNCHANGED <<env, pid, call, inbox, cur, calls, reply>>
    BY EnvelopeSession DEF IInv, MoreTypes, Install, NewPlayer, Stored, Goto
  <1>2. TypeOK' /\ MoreTypes'
    BY <1>1 DEF IInv, TypeOK, MoreTypes, Labels
  <1>3. Ages /\ Made(o)'
    BY <1>1 DEF IInv, TypeOK, Ages, Made
  <1>4. IndexedIsUsable'
    <2> SUFFICES ASSUME NEW q \in PlayerIds, players'[q] # NoObj
                 PROVE  owner'[players'[q]] = q /\ pstate'[players'[q]] \in {"Active", "Offline"}
      BY DEF IndexedIsUsable
    <2>1. CASE q = pid[w]
      BY <1>1, <2>1 DEF IInv, TypeOK
    <2>2. CASE q # pid[w]
      <3>1. players'[q] = players[q] /\ players[q] # NoObj
        BY <1>1, <2>2 DEF IInv, TypeOK
      <3>2. owner[players[q]] = q /\ pstate[players[q]] \in {"Active", "Offline"}
        BY <3>1 DEF IInv, IndexedIsUsable
      <3>3. players[q] # o
        BY <1>1, <3>2 DEF Made
      <3>4. QED
        BY <1>1, <3>1, <3>2, <3>3 DEF IInv, TypeOK
    <2>3. QED
      BY <2>1, <2>2
  <1>5. HoldsMade'
    BY <1>1, <1>3 DEF IInv, TypeOK, MoreTypes, HoldsMade, Ages
  <1>6. cur[o] = NoCall
    <2>1. SUFFICES ASSUME cur[o] # NoCall PROVE FALSE
      OBVIOUS
    <2>2. cur[o] \in Calls /\ cur[o] <= Len(calls) /\ calls[cur[o]].obj = o
      BY <2>1, CallCount DEF IInv, HandCoherent
    <2>3. QED
      BY <1>1, <2>2 DEF IInv, Accounted
  <1>7. LoopCoherent'
    <2>1. cur' = cur /\ loop'[o] = "check" /\ \A u \in Objects \ {o} : loop'[u] = loop[u]
      BY <1>1 DEF IInv, TypeOK
    <2>2. \A u \in Objects : pstate[u] = "Destroyed" => pstate'[u] = "Destroyed"
      BY <1>3 DEF Ages
    <2>3. LoopCoherent
      BY DEF IInv
    <2>4. QED
      BY <1>6, <2>1, <2>2, <2>3 DEF LoopCoherent
  <1>8. InboxCoherent' /\ HandCoherent'
    BY <1>1 DEF IInv, InboxCoherent, HandCoherent
  <1>9. Accounted'
    <2>1. \A k \in Calls : k <= Len(calls) => calls[k].obj \in Objects
      BY CallAt DEF IInv
    <2>2. QED
      BY <1>1, <1>3, <2>1 DEF IInv, Accounted, Ages
  <1>10. QED
    BY <1>2, <1>4, <1>5, <1>7, <1>8, <1>9 DEF IInv

-----------------------------------------------------------------------------
(* The steps of a message.                                                 *)

\* What the calls become when one is added, and who sees it.
LEMMA EnqueueEffect ==
    ASSUME IInv, NEW w \in Workers, Enqueue(w)
    PROVE  /\ obj[w] \in Objects /\ Made(obj[w]) /\ Len(calls) + 1 \in Calls
           /\ Len(calls') = Len(calls) + 1
           /\ calls' \in Seq([env : Envelopes \cup {NoEnv}, obj : Objects])
           /\ calls'[Len(calls) + 1].obj = obj[w]
           /\ \A k \in Calls : k <= Len(calls) => calls'[k] = calls[k]
           /\ inbox' \in [Objects -> Seq(1 .. Len(calls'))]
           /\ Len(inbox'[obj[w]]) <= InboxCap
           /\ \A o \in Objects : o # obj[w] => inbox'[o] = inbox[o]
           /\ inbox'[obj[w]] = Append(inbox[obj[w]], Len(calls) + 1)
           /\ ToSet(inbox'[obj[w]]) = ToSet(inbox[obj[w]]) \cup {Len(calls) + 1}
  <1> DEFINE Call == [env : Envelopes \cup {NoEnv}, obj : Objects]
             n == Len(calls) + 1
             o == obj[w]
             c == [env |-> env[w], obj |-> obj[w]]
  <1>1. o \in Objects /\ Made(o) /\ c \in Call /\ calls \in Seq(Call)
    BY DEF IInv, TypeOK, MoreTypes, HoldsMade, Enqueue, At
  <1>2. n \in Calls /\ Len(calls) \in Nat
    BY <1>1 DEF Enqueue
  <1>3. calls' = Append(calls, c) /\ inbox' = [inbox EXCEPT ![o] = Append(@, n)]
    BY DEF Enqueue
  <1> HIDE DEF Call, c
  <1>4. /\ Append(calls, c) \in Seq(Call) /\ Len(Append(calls, c)) = n
        /\ Append(calls, c)[n] = c
        /\ \A k \in 1 .. Len(calls) : Append(calls, c)[k] = calls[k]
    BY <1>1
  <1>5. c.obj = o
    BY DEF c
  <1>6. /\ inbox[o] \in Seq(1 .. n) /\ \A u \in Objects : inbox[u] \in Seq(1 .. n)
        /\ inbox \in [Objects -> Seq(1 .. n)]
    <2>1. inbox \in [Objects -> Seq(1 .. Len(calls))]
      BY DEF IInv, TypeOK
    <2>2. ASSUME NEW u \in Objects PROVE inbox[u] \in Seq(1 .. n)
      <3>1. inbox[u] \in Seq(1 .. Len(calls))
        BY <2>1
      <3>2. QED
        BY <1>2, <3>1
    <2>3. QED
      BY <1>1, <2>1, <2>2
  <1>7. n \in 1 .. n
    BY <1>2
  <1>8. /\ Append(inbox[o], n) \in Seq(1 .. n)
        /\ ToSet(Append(inbox[o], n)) = ToSet(inbox[o]) \cup {n}
        /\ Len(Append(inbox[o], n)) = Len(inbox[o]) + 1 /\ Len(inbox[o]) \in Nat
    BY <1>6, <1>7, AppendSeq
  <1>9. Len(inbox[o]) < InboxCap
    BY DEF Enqueue, HasRoom
  <1>10. inbox' \in [Objects -> Seq(1 .. n)] /\ inbox'[o] = Append(inbox[o], n)
         /\ \A u \in Objects : u # o => inbox'[u] = inbox[u]
    BY <1>1, <1>3, <1>6, <1>8
  <1>11. Len(inbox'[o]) <= InboxCap
    BY <1>8, <1>9, <1>10
  <1>12. \A k \in Calls : k <= Len(calls) => calls'[k] = calls[k]
    BY <1>2, <1>3, <1>4
  <1>13. Len(calls') = n /\ calls' \in Seq(Call) /\ calls'[n].obj = o
    BY <1>3, <1>4, <1>5
  <1>14. QED
    BY <1>1, <1>2, <1>8, <1>10, <1>11, <1>12, <1>13 DEF Call

LEMMA EnqueueStep ==
    ASSUME IInv, NEW w \in Workers, Enqueue(w)
    PROVE  IInv'
  <1> DEFINE n == Len(calls) + 1
             o == obj[w]
  <1>1. /\ o \in Objects /\ Made(o) /\ n \in Calls /\ Len(calls') = n
        /\ calls'[n].obj = o
        /\ \A k \in Calls : k <= Len(calls) => calls'[k] = calls[k]
        /\ \A u \in Objects : u # o => inbox'[u] = inbox[u]
        /\ inbox'[o] = Append(inbox[o], n)
        /\ ToSet(inbox'[o]) = ToSet(inbox[o]) \cup {n}
    BY EnqueueEffect
  <1>2. /\ call' = [call EXCEPT ![w] = n] /\ pc' = [pc EXCEPT ![w] = "wait"]
        /\ UNCHANGED <<env, pid, obj, players, sessions, owner, sid, pstate, loop, cur, reply>>
    BY DEF Enqueue, Goto, managerVars
  <1>3. Len(calls) \in Nat /\ Len(calls) <= MaxCalls
    BY DEF IInv, MoreTypes
  <1>4. TypeOK' /\ MoreTypes'
    <2>1. \A u \in Objects : Len(inbox'[u]) <= InboxCap
      BY <1>1, EnqueueEffect DEF IInv, TypeOK
    <2>2. /\ call' \in [Workers -> 0 .. n]
          /\ cur' \in [Objects -> 0 .. n]
          /\ pc' \in [Workers -> Labels]
      BY <1>2, <1>3 DEF IInv, TypeOK, MoreTypes, Labels
    <2>3. n <= MaxCalls
      BY <1>1
    <2>4. /\ calls' \in Seq([env : Envelopes \cup {NoEnv}, obj : Objects])
          /\ inbox' \in [Objects -> Seq(1 .. Len(calls'))]
      BY EnqueueEffect
    <2>5. TypeOK'
      BY <1>1, <1>2, <2>1, <2>2, <2>4 DEF IInv, TypeOK
    <2>6. MoreTypes'
      BY <1>1, <1>2, <2>2, <2>3, <2>4 DEF IInv, MoreTypes
    <2>7. QED
      BY <2>5, <2>6
  <1>5. IndexedIsUsable' /\ HoldsMade' /\ LoopCoherent'
    BY <1>2 DEF IInv, MoreTypes, IndexedIsUsable, HoldsMade, LoopCoherent, Made
  <1>6. \A u \in Objects : ToSet(inbox[u]) \subseteq 1 .. Len(calls)
    BY ElementAt DEF IInv, TypeOK
  <1>7. reply[n] = <<>>
    BY <1>1, <1>3 DEF IInv, Accounted
  <1>8. \A u \in Objects : cur[u] \in 0 .. Len(calls) /\ cur[u] < n
    BY <1>3 DEF IInv, TypeOK
  <1>9. InboxCoherent'
    <2>1. ASSUME NEW u \in Objects, NEW k \in ToSet(inbox'[u])
          PROVE  calls'[k].obj = u /\ reply'[k] = <<>> /\ cur'[u] < k
      <3>1. CASE k \in ToSet(inbox[u])
        <4>1. k \in Calls /\ k <= Len(calls)
          <5>1. k \in 1 .. Len(calls)
            BY <1>6, <3>1
          <5>2. QED
            BY <1>3, <5>1
        <4>2. calls[k].obj = u /\ reply[k] = <<>> /\ cur[u] < k
          BY <3>1 DEF IInv, InboxCoherent
        <4>3. QED
          BY <1>1, <1>2, <4>1, <4>2
      <3>2. CASE u = o /\ k = n
        BY <1>1, <1>2, <1>7, <1>8, <3>2
      <3>3. QED
        <4>1. CASE u = o
          <5>1. k \in ToSet(inbox[o]) \cup {n}
            BY <1>1, <2>1, <4>1
          <5>2. QED
            BY <3>1, <3>2, <4>1, <5>1
        <4>2. CASE u # o
          BY <1>1, <2>1, <3>1, <4>2
        <4>3. QED
          BY <4>1, <4>2
    <2>2. ASSUME NEW u \in Objects PROVE Ascending(inbox'[u], Calls)
      <3>1. Ascending(inbox[u], Calls)
        BY DEF IInv, InboxCoherent
      <3>2. CASE u = o
        <4>1. inbox[o] \in Seq(Nat)
          <5>1. inbox[o] \in Seq(1 .. Len(calls))
            BY <1>1 DEF IInv, TypeOK
          <5>2. QED
            BY <5>1
        <4>2. \A k \in ToSet(inbox[o]) \cap Calls : k < n
          BY <1>1, <1>3, <1>6
        <4>3. n \in Nat
          BY <1>3
        <4> HIDE DEF n
        <4>4. Ascending(Append(inbox[o], n), Calls)
          BY <3>1, <3>2, <4>1, <4>2, <4>3, AppendAscending
        <4>5. QED
          BY <1>1, <3>2, <4>4
      <3>3. CASE u # o
        BY <1>1, <3>1, <3>3
      <3>4. QED
        BY <3>2, <3>3
    <2>3. QED
      BY <2>1, <2>2 DEF InboxCoherent
  <1>10. HandCoherent'
    <2> SUFFICES ASSUME NEW u \in Objects, cur[u] # NoCall
                 PROVE  calls'[cur[u]].obj = u /\ reply[cur[u]] = <<>>
      BY <1>2 DEF HandCoherent
    <2>1. cur[u] \in Calls /\ cur[u] <= Len(calls)
      BY <1>3, <1>8
    <2>2. calls'[cur[u]] = calls[cur[u]]
      BY <1>1, <2>1
    <2>3. QED
      BY <2>2 DEF IInv, HandCoherent
  <1>11. Accounted'
    <2> SUFFICES ASSUME NEW k \in Calls
                 PROVE  IF k <= n
                        THEN /\ Made(calls'[k].obj)
                             /\ \/ reply[k] # <<>>
                                \/ k = cur[calls'[k].obj]
                                \/ k \in ToSet(inbox'[calls'[k].obj])
                        ELSE reply[k] = <<>>
      BY <1>1, <1>2 DEF Accounted, Made
    <2>1. CASE k <= Len(calls)
      <3>1. calls[k].obj \in Objects /\ calls'[k] = calls[k]
        BY <1>1, <2>1, CallAt DEF IInv
      <3>2. /\ Made(calls[k].obj)
            /\ reply[k] # <<>> \/ k = cur[calls[k].obj] \/ k \in ToSet(inbox[calls[k].obj])
        BY <2>1 DEF IInv, Accounted
      <3>3. ToSet(inbox[calls[k].obj]) \subseteq ToSet(inbox'[calls[k].obj])
        BY <1>1, <3>1
      <3>4. QED
        BY <1>3, <2>1, <3>1, <3>2, <3>3
    <2>2. CASE k = n
      <3>1. n \in ToSet(inbox'[o])
        BY <1>1
      <3>2. k \in ToSet(inbox'[calls'[k].obj]) /\ Made(calls'[k].obj)
        BY <1>1, <2>2, <3>1
      <3>3. k <= n
        BY <1>3, <2>2
      <3>4. QED
        BY <3>2, <3>3
    <2>3. CASE k > n
      BY <1>3, <2>3 DEF IInv, Accounted
    <2>4. QED
      BY <1>3, <2>1, <2>2, <2>3
  <1>12. QED
    BY <1>4, <1>5, <1>9, <1>10, <1>11 DEF IInv

LEMMA CheckStep ==
    ASSUME IInv, NEW o \in Objects, LoopCheck(o)
    PROVE  IInv'
  <1>1. /\ UNCHANGED <<players, sessions, owner, sid, pstate, inbox, cur, pc, env, pid, obj, call,
                       calls, reply>>
        /\ loop[o] = "check"
        /\ loop' = [loop EXCEPT ![o] = IF Stops(o) THEN "drain" ELSE "recv"]
    BY DEF LoopCheck, managerVars, workerVars
  <1>2. TypeOK' /\ MoreTypes'
    BY <1>1 DEF IInv, TypeOK, MoreTypes
  <1>3. IndexedIsUsable' /\ HoldsMade' /\ InboxCoherent' /\ HandCoherent' /\ Accounted'
    BY <1>1 DEF IInv, IndexedIsUsable, HoldsMade, InboxCoherent, HandCoherent, Accounted, Made
  <1>4. LoopCoherent'
    BY <1>1 DEF IInv, TypeOK, LoopCoherent, Stops
  <1>5. QED
    BY <1>2, <1>3, <1>4 DEF IInv

\* The head of an inbox and the rest of it.
LEMMA InboxHead ==
    ASSUME IInv, NEW o \in Objects, inbox[o] # <<>>
    PROVE  /\ Head(inbox[o]) \in ToSet(inbox[o])
           /\ Head(inbox[o]) \in Calls /\ Head(inbox[o]) \in 1 .. Len(calls)
           /\ calls[Head(inbox[o])].obj = o
           /\ Tail(inbox[o]) \in Seq(1 .. Len(calls)) /\ Len(Tail(inbox[o])) <= InboxCap
           /\ Ascending(Tail(inbox[o]), Calls)
           /\ \A k \in ToSet(Tail(inbox[o])) : k \in ToSet(inbox[o]) /\ Head(inbox[o]) < k
           /\ \A k \in ToSet(inbox[o]) : k = Head(inbox[o]) \/ k \in ToSet(Tail(inbox[o]))
  <1> DEFINE q == inbox[o]
  <1>1. /\ q \in Seq(1 .. Len(calls)) /\ Len(q) <= InboxCap /\ Ascending(q, Calls)
        /\ Len(calls) \in Nat /\ Len(calls) <= MaxCalls
        /\ \A k \in ToSet(q) : calls[k].obj = o
    <2>1. Len(calls) \in Nat /\ Len(calls) <= MaxCalls
      BY DEF IInv, MoreTypes
    <2>2. q \in Seq(1 .. Len(calls)) /\ Len(q) <= InboxCap
      BY DEF IInv, TypeOK
    <2>3. Ascending(q, Calls) /\ \A k \in ToSet(q) : calls[k].obj = o
      BY DEF IInv, InboxCoherent
    <2>4. QED
      BY <2>1, <2>2, <2>3
  <1>2. q # <<>>
    OBVIOUS
  <1> HIDE DEF q
  <1>3. /\ Tail(q) \in Seq(1 .. Len(calls)) /\ Head(q) \in ToSet(q) /\ Head(q) \in 1 .. Len(calls)
        /\ ToSet(Tail(q)) \subseteq ToSet(q)
        /\ \A k \in ToSet(q) : k = Head(q) \/ k \in ToSet(Tail(q))
    BY <1>1, <1>2, TailSeq
  <1>4. Len(Tail(q)) <= InboxCap
    BY <1>1, <1>2
  <1>5. /\ Ascending(Tail(q), Calls)
        /\ Head(q) \in Calls => \A k \in ToSet(Tail(q)) \cap Calls : Head(q) < k
    BY <1>1, <1>2, TailAscending
  <1>6. 1 .. Len(calls) \subseteq Calls
    BY <1>1
  <1>7. ToSet(Tail(q)) \subseteq Calls
    BY <1>3, <1>6, ElementAt
  <1>8. QED
    BY <1>1, <1>3, <1>4, <1>5, <1>6, <1>7 DEF q

LEMMA RecvStep ==
    ASSUME IInv, NEW o \in Objects, LoopRecv(o)
    PROVE  IInv'
  <1> DEFINE k == Head(inbox[o])
  <1>1. /\ UNCHANGED <<players, sessions, owner, sid, pstate, pc, env, pid, obj, call, calls, reply>>
        /\ loop[o] = "recv" /\ inbox[o] # <<>>
        /\ cur' = [cur EXCEPT ![o] = k]
        /\ inbox' = [inbox EXCEPT ![o] = Tail(@)]
        /\ loop' = [loop EXCEPT ![o] = "handle"]
    BY DEF LoopRecv, Taken, managerVars, workerVars
  <1>2. /\ k \in ToSet(inbox[o]) /\ k \in Calls /\ k \in 1 .. Len(calls) /\ calls[k].obj = o
        /\ Tail(inbox[o]) \in Seq(1 .. Len(calls)) /\ Len(Tail(inbox[o])) <= InboxCap
        /\ Ascending(Tail(inbox[o]), Calls)
        /\ \A j \in ToSet(Tail(inbox[o])) : j \in ToSet(inbox[o]) /\ k < j
        /\ \A j \in ToSet(inbox[o]) : j = k \/ j \in ToSet(Tail(inbox[o]))
    BY <1>1, InboxHead
  <1> HIDE DEF k
  <1>3. /\ inbox'[o] = Tail(inbox[o]) /\ cur'[o] = k /\ loop'[o] = "handle"
        /\ \A u \in Objects : u # o =>
              inbox'[u] = inbox[u] /\ cur'[u] = cur[u] /\ loop'[u] = loop[u]
    BY <1>1 DEF IInv, TypeOK
  <1>4. TypeOK' /\ MoreTypes'
    <2>1. inbox' \in [Objects -> Seq(1 .. Len(calls))] /\ \A u \in Objects : Len(inbox'[u]) <= InboxCap
      <3>1. inbox \in [Objects -> Seq(1 .. Len(calls))] /\ \A u \in Objects : Len(inbox[u]) <= InboxCap
        BY DEF IInv, TypeOK
      <3>2. inbox' \in [Objects -> Seq(1 .. Len(calls))]
        BY <1>1, <1>2, <3>1
      <3>3. \A u \in Objects : Len(inbox'[u]) <= InboxCap
        BY <1>2, <1>3, <3>1
      <3>4. QED
        BY <3>2, <3>3
    <2>2. cur' \in [Objects -> 0 .. Len(calls)]
      <3>1. cur \in [Objects -> 0 .. Len(calls)]
        BY DEF IInv, TypeOK
      <3>2. k \in 0 .. Len(calls)
        BY <1>2
      <3>3. QED
        BY <1>1, <3>1, <3>2
    <2>3. QED
      BY <1>1, <2>1, <2>2 DEF IInv, TypeOK, MoreTypes
  <1>5. IndexedIsUsable' /\ HoldsMade'
    BY <1>1 DEF IInv, IndexedIsUsable, HoldsMade, Made
  <1>6. LoopCoherent'
    BY <1>1, <1>2, <1>3 DEF IInv, LoopCoherent
  <1>7. InboxCoherent'
    <2> SUFFICES ASSUME NEW u \in Objects
                 PROVE  /\ Ascending(inbox'[u], Calls)
                        /\ \A j \in ToSet(inbox'[u]) : calls[j].obj = u /\ reply[j] = <<>> /\ cur'[u] < j
      BY <1>1 DEF InboxCoherent
    <2>1. CASE u = o
      BY <1>2, <1>3, <2>1 DEF IInv, InboxCoherent
    <2>2. CASE u # o
      BY <1>3, <2>2 DEF IInv, InboxCoherent
    <2>3. QED
      BY <2>1, <2>2
  <1>8. HandCoherent'
    BY <1>1, <1>2, <1>3 DEF IInv, InboxCoherent, HandCoherent
  <1>9. cur[o] = NoCall
    BY <1>1 DEF IInv, LoopCoherent
  <1>10. Accounted'
    <2> SUFFICES ASSUME NEW j \in Calls, j <= Len(calls), reply[j] = <<>>
                 PROVE  j = cur'[calls[j].obj] \/ j \in ToSet(inbox'[calls[j].obj])
      BY <1>1 DEF IInv, Accounted, Made
    <2>1. calls[j].obj \in Objects
      BY CallAt DEF IInv
    <2>2. j = cur[calls[j].obj] \/ j \in ToSet(inbox[calls[j].obj])
      BY DEF IInv, Accounted
    <2>3. CASE calls[j].obj = o
      <3>1. j # cur[o]
        BY <1>9
      <3>2. j \in ToSet(inbox[o])
        BY <2>2, <2>3, <3>1
      <3>3. j = k \/ j \in ToSet(Tail(inbox[o]))
        BY <1>2, <3>2
      <3>4. QED
        BY <1>3, <2>3, <3>3
    <2>4. CASE calls[j].obj # o
      BY <1>3, <2>1, <2>2, <2>4
    <2>5. QED
      BY <2>3, <2>4
  <1>11. QED
    BY <1>4, <1>5, <1>6, <1>7, <1>8, <1>10 DEF IInv

\* A message gets its one answer.
LEMMA AnswerOnce ==
    ASSUME MoreTypes, NEW k \in Calls, reply[k] = <<>>, NEW a \in {"handled", "refused"},
           reply' = [reply EXCEPT ![k] = Append(@, a)]
    PROVE  /\ reply' \in [Calls -> {<<>>, <<"handled">>, <<"refused">>}]
           /\ reply'[k] = <<a>> /\ reply'[k] # <<>>
           /\ \A j \in Calls : j # k => reply'[j] = reply[j]
  <1>1. Append(reply[k], a) = <<a>>
    OBVIOUS
  <1>2. <<a>> \in {<<"handled">>, <<"refused">>} /\ <<a>> # <<>>
    OBVIOUS
  <1>3. reply' = [reply EXCEPT ![k] = <<a>>] /\ reply \in [Calls -> {<<>>, <<"handled">>, <<"refused">>}]
    BY <1>1 DEF MoreTypes
  <1> DEFINE b == <<a>>
             A == {<<>>, <<"handled">>, <<"refused">>}
  <1>4. b \in A /\ reply' = [reply EXCEPT ![k] = b] /\ reply \in [Calls -> A]
    BY <1>2, <1>3
  <1>5. b # <<>>
    BY <1>2
  <1> HIDE DEF b, A
  <1>6. /\ reply' \in [Calls -> A] /\ reply'[k] = b
        /\ \A j \in Calls : j # k => reply'[j] = reply[j]
    BY <1>4
  <1>7. QED
    BY <1>5, <1>6 DEF A, b

LEMMA HandleStep ==
    ASSUME IInv, NEW o \in Objects, LoopHandle(o)
    PROVE  IInv'
  <1> DEFINE k == cur[o]
             e == calls[k].env
  <1>1. /\ loop[o] = "handle"
        /\ pstate' = [pstate EXCEPT ![o] = IF Revives(o, e) THEN ResumedState(@) ELSE @]
        /\ sid' = [sid EXCEPT ![o] = IF Revives(o, e) THEN e.session ELSE @]
        /\ reply' = [reply EXCEPT ![k] = Append(@, "handled")]
        /\ cur' = [cur EXCEPT ![o] = NoCall] /\ loop' = [loop EXCEPT ![o] = "check"]
        /\ UNCHANGED <<players, sessions, owner, inbox, pc, env, pid, obj, call, calls>>
    BY DEF LoopHandle, managerVars, workerVars
  <1>2. k \in Calls /\ k <= Len(calls) /\ k # NoCall
    BY <1>1, CallCount DEF IInv, LoopCoherent
  <1>3. calls[k].obj = o /\ reply[k] = <<>> /\ e.session \in Sessions \cup {NoSession}
    BY <1>2, CallAt, EnvelopeSession DEF IInv, HandCoherent
  <1> HIDE DEF k, e
  <1>4. /\ reply' \in [Calls -> {<<>>, <<"handled">>, <<"refused">>}] /\ reply'[k] # <<>>
        /\ \A j \in Calls : j # k => reply'[j] = reply[j]
    BY <1>1, <1>2, <1>3, AnswerOnce DEF IInv
  <1>5. /\ cur'[o] = NoCall /\ loop'[o] = "check"
        /\ \A u \in Objects : u # o => cur'[u] = cur[u] /\ loop'[u] = loop[u]
    BY <1>1 DEF IInv, TypeOK
  <1>6. /\ pstate' \in [Objects -> {"none", "Active", "Offline", "Destroyed"}]
        /\ \A u \in Objects : pstate'[u] = pstate[u] \/ (pstate[u] = "Offline" /\ pstate'[u] = "Active")
    BY <1>1 DEF IInv, TypeOK, ResumedState
  <1>7. Ages
    BY <1>6 DEF Ages, Made
  <1>8. TypeOK' /\ MoreTypes'
    <2>1. sid' \in [Objects -> Sessions \cup {NoSession}] /\ cur' \in [Objects -> 0 .. Len(calls)]
      <3>1. sid \in [Objects -> Sessions \cup {NoSession}] /\ cur \in [Objects -> 0 .. Len(calls)]
        BY DEF IInv, TypeOK
      <3>2. sid' \in [Objects -> Sessions \cup {NoSession}]
        BY <1>1, <1>3, <3>1
      <3>3. NoCall \in 0 .. Len(calls)
        BY CallCount
      <3>4. cur' \in [Objects -> 0 .. Len(calls)]
        BY <1>1, <3>1, <3>3
      <3>5. QED
        BY <3>2, <3>4
    <2>2. QED
      BY <1>1, <1>4, <1>6, <2>1 DEF IInv, TypeOK, MoreTypes
  <1>9. IndexedIsUsable'
    BY <1>1, <1>6 DEF IInv, TypeOK, IndexedIsUsable
  <1>10. HoldsMade'
    BY <1>1, <1>7 DEF IInv, TypeOK, HoldsMade, Ages
  <1>11. LoopCoherent'
    BY <1>5, <1>7 DEF IInv, LoopCoherent, Ages
  <1>12. \A u \in Objects : \A j \in ToSet(inbox[u]) : j \in Calls /\ j # k
    <2> SUFFICES ASSUME NEW u \in Objects, NEW j \in ToSet(inbox[u]) PROVE j \in Calls /\ j # k
      OBVIOUS
    <2>1. j \in 1 .. Len(calls)
      BY ElementAt DEF IInv, TypeOK
    <2>2. j \in Calls
      BY <2>1 DEF IInv, MoreTypes
    <2>3. calls[j].obj = u /\ cur[u] < j
      BY DEF IInv, InboxCoherent
    <2>4. j # k
      BY <1>2, <1>3, <2>2, <2>3 DEF k
    <2>5. QED
      BY <2>2, <2>4
  <1>13. InboxCoherent'
    <2> SUFFICES ASSUME NEW u \in Objects
                 PROVE  /\ Ascending(inbox[u], Calls)
                        /\ \A j \in ToSet(inbox[u]) : calls[j].obj = u /\ reply'[j] = <<>> /\ cur'[u] < j
      BY <1>1 DEF InboxCoherent
    <2>1. \A j \in ToSet(inbox[u]) : cur'[u] < j
      BY <1>5, <1>12 DEF IInv, InboxCoherent
    <2>2. QED
      BY <1>4, <1>12, <2>1 DEF IInv, InboxCoherent
  <1>14. HandCoherent'
    <2> SUFFICES ASSUME NEW u \in Objects, cur'[u] # NoCall
                 PROVE  calls[cur'[u]].obj = u /\ reply'[cur'[u]] = <<>>
      BY <1>1 DEF HandCoherent
    <2>1. u # o /\ cur'[u] = cur[u] /\ cur[u] # NoCall
      BY <1>5
    <2>2. calls[cur[u]].obj = u /\ reply[cur[u]] = <<>> /\ cur[u] \in Calls
      BY <2>1, CallCount DEF IInv, HandCoherent
    <2>3. QED
      BY <1>3, <1>4, <2>1, <2>2
  <1>15. Accounted'
    <2> SUFFICES ASSUME NEW j \in Calls
                 PROVE  IF j <= Len(calls)
                        THEN /\ Made(calls[j].obj)'
                             /\ \/ reply'[j] # <<>>
                                \/ j = cur'[calls[j].obj]
                                \/ j \in ToSet(inbox[calls[j].obj])
                        ELSE reply'[j] = <<>>
      BY <1>1 DEF Accounted, Made
    <2>1. CASE j > Len(calls)
      <3>1. j # k /\ reply[j] = <<>>
        <4>1. j # k /\ ~(j <= Len(calls))
          BY <1>2, <2>1, CallCount
        <4>2. QED
          BY <4>1 DEF IInv, Accounted
      <3>2. QED
        BY <1>4, <2>1, <3>1 DEF IInv, MoreTypes
    <2>2. CASE j <= Len(calls)
      <3>1. calls[j].obj \in Objects
        BY <2>2, CallAt DEF IInv
      <3>2. Made(calls[j].obj)'
        BY <1>1, <1>7, <2>2, <3>1 DEF IInv, Accounted, Ages
      <3>3. CASE j = k
        BY <1>4, <2>2, <3>2, <3>3
      <3>4. CASE j # k
        <4>1. reply[j] # <<>> \/ j = cur[calls[j].obj] \/ j \in ToSet(inbox[calls[j].obj])
          BY <2>2 DEF IInv, Accounted
        <4>2. j = cur[calls[j].obj] => calls[j].obj # o
          BY <3>4 DEF k
        <4>3. QED
          BY <1>4, <1>5, <2>2, <3>1, <3>2, <3>4, <4>1, <4>2
      <3>5. QED
        BY <3>3, <3>4
    <2>3. QED
      BY <2>1, <2>2 DEF IInv, MoreTypes
  <1>16. QED
    BY <1>8, <1>9, <1>10, <1>11, <1>13, <1>14, <1>15 DEF IInv

LEMMA DrainStep ==
    ASSUME IInv, NEW o \in Objects, LoopDrain(o)
    PROVE  IInv'
  <1>1. /\ UNCHANGED <<players, sessions, owner, sid, pstate, cur, pc, env, pid, obj, call, calls>>
        /\ loop[o] = "drain"
    BY DEF LoopDrain, managerVars, workerVars
  <1>2. IndexedIsUsable' /\ HoldsMade' /\ Ages
    BY <1>1 DEF IInv, IndexedIsUsable, HoldsMade, Ages, Made
  <1>3. CASE inbox[o] = <<>>
    <2>1. loop' = [loop EXCEPT ![o] = "done"] /\ UNCHANGED <<inbox, reply>>
      BY <1>3 DEF LoopDrain
    <2>2. TypeOK' /\ MoreTypes'
      BY <1>1, <2>1 DEF IInv, TypeOK, MoreTypes
    <2>3. LoopCoherent'
      BY <1>1, <2>1 DEF IInv, TypeOK, LoopCoherent
    <2>4. InboxCoherent' /\ HandCoherent' /\ Accounted'
      BY <1>1, <2>1 DEF IInv, InboxCoherent, HandCoherent, Accounted, Made
    <2>5. QED
      BY <1>2, <2>2, <2>3, <2>4 DEF IInv
  <1>4. CASE inbox[o] # <<>>
    <2> DEFINE k == Head(inbox[o])
    <2>1. /\ inbox' = [inbox EXCEPT ![o] = Tail(@)] /\ UNCHANGED loop
          /\ reply' = [reply EXCEPT ![k] = Append(@, "refused")]
      BY <1>4 DEF LoopDrain, Failed
    <2>2. /\ k \in ToSet(inbox[o]) /\ k \in Calls /\ k \in 1 .. Len(calls) /\ calls[k].obj = o
          /\ Tail(inbox[o]) \in Seq(1 .. Len(calls)) /\ Len(Tail(inbox[o])) <= InboxCap
          /\ Ascending(Tail(inbox[o]), Calls)
          /\ \A j \in ToSet(Tail(inbox[o])) : j \in ToSet(inbox[o]) /\ k < j
          /\ \A j \in ToSet(inbox[o]) : j = k \/ j \in ToSet(Tail(inbox[o]))
      BY <1>4, InboxHead
    <2> HIDE DEF k
    <2>3. reply[k] = <<>> /\ cur[o] < k
      BY <2>2 DEF IInv, InboxCoherent
    <2>4. /\ reply' \in [Calls -> {<<>>, <<"handled">>, <<"refused">>}] /\ reply'[k] # <<>>
          /\ \A j \in Calls : j # k => reply'[j] = reply[j]
      BY <2>1, <2>2, <2>3, AnswerOnce DEF IInv
    <2>5. /\ inbox'[o] = Tail(inbox[o])
          /\ \A u \in Objects : u # o => inbox'[u] = inbox[u]
      BY <2>1 DEF IInv, TypeOK
    <2>6. TypeOK' /\ MoreTypes'
      <3>1. inbox' \in [Objects -> Seq(1 .. Len(calls))] /\ \A u \in Objects : Len(inbox'[u]) <= InboxCap
        BY <2>1, <2>2, <2>5 DEF IInv, TypeOK
      <3>2. QED
        BY <1>1, <2>1, <2>4, <3>1 DEF IInv, TypeOK, MoreTypes
    <2>7. LoopCoherent'
      BY <1>1, <2>1 DEF IInv, LoopCoherent
    <2>8. InboxCoherent'
      <3> SUFFICES ASSUME NEW u \in Objects
                   PROVE  /\ Ascending(inbox'[u], Calls)
                          /\ \A j \in ToSet(inbox'[u]) : calls[j].obj = u /\ reply'[j] = <<>> /\ cur[u] < j
        BY <1>1 DEF InboxCoherent
      <3>1. Ascending(inbox'[u], Calls)
        BY <2>2, <2>5 DEF IInv, InboxCoherent
      <3>2. ASSUME NEW j \in ToSet(inbox'[u])
            PROVE  calls[j].obj = u /\ reply'[j] = <<>> /\ cur[u] < j
        <4>1. j \in ToSet(inbox[u]) /\ (u = o => k < j)
          BY <2>2, <2>5, <3>2
        <4>2. j \in 1 .. Len(calls)
          BY <4>1, ElementAt DEF IInv, TypeOK
        <4>3. j \in Calls
          BY <4>2, CallCount
        <4>4. calls[j].obj = u /\ reply[j] = <<>> /\ cur[u] < j
          BY <4>1 DEF IInv, InboxCoherent
        <4>5. j # k
          BY <2>2, <4>1, <4>3, <4>4
        <4>6. QED
          BY <2>4, <4>3, <4>4, <4>5
      <3>3. QED
        BY <3>1, <3>2
    <2>9. HandCoherent'
      <3> SUFFICES ASSUME NEW u \in Objects, cur[u] # NoCall
                   PROVE  calls[cur[u]].obj = u /\ reply'[cur[u]] = <<>>
        BY <1>1 DEF HandCoherent
      <3>1. calls[cur[u]].obj = u /\ reply[cur[u]] = <<>> /\ cur[u] \in Calls
        BY CallCount DEF IInv, HandCoherent
      <3>2. cur[u] # k
        BY <2>2, <2>3, <3>1
      <3>3. QED
        BY <2>4, <3>1, <3>2
    <2>10. Accounted'
      <3> SUFFICES ASSUME NEW j \in Calls
                   PROVE  IF j <= Len(calls)
                          THEN /\ Made(calls[j].obj)
                               /\ \/ reply'[j] # <<>>
                                  \/ j = cur[calls[j].obj]
                                  \/ j \in ToSet(inbox'[calls[j].obj])
                          ELSE reply'[j] = <<>>
        BY <1>1 DEF Accounted, Made
      <3>1. CASE j = k
        <4>1. j <= Len(calls)
          BY <2>2, <3>1, CallCount
        <4>2. Made(calls[j].obj)
          BY <4>1 DEF IInv, Accounted
        <4>3. QED
          BY <2>4, <3>1, <4>1, <4>2
      <3>2. CASE j # k /\ j <= Len(calls)
        <4>1. calls[j].obj \in Objects
          BY <3>2, CallAt DEF IInv
        <4>2. /\ Made(calls[j].obj)
              /\ reply[j] # <<>> \/ j = cur[calls[j].obj] \/ j \in ToSet(inbox[calls[j].obj])
          BY <3>2 DEF IInv, Accounted
        <4>3. j \in ToSet(inbox[calls[j].obj]) => j \in ToSet(inbox'[calls[j].obj])
          BY <2>2, <2>5, <3>2, <4>1
        <4>4. QED
          BY <2>4, <3>2, <4>2, <4>3
      <3>3. CASE j # k /\ ~(j <= Len(calls))
        BY <2>4, <3>3 DEF IInv, Accounted
      <3>4. QED
        BY <3>1, <3>2, <3>3
    <2>11. QED
      BY <1>2, <2>6, <2>7, <2>8, <2>9, <2>10 DEF IInv
  <1>5. QED
    BY <1>3, <1>4

LEMMA NextStep == IInv /\ [Next]_vars => IInv'
  <1> SUFFICES ASSUME IInv, [Next]_vars PROVE IInv'
    OBVIOUS
  <1>1. CASE UNCHANGED vars
    <2>1. UNCHANGED <<players, sessions, owner, sid, pstate, inbox, loop, cur, pc, env, pid, obj,
                      call, calls, reply>>
      BY <1>1 DEF vars
    <2>2. TypeOK' /\ MoreTypes' /\ IndexedIsUsable' /\ HoldsMade' /\ Ages
      BY <2>1 DEF IInv, TypeOK, MoreTypes, IndexedIsUsable, HoldsMade, Ages, Made
    <2>3. QED
      BY <2>1, <2>2, MailFrame DEF IInv
  <1>2. ASSUME NEW w \in Workers, WorkerStep(w) PROVE IInv'
    BY <1>2, WalkStep, ReviveStep, BindStep, InstallStep, EnqueueStep, OfflineStep
    DEF WorkerStep, Walks
  <1>3. ASSUME NEW o \in Objects, LoopStep(o) PROVE IInv'
    BY <1>3, CheckStep, RecvStep, HandleStep, DrainStep DEF LoopStep
  <1>4. ASSUME NEW w \in Workers, NEW e \in Envelopes, NEW p \in PlayerIds, Receive(w, e, p)
        PROVE  IInv'
    BY <1>4, WalkStep DEF Walks
  <1>5. QED
    BY <1>1, <1>2, <1>3, <1>4, DestroyStep DEF Next

-----------------------------------------------------------------------------
\* The inductive invariant: what the maps, the goroutines, the inboxes and the
\* loops say of a Player and of a message agrees.
THEOREM InvariantHolds == Spec => []IInv
  <1>1. QED
    BY InitIInv, NextStep, PTL DEF Spec

\* Every variable keeps the range its Go type and the bounds give it.
THEOREM TypeCorrect == Spec => []TypeOK
  <1>1. IInv => TypeOK
    BY DEF IInv
  <1>2. QED
    BY <1>1, InvariantHolds, PTL

\* The Player a goroutine got from PlayerManager is one of the id it asked for,
\* and once destroyed no look-up of GetOrCreate or MarkOffline finds it.
THEOREM DestroyedStaysForgotten == Spec => []DestroyedIsForgotten
  <1>1. ASSUME IInv PROVE DestroyedIsForgotten
    <2>1. \A w \in Workers : obj[w] # NoObj => owner[obj[w]] = pid[w]
      BY <1>1 DEF IInv, HoldsMade
    <2>2. ASSUME NEW w \in Workers, obj[w] # NoObj, pstate[obj[w]] = "Destroyed",
                 NEW p \in PlayerIds
          PROVE  players[p] # obj[w]
      BY <1>1, <2>2 DEF IInv, IndexedIsUsable
    <2>3. QED
      BY <1>1, <2>1, <2>2 DEF IInv, DestroyedIsForgotten
  <1>2. QED
    BY <1>1, InvariantHolds, PTL

-----------------------------------------------------------------------------
(* One link.                                                               *)

\* A single handleConn goroutine, and nobody calls DestroyPlayer, as in the
\* server.
OneLink == (\A u, w \in Workers : u = w) /\ Destroyable = {}

\* Every Player made is the entry of its id, and the goroutine that is about to
\* make one knows its id has none.
AllIndexed ==
    /\ \A o \in Objects : Made(o) => players[owner[o]] = o
    /\ \A w \in Workers : pc[w] \in {"load", "install"} => players[pid[w]] = NoObj

\* A step that makes no Player.
MakesNone ==
    /\ UNCHANGED <<players, owner>>
    /\ \A o \in Objects : Made(o)' => Made(o)

\* A goroutine comes to LoadProfile from a lookup that found nothing, and stays
\* with the id it looked up.
AboutToMake ==
    \A w \in Workers : pc'[w] \in {"load", "install"} =>
        /\ pid'[w] = pid[w]
        /\ pc[w] = "load" \/ (pc[w] = "lookup" /\ players[pid[w]] = NoObj)
           \/ (pc[w] = "install" /\ pc'[w] = "install")

LEMMA NoneMade ==
    ASSUME AllIndexed, MakesNone, AboutToMake
    PROVE  AllIndexed'
  BY DEF AllIndexed, MakesNone, AboutToMake, Made

\* Walking goroutines make no Player.
LEMMA WalkMakesNone ==
    ASSUME IInv, NEW w \in Workers, Walks(w)
    PROVE  MakesNone /\ AboutToMake
  <1>1. MakesNone
    BY WalkFrame DEF MakesNone, Made
  <1>2. pc \in [Workers -> Labels] /\ pid \in [Workers -> PlayerIds]
    BY DEF IInv, MoreTypes
  <1>3. \A u \in Workers : u # w => pc'[u] = pc[u] /\ pid'[u] = pid[u]
    BY <1>2 DEF Walks, Receive, Lookup, LoadProfile, PostCheck, InboxFull, Answered, Timeout,
                Mark, NextEnvelope, Goto
  <1>4. pc'[w] \in {"load", "install"} =>
            /\ pid'[w] = pid[w]
            /\ pc[w] = "load" \/ (pc[w] = "lookup" /\ players[pid[w]] = NoObj)
    <2>1. CASE \E e \in Envelopes, p \in PlayerIds : Receive(w, e, p)
      BY <1>2, <2>1 DEF Receive, Goto
    <2>2. CASE Lookup(w)
      BY <1>2, <2>2 DEF Lookup, Goto, At
    <2>3. CASE LoadProfile(w)
      BY <1>2, <2>3 DEF LoadProfile, NextEnvelope, Goto, At
    <2>4. CASE PostCheck(w) \/ InboxFull(w) \/ Answered(w) \/ Timeout(w)
      BY <1>2, <2>4 DEF PostCheck, InboxFull, Answered, Timeout, NextEnvelope, Goto
    <2>5. CASE Mark(w)
      BY <1>2, <2>5 DEF Mark, NextEnvelope, Goto
    <2>6. QED
      BY <2>1, <2>2, <2>3, <2>4, <2>5 DEF Walks
  <1>5. AboutToMake
    BY <1>3, <1>4 DEF AboutToMake
  <1>6. QED
    BY <1>1, <1>5

\* Nor do the other steps of a link, but for Install.
LEMMA HolderMakesNone ==
    ASSUME IInv, NEW w \in Workers,
           Revive(w) \/ BindSession(w) \/ Enqueue(w) \/ Offline(w) \/ Unbind(w)
    PROVE  MakesNone /\ AboutToMake
  <1>1. pc \in [Workers -> Labels] /\ pid \in [Workers -> PlayerIds]
        /\ pstate \in [Objects -> {"none", "Active", "Offline", "Destroyed"}]
    BY DEF IInv, MoreTypes, TypeOK
  <1>2. obj[w] \in Objects /\ Made(obj[w])
    BY DEF IInv, HoldsMade, Revive, BindSession, Enqueue, Offline, Unbind, At
  <1>3. MakesNone
    BY <1>1, <1>2 DEF MakesNone, Made, Revive, BindSession, Enqueue, Offline, Unbind, managerVars,
                      objectVars, ResumedState, OfflinedState
  <1>4. AboutToMake
    BY <1>1 DEF AboutToMake, Revive, BindSession, Enqueue, Offline, Unbind, NextEnvelope, Goto
  <1>5. QED
    BY <1>3, <1>4

\* Nor does a loop.
LEMMA LoopMakesNone ==
    ASSUME IInv, NEW o \in Objects, LoopStep(o)
    PROVE  MakesNone /\ AboutToMake
  <1>1. UNCHANGED <<players, owner, pc, pid>>
    BY DEF LoopStep, LoopCheck, LoopRecv, LoopHandle, LoopDrain, managerVars, workerVars
  <1>2. pstate \in [Objects -> {"none", "Active", "Offline", "Destroyed"}]
    BY DEF IInv, TypeOK
  <1>3. \A u \in Objects : Made(u)' => Made(u)
    <2>1. CASE LoopHandle(o)
      BY <1>2, <2>1 DEF LoopHandle, Revives, Made
    <2>2. CASE LoopCheck(o) \/ LoopRecv(o) \/ LoopDrain(o)
      BY <2>2 DEF LoopCheck, LoopRecv, LoopDrain, Made
    <2>3. QED
      BY <2>1, <2>2 DEF LoopStep
  <1>4. QED
    BY <1>1, <1>3 DEF MakesNone, AboutToMake

\* Install finds no entry of its id, for no other goroutine has made one since
\* the lookup.
LEMMA InstallIndexed ==
    ASSUME OneLink, IInv, AllIndexed, NEW w \in Workers, NEW o \in Objects, Install(w, o)
    PROVE  AllIndexed'
  <1> DEFINE p == pid[w]
  <1>1. /\ players[p] = NoObj /\ p \in PlayerIds /\ ~Made(o)
        /\ players' = [players EXCEPT ![p] = o] /\ owner' = [owner EXCEPT ![o] = p]
        /\ pstate' = [pstate EXCEPT ![o] = "Active"] /\ pc' = [pc EXCEPT ![w] = "post"]
    BY DEF IInv, MoreTypes, AllIndexed, Install, At, NewPlayer, Stored, Goto
  <1>2. /\ players \in [PlayerIds -> Objects \cup {NoObj}] /\ owner \in [Objects -> PlayerIds]
        /\ pstate \in [Objects -> {"none", "Active", "Offline", "Destroyed"}]
        /\ pc \in [Workers -> Labels]
    BY DEF IInv, TypeOK, MoreTypes
  <1> HIDE DEF p
  <1>3. ASSUME NEW u \in Objects, Made(u)' PROVE players'[owner'[u]] = u
    <2>1. CASE u = o
      BY <1>1, <1>2, <2>1
    <2>2. CASE u # o
      <3>1. Made(u) /\ owner'[u] = owner[u] /\ owner[u] \in PlayerIds
        BY <1>1, <1>2, <1>3, <2>2 DEF Made
      <3>2. players[owner[u]] = u
        BY <3>1 DEF AllIndexed
      <3>3. owner[u] # p
        BY <1>1, <3>2
      <3>4. QED
        BY <1>1, <1>2, <3>1, <3>2, <3>3
    <2>3. QED
      BY <2>1, <2>2
  <1>4. \A u \in Workers : pc'[u] = "post"
    BY <1>1, <1>2 DEF OneLink
  <1>5. QED
    BY <1>3, <1>4 DEF AllIndexed

LEMMA AllIndexedStep ==
    ASSUME OneLink, IInv, AllIndexed, [Next]_vars
    PROVE  AllIndexed'
  <1>1. CASE UNCHANGED vars
    BY <1>1 DEF vars, AllIndexed, Made
  <1>2. ASSUME NEW w \in Workers, WorkerStep(w) PROVE AllIndexed'
    BY <1>2, WalkMakesNone, HolderMakesNone, NoneMade, InstallIndexed DEF WorkerStep, Walks
  <1>3. ASSUME NEW o \in Objects, LoopStep(o) PROVE AllIndexed'
    BY <1>3, LoopMakesNone, NoneMade
  <1>4. ASSUME NEW w \in Workers, NEW e \in Envelopes, NEW p \in PlayerIds, Receive(w, e, p)
        PROVE  AllIndexed'
    BY <1>4, WalkMakesNone, NoneMade DEF Walks
  <1>5. QED
    BY <1>1, <1>2, <1>3, <1>4 DEF Next, OneLink

\* With one link from the service no player id ever has a second Player: neither
\* an offline player's return nor a session of no entry makes one anew.
THEOREM OneObject == ASSUME OneLink PROVE Spec => []OneObjectPerPlayer
  <1>1. Init => AllIndexed
    BY DEF Init, AllIndexed, Made
  <1>2. IInv /\ AllIndexed /\ [Next]_vars => AllIndexed'
    BY AllIndexedStep
  <1>3. AllIndexed => OneObjectPerPlayer
    BY DEF AllIndexed, OneObjectPerPlayer
  <1>4. QED
    BY <1>1, <1>2, <1>3, InvariantHolds, PTL DEF Spec

-----------------------------------------------------------------------------
(* Player.Post, the loop and drainAndFail implement ActorMailbox.          *)

\* Where each message is, read off its Player.
StageFacts ==
    \A k \in Calls :
        /\ k > Len(calls) => stage[k] = "new"
        /\ k <= Len(calls) =>
              /\ stage[k] # "new"
              /\ stage[k] = "handling" <=> cur[calls[k].obj] = k
              /\ stage[k] = "posted" <=> k \in ToSet(inbox[calls[k].obj])
              /\ reply[k] = <<"handled">> => stage[k] = "handled"
              /\ reply[k] = <<"refused">> => stage[k] = "refused"
        /\ target[k] = IF k <= Len(calls) THEN calls[k].obj ELSE NoObj

\* The stage of a message follows from its place and its answer.
LEMMA StagesKnown == IInv => StageFacts
  <1> SUFFICES ASSUME IInv, NEW k \in Calls
               PROVE  /\ k > Len(calls) => stage[k] = "new"
                      /\ k <= Len(calls) =>
                            /\ stage[k] # "new"
                            /\ stage[k] = "handling" <=> cur[calls[k].obj] = k
                            /\ stage[k] = "posted" <=> k \in ToSet(inbox[calls[k].obj])
                            /\ reply[k] = <<"handled">> => stage[k] = "handled"
                            /\ reply[k] = <<"refused">> => stage[k] = "refused"
                      /\ target[k] = IF k <= Len(calls) THEN calls[k].obj ELSE NoObj
    BY DEF StageFacts
  <1> DEFINE o == calls[k].obj
  <1>1. stage[k] = stageOf(k) /\ target[k] = IF k <= Len(calls) THEN calls[k].obj ELSE NoObj
    BY DEF stage, target
  <1>2. Len(calls) \in Nat
    BY CallCount
  <1>3. CASE k > Len(calls)
    <2>1. ~(k <= Len(calls))
      BY <1>2, <1>3
    <2>2. QED
      BY <1>1, <1>3, <2>1 DEF stageOf
  <1>4. CASE k <= Len(calls)
    <2>1. o \in Objects /\ ~(k > Len(calls))
      BY <1>2, <1>4, CallAt DEF IInv
    <2>2. stageOf(k) = CASE cur[o] = k -> "handling"
                         [] cur[o] # k /\ k \in ToSet(inbox[o]) -> "posted"
                         [] OTHER -> IF reply[k] = <<>> THEN "lost" ELSE Head(reply[k])
      BY <2>1 DEF stageOf
    <2>3. cur[o] = k => k \notin ToSet(inbox[o]) /\ reply[k] = <<>>
      BY <2>1 DEF IInv, InboxCoherent, HandCoherent
    <2>4. k \in ToSet(inbox[o]) => reply[k] = <<>> /\ cur[o] # k
      BY <2>1, <2>3 DEF IInv, InboxCoherent
    <2>5. reply[k] = <<>> => cur[o] = k \/ k \in ToSet(inbox[o])
      BY <1>4 DEF IInv, Accounted
    <2>6. reply[k] = <<>> \/ reply[k] = <<"handled">> \/ reply[k] = <<"refused">>
      BY DEF IInv, MoreTypes
    <2>7. /\ reply[k] = <<"handled">> => reply[k] # <<>> /\ Head(reply[k]) = "handled"
          /\ reply[k] = <<"refused">> => reply[k] # <<>> /\ Head(reply[k]) = "refused"
      OBVIOUS
    <2>8. CASE cur[o] = k
      BY <1>1, <2>1, <2>2, <2>3, <2>7, <2>8
    <2>9. CASE cur[o] # k /\ k \in ToSet(inbox[o])
      BY <1>1, <2>1, <2>2, <2>4, <2>7, <2>9
    <2>10. CASE reply[k] # <<>>
      BY <1>1, <2>1, <2>2, <2>3, <2>4, <2>6, <2>7, <2>10
    <2>11. QED
      BY <2>5, <2>8, <2>9, <2>10
  <1>5. QED
    BY <1>2, <1>3, <1>4

Seen == IInv /\ StageFacts

\* Stages are read off calls, inboxes, hands and answers.
LEMMA SameStages ==
    ASSUME UNCHANGED <<calls, inbox, cur, reply>>
    PROVE  UNCHANGED <<target, stage>>
  BY DEF target, stage, stageOf

\* A message whose place and answer stay keeps its stage.
LEMMA StageKept ==
    ASSUME Seen, Seen', NEW k \in Calls, k <= Len(calls), k <= Len(calls'),
           calls'[k] = calls[k], reply'[k] = reply[k],
           cur[calls[k].obj] = k <=> cur'[calls[k].obj] = k,
           k \in ToSet(inbox[calls[k].obj]) <=> k \in ToSet(inbox'[calls[k].obj])
    PROVE  stage'[k] = stage[k] /\ target'[k] = target[k]
  <1>1. reply[k] # <<>> \/ k = cur[calls[k].obj] \/ k \in ToSet(inbox[calls[k].obj])
    BY DEF Seen, IInv, Accounted
  <1>2. reply[k] = <<>> \/ reply[k] = <<"handled">> \/ reply[k] = <<"refused">>
    BY DEF Seen, IInv, MoreTypes
  <1>3. QED
    BY <1>1, <1>2 DEF Seen, StageFacts

\* Two functions of the messages that differ in one.
LEMMA OneMoves ==
    ASSUME NEW k \in Calls, \A j \in Calls \ {k} : stage'[j] = stage[j] /\ target'[j] = target[j]
    PROVE  /\ stage' = [stage EXCEPT ![k] = stage'[k]]
           /\ target' = [target EXCEPT ![k] = target'[k]]
  <1>1. /\ stage = [j \in Calls |-> stage[j]] /\ stage' = [j \in Calls |-> stage'[j]]
        /\ target = [j \in Calls |-> target[j]] /\ target' = [j \in Calls |-> target'[j]]
    BY DEF stage, target
  <1>2. QED
    BY <1>1

\* No message, no player.
LEMMA MailboxInit == Init => Mailbox!Init
  <1> SUFFICES ASSUME Init PROVE Mailbox!Init
    OBVIOUS
  <1>1. StageFacts /\ Len(calls) = 0
    BY InitIInv, StagesKnown DEF Init
  <1>2. \A k \in Calls : stage[k] = "new" /\ target[k] = NoObj
    BY <1>1 DEF StageFacts
  <1>3. stage = [k \in Calls |-> "new"] /\ target = [k \in Calls |-> NoObj]
    BY <1>2 DEF stage, target
  <1>4. QED
    BY <1>3 DEF Init, Mailbox!Init, Mailbox!Calls

\* A player's state moves along Lives, or stays.
LEMMA LifeStep ==
    ASSUME Seen, NEW o \in Objects, NEW st, UNCHANGED <<calls, inbox, cur, reply>>,
           pstate' = [pstate EXCEPT ![o] = st],
           \/ st = pstate[o]
           \/ <<pstate[o], st>> \in {<<"none", "Active">>, <<"Active", "Offline">>,
                                     <<"Offline", "Active">>, <<"Offline", "Destroyed">>}
    PROVE  Mailbox!Move(o) \/ UNCHANGED Mailbox!vars
  <1>1. UNCHANGED <<target, stage>>
    BY SameStages
  <1>2. CASE st = pstate[o]
    <2>1. pstate' = pstate
      BY <1>2 DEF Seen, IInv, TypeOK
    <2>2. QED
      BY <1>1, <2>1 DEF Mailbox!vars
  <1>3. CASE <<pstate[o], st>> \in {<<"none", "Active">>, <<"Active", "Offline">>,
                                    <<"Offline", "Active">>, <<"Offline", "Destroyed">>}
    <2>1. \E l \in Mailbox!Lives : pstate[o] = l[1] /\ pstate' = [pstate EXCEPT ![o] = l[2]]
      BY <1>3 DEF Mailbox!Lives
    <2>2. QED
      BY <1>1, <2>1 DEF Mailbox!Move
  <1>4. QED
    BY <1>2, <1>3

\* Post puts the next message in its Player's inbox.
LEMMA PostStep ==
    ASSUME Seen, Seen', NEW w \in Workers, Enqueue(w)
    PROVE  Mailbox!Post(Len(calls) + 1, obj[w])
  <1> DEFINE n == Len(calls) + 1
             o == obj[w]
  <1>1. /\ o \in Objects /\ Made(o) /\ n \in Calls /\ Len(calls') = n
        /\ calls'[n].obj = o
        /\ \A k \in Calls : k <= Len(calls) => calls'[k] = calls[k]
        /\ \A u \in Objects : u # o => inbox'[u] = inbox[u]
        /\ ToSet(inbox'[o]) = ToSet(inbox[o]) \cup {n}
    BY EnqueueEffect DEF Seen
  <1>2. Len(calls) \in Nat /\ UNCHANGED <<pstate, cur, reply>>
    BY CallCount DEF Seen, Enqueue
  <1>3. ASSUME NEW k \in Calls \ {n} PROVE stage'[k] = stage[k] /\ target'[k] = target[k]
    <2>1. CASE k <= Len(calls)
      <3>1. k <= Len(calls') /\ calls'[k] = calls[k] /\ calls[k].obj \in Objects
        BY <1>1, <1>2, <2>1, CallAt DEF Seen, IInv
      <3>2. k \in ToSet(inbox[calls[k].obj]) <=> k \in ToSet(inbox'[calls[k].obj])
        <4>1. CASE calls[k].obj = o
          <5>1. \A j : j \in ToSet(inbox'[o]) <=> (j \in ToSet(inbox[o]) \/ j = n)
            BY <1>1
          <5>2. QED
            BY <1>3, <4>1, <5>1
        <4>2. CASE calls[k].obj # o
          BY <1>1, <3>1, <4>2
        <4>3. QED
          BY <4>1, <4>2
      <3>3. QED
        BY <1>2, <2>1, <3>1, <3>2, StageKept
    <2>2. CASE k > n
      <3>1. k > Len(calls) /\ k > Len(calls') /\ ~(k <= Len(calls)) /\ ~(k <= Len(calls'))
        BY <1>1, <1>2, <2>2
      <3>2. QED
        BY <3>1 DEF Seen, StageFacts
    <2>3. QED
      BY <1>2, <2>1, <2>2
  <1>4. stage'[n] = "posted" /\ target'[n] = o
    <2>1. n <= Len(calls') /\ n \in ToSet(inbox'[calls'[n].obj])
      BY <1>1, <1>2
    <2>2. QED
      BY <1>1, <2>1 DEF Seen, StageFacts
  <1>5. stage[n] = "new"
    BY <1>1, <1>2 DEF Seen, StageFacts
  <1>6. ASSUME NEW j \in 1 .. n - 1 PROVE stage[j] # "new"
    <2>1. j \in Calls /\ j <= Len(calls)
      BY <1>1, <1>2
    <2>2. QED
      BY <2>1 DEF Seen, StageFacts
  <1>7. /\ stage' = [stage EXCEPT ![n] = "posted"]
        /\ target' = [target EXCEPT ![n] = o]
    BY <1>1, <1>3, <1>4, OneMoves
  <1>8. QED
    BY <1>1, <1>2, <1>5, <1>6, <1>7 DEF Mailbox!Post, Made

\* The head of an inbox is the oldest message its Player has not begun.
LEMMA HeadIsOldest ==
    ASSUME Seen, NEW o \in Objects, inbox[o] # <<>>
    PROVE  /\ Mailbox!Oldest(Head(inbox[o]))
           /\ target[Head(inbox[o])] = o
           /\ cur[o] = NoCall =>
                 \A j \in Mailbox!SameTarget(Head(inbox[o])) : stage[j] # "handling"
  <1> DEFINE k == Head(inbox[o])
  <1>1. /\ k \in ToSet(inbox[o]) /\ k \in Calls /\ k \in 1 .. Len(calls) /\ calls[k].obj = o
        /\ \A j \in ToSet(inbox[o]) : j = k \/ k < j
    BY InboxHead DEF Seen
  <1> HIDE DEF k
  <1>2. Len(calls) \in Nat
    BY CallCount DEF Seen
  <1>3. target[k] = o /\ stage[k] = "posted"
    BY <1>1 DEF Seen, StageFacts
  <1>4. ASSUME NEW j \in Mailbox!SameTarget(k)
        PROVE  /\ j \in Calls /\ j <= Len(calls) /\ calls[j].obj = o
               /\ stage[j] = "handling" => cur[o] = j
               /\ stage[j] = "posted" => j \in ToSet(inbox[o])
    <2>1. j \in Calls /\ target[j] = o
      BY <1>3 DEF Mailbox!SameTarget, Mailbox!Calls
    <2>2. j <= Len(calls) /\ calls[j].obj = o
      BY <2>1 DEF Seen, StageFacts
    <2>3. QED
      BY <2>1, <2>2 DEF Seen, StageFacts
  <1>5. ASSUME NEW j \in Mailbox!SameTarget(k), j < k PROVE stage[j] # "posted"
    BY <1>1, <1>4, <1>5
  <1>6. Mailbox!Oldest(k)
    BY <1>3, <1>5 DEF Mailbox!Oldest
  <1>7. cur[o] = NoCall => \A j \in Mailbox!SameTarget(k) : stage[j] # "handling"
    BY <1>4
  <1>8. QED
    BY <1>3, <1>6, <1>7 DEF k

\* A step on message k leaves the stages of the others.
LEMMA OthersKept ==
    ASSUME Seen, Seen', NEW k \in Calls, UNCHANGED calls,
           \A j \in Calls : j # k /\ j <= Len(calls) =>
               /\ reply'[j] = reply[j]
               /\ cur[calls[j].obj] = j <=> cur'[calls[j].obj] = j
               /\ j \in ToSet(inbox[calls[j].obj]) <=> j \in ToSet(inbox'[calls[j].obj])
    PROVE  \A j \in Calls \ {k} : stage'[j] = stage[j] /\ target'[j] = target[j]
  <1> SUFFICES ASSUME NEW j \in Calls \ {k} PROVE stage'[j] = stage[j] /\ target'[j] = target[j]
    OBVIOUS
  <1>1. Len(calls) \in Nat
    BY CallCount DEF Seen
  <1>2. CASE j <= Len(calls)
    BY <1>2, StageKept
  <1>3. CASE j > Len(calls)
    <2>1. ~(j <= Len(calls))
      BY <1>1, <1>3
    <2>2. QED
      BY <1>3, <2>1 DEF Seen, StageFacts
  <1>4. QED
    BY <1>1, <1>2, <1>3

\* The target of a message stays.
LEMMA TargetKept ==
    ASSUME UNCHANGED calls
    PROVE  UNCHANGED target
  BY DEF target

\* Message numbers in an inbox are messages.
LEMMA InboxCalls ==
    ASSUME IInv, NEW o \in Objects, NEW j \in ToSet(inbox[o])
    PROVE  j \in Calls /\ j <= Len(calls) /\ calls[j].obj = o
  <1>1. j \in 1 .. Len(calls)
    BY ElementAt DEF IInv, TypeOK
  <1>2. QED
    BY <1>1, CallCount DEF IInv, InboxCoherent

\* The loop takes the oldest message, with none in hand.
LEMMA TakeStep ==
    ASSUME Seen, Seen', NEW o \in Objects, LoopRecv(o)
    PROVE  Mailbox!Take(Head(inbox[o]))
  <1> DEFINE k == Head(inbox[o])
  <1>1. /\ UNCHANGED <<pstate, calls, reply>>
        /\ loop[o] = "recv" /\ inbox[o] # <<>>
        /\ cur' = [cur EXCEPT ![o] = k]
        /\ inbox' = [inbox EXCEPT ![o] = Tail(@)]
    BY DEF LoopRecv, Taken, managerVars, workerVars
  <1>2. /\ k \in Calls /\ k \in 1 .. Len(calls) /\ calls[k].obj = o
        /\ \A j \in ToSet(Tail(inbox[o])) : j \in ToSet(inbox[o]) /\ k < j
        /\ \A j \in ToSet(inbox[o]) : j = k \/ j \in ToSet(Tail(inbox[o]))
    BY <1>1, InboxHead DEF Seen
  <1>3. cur[o] = NoCall
    BY <1>1 DEF Seen, IInv, LoopCoherent
  <1>4. Mailbox!Oldest(k) /\ \A j \in Mailbox!SameTarget(k) : stage[j] # "handling"
    BY <1>1, <1>3, HeadIsOldest
  <1> HIDE DEF k
  <1>5. /\ inbox'[o] = Tail(inbox[o]) /\ cur'[o] = k
        /\ \A u \in Objects : u # o => inbox'[u] = inbox[u] /\ cur'[u] = cur[u]
    BY <1>1 DEF Seen, IInv, TypeOK
  <1>6. ASSUME NEW j \in Calls, j # k, j <= Len(calls)
        PROVE  /\ cur[calls[j].obj] = j <=> cur'[calls[j].obj] = j
               /\ j \in ToSet(inbox[calls[j].obj]) <=> j \in ToSet(inbox'[calls[j].obj])
    <2>1. calls[j].obj \in Objects /\ j # NoCall
      BY <1>6, CallAt DEF Seen, IInv
    <2>2. CASE calls[j].obj = o
      BY <1>2, <1>3, <1>5, <1>6, <2>1, <2>2
    <2>3. CASE calls[j].obj # o
      BY <1>5, <2>1, <2>3
    <2>4. QED
      BY <2>2, <2>3
  <1>7. \A j \in Calls \ {k} : stage'[j] = stage[j] /\ target'[j] = target[j]
    BY <1>1, <1>2, <1>6, OthersKept
  <1>8. stage'[k] = "handling"
    <2>1. k <= Len(calls')
      BY <1>1, <1>2
    <2>2. cur'[calls'[k].obj] = k
      BY <1>1, <1>2, <1>5
    <2>3. QED
      BY <1>2, <2>1, <2>2 DEF Seen, StageFacts
  <1>9. stage' = [stage EXCEPT ![k] = "handling"]
    BY <1>2, <1>7, <1>8, OneMoves
  <1>10. UNCHANGED target
    BY <1>1, TargetKept
  <1>11. QED
    BY <1>1, <1>4, <1>9, <1>10 DEF Mailbox!Take, k

\* handle answers the message in hand, and may bring its Player back.
LEMMA HandledStep ==
    ASSUME Seen, Seen', NEW o \in Objects, LoopHandle(o)
    PROVE  cur[o] \in Calls /\ Mailbox!Handle(cur[o])
  <1> DEFINE k == cur[o]
             e == calls[k].env
  <1>1. /\ loop[o] = "handle"
        /\ pstate' = [pstate EXCEPT ![o] = IF Revives(o, e) THEN ResumedState(@) ELSE @]
        /\ reply' = [reply EXCEPT ![k] = Append(@, "handled")]
        /\ cur' = [cur EXCEPT ![o] = NoCall]
        /\ UNCHANGED <<inbox, calls>>
    BY DEF LoopHandle, managerVars, workerVars
  <1>2. k \in Calls /\ k <= Len(calls) /\ k # NoCall
    BY <1>1, CallCount DEF Seen, IInv, LoopCoherent
  <1>3. calls[k].obj = o /\ reply[k] = <<>>
    BY <1>2 DEF Seen, IInv, HandCoherent
  <1>4. stage[k] = "handling" /\ target[k] = o
    BY <1>2, <1>3 DEF Seen, StageFacts
  <1>5. UNCHANGED pstate \/ (pstate[o] = "Offline" /\ pstate' = [pstate EXCEPT ![o] = "Active"])
    <2>1. CASE Revives(o, e)
      BY <1>1, <2>1 DEF Revives, ResumedState, Seen, IInv, TypeOK
    <2>2. CASE ~Revives(o, e)
      BY <1>1, <2>2 DEF Seen, IInv, TypeOK
    <2>3. QED
      BY <2>1, <2>2
  <1> HIDE DEF k, e
  <1>6. /\ reply'[k] = <<"handled">>
        /\ \A j \in Calls : j # k => reply'[j] = reply[j]
    BY <1>1, <1>2, <1>3, AnswerOnce DEF Seen, IInv
  <1>7. cur'[o] = NoCall /\ \A u \in Objects : u # o => cur'[u] = cur[u]
    BY <1>1 DEF Seen, IInv, TypeOK
  <1>8. ASSUME NEW j \in Calls, j # k, j <= Len(calls)
        PROVE  cur[calls[j].obj] = j <=> cur'[calls[j].obj] = j
    <2>1. calls[j].obj \in Objects /\ j # NoCall
      BY <1>8, CallAt DEF Seen, IInv
    <2>2. QED
      BY <1>7, <1>8, <2>1 DEF k
  <1>9. \A j \in Calls \ {k} : stage'[j] = stage[j] /\ target'[j] = target[j]
    BY <1>1, <1>2, <1>6, <1>8, OthersKept
  <1>10. stage'[k] = "handled"
    <2>1. k <= Len(calls')
      BY <1>1, <1>2
    <2>2. QED
      BY <1>2, <1>6, <2>1 DEF Seen, StageFacts
  <1>11. stage' = [stage EXCEPT ![k] = "handled"]
    BY <1>2, <1>9, <1>10, OneMoves
  <1>12. UNCHANGED target
    BY <1>1, TargetKept
  <1>13. QED
    BY <1>2, <1>4, <1>5, <1>11, <1>12 DEF Mailbox!Handle, k

\* drainAndFail refuses the oldest message of a destroyed Player.
LEMMA RefusedStep ==
    ASSUME Seen, Seen', NEW o \in Objects, LoopDrain(o), inbox[o] # <<>>
    PROVE  Head(inbox[o]) \in Calls /\ Mailbox!Refuse(Head(inbox[o]))
  <1> DEFINE k == Head(inbox[o])
  <1>1. /\ UNCHANGED <<pstate, cur, calls>>
        /\ loop[o] = "drain"
        /\ inbox' = [inbox EXCEPT ![o] = Tail(@)]
        /\ reply' = [reply EXCEPT ![k] = Append(@, "refused")]
    BY DEF LoopDrain, Failed, managerVars, workerVars
  <1>2. /\ k \in ToSet(inbox[o]) /\ k \in Calls /\ k \in 1 .. Len(calls) /\ calls[k].obj = o
        /\ \A j \in ToSet(Tail(inbox[o])) : j \in ToSet(inbox[o]) /\ k < j
        /\ \A j \in ToSet(inbox[o]) : j = k \/ j \in ToSet(Tail(inbox[o]))
    BY InboxHead DEF Seen
  <1>3. Mailbox!Oldest(k) /\ target[k] = o /\ pstate[o] = "Destroyed"
    BY <1>1, HeadIsOldest DEF Seen, IInv, LoopCoherent
  <1> HIDE DEF k
  <1>4. reply[k] = <<>>
    BY <1>2 DEF Seen, IInv, InboxCoherent
  <1>5. /\ reply'[k] = <<"refused">>
        /\ \A j \in Calls : j # k => reply'[j] = reply[j]
    BY <1>1, <1>2, <1>4, AnswerOnce DEF Seen, IInv
  <1>6. /\ inbox'[o] = Tail(inbox[o])
        /\ \A u \in Objects : u # o => inbox'[u] = inbox[u]
    BY <1>1 DEF Seen, IInv, TypeOK
  <1>7. ASSUME NEW j \in Calls, j # k, j <= Len(calls)
        PROVE  j \in ToSet(inbox[calls[j].obj]) <=> j \in ToSet(inbox'[calls[j].obj])
    <2>1. calls[j].obj \in Objects
      BY <1>7, CallAt DEF Seen, IInv
    <2>2. CASE calls[j].obj = o
      BY <1>2, <1>6, <1>7, <2>2
    <2>3. CASE calls[j].obj # o
      BY <1>6, <2>1, <2>3
    <2>4. QED
      BY <2>2, <2>3
  <1>8. \A j \in Calls \ {k} : stage'[j] = stage[j] /\ target'[j] = target[j]
    BY <1>1, <1>2, <1>5, <1>7, OthersKept
  <1>9. stage'[k] = "refused"
    <2>1. k <= Len(calls')
      BY <1>1, <1>2
    <2>2. QED
      BY <1>2, <1>5, <2>1 DEF Seen, StageFacts
  <1>10. stage' = [stage EXCEPT ![k] = "refused"]
    BY <1>2, <1>8, <1>9, OneMoves
  <1>11. UNCHANGED target
    BY <1>1, TargetKept
  <1>12. QED
    BY <1>1, <1>2, <1>3, <1>10, <1>11 DEF Mailbox!Refuse, k

\* The steps that write a Player's state and touch no mailbox.
LEMMA LifeSteps ==
    ASSUME Seen,
           \/ \E w \in Workers : Revive(w) \/ Offline(w) \/ \E o \in Objects : Install(w, o)
           \/ \E p \in Destroyable : DestroyPlayer(p)
    PROVE  [Mailbox!Next]_(Mailbox!vars)
  <1>1. ASSUME NEW o \in Objects, NEW st, UNCHANGED <<calls, inbox, cur, reply>>,
               pstate' = [pstate EXCEPT ![o] = st],
               \/ st = pstate[o]
               \/ <<pstate[o], st>> \in {<<"none", "Active">>, <<"Active", "Offline">>,
                                         <<"Offline", "Active">>, <<"Offline", "Destroyed">>}
        PROVE  [Mailbox!Next]_(Mailbox!vars)
    BY <1>1, LifeStep DEF Mailbox!Next
  <1>2. ASSUME NEW w \in Workers, Revive(w) PROVE [Mailbox!Next]_(Mailbox!vars)
    <2>1. obj[w] \in Objects /\ pstate' = [pstate EXCEPT ![obj[w]] = ResumedState(pstate[obj[w]])]
      BY <1>2 DEF Seen, IInv, HoldsMade, Revive, At
    <2>2. ResumedState(pstate[obj[w]]) = pstate[obj[w]]
          \/ (pstate[obj[w]] = "Offline" /\ ResumedState(pstate[obj[w]]) = "Active")
      BY DEF ResumedState
    <2>3. UNCHANGED <<calls, inbox, cur, reply>>
      BY <1>2 DEF Revive
    <2>4. QED
      BY <1>1, <2>1, <2>2, <2>3
  <1>3. ASSUME NEW w \in Workers, Offline(w) PROVE [Mailbox!Next]_(Mailbox!vars)
    <2>1. obj[w] \in Objects /\ pstate' = [pstate EXCEPT ![obj[w]] = OfflinedState(pstate[obj[w]])]
      BY <1>3 DEF Seen, IInv, HoldsMade, Offline, At
    <2>2. OfflinedState(pstate[obj[w]]) = pstate[obj[w]]
          \/ (pstate[obj[w]] = "Active" /\ OfflinedState(pstate[obj[w]]) = "Offline")
      BY DEF OfflinedState
    <2>3. UNCHANGED <<calls, inbox, cur, reply>>
      BY <1>3 DEF Offline
    <2>4. QED
      BY <1>1, <2>1, <2>2, <2>3
  <1>4. ASSUME NEW w \in Workers, NEW o \in Objects, Install(w, o)
        PROVE  [Mailbox!Next]_(Mailbox!vars)
    <2>1. pstate[o] = "none" /\ pstate' = [pstate EXCEPT ![o] = "Active"]
      BY <1>4 DEF Install, NewPlayer, Made
    <2>2. UNCHANGED <<calls, inbox, cur, reply>>
      BY <1>4 DEF Install
    <2>3. QED
      BY <1>1, <2>1, <2>2
  <1>5. ASSUME NEW p \in Destroyable, DestroyPlayer(p) PROVE [Mailbox!Next]_(Mailbox!vars)
    <2> DEFINE o == players[p]
    <2>1. o \in Objects /\ pstate' = [pstate EXCEPT ![o] = DestroyedState(pstate[o])]
      BY <1>5 DEF Seen, IInv, TypeOK, DestroyPlayer, PlayerIds
    <2>2. DestroyedState(pstate[o]) = pstate[o]
          \/ (pstate[o] = "Offline" /\ DestroyedState(pstate[o]) = "Destroyed")
      BY DEF DestroyedState
    <2>3. UNCHANGED <<calls, inbox, cur, reply>>
      BY <1>5 DEF DestroyPlayer
    <2>4. QED
      BY <1>1, <2>1, <2>2, <2>3
  <1>6. QED
    BY <1>2, <1>3, <1>4, <1>5

\* The steps that leave states and mailboxes alone.
LEMMA QuietSteps ==
    ASSUME UNCHANGED <<pstate, calls, inbox, cur, reply>>
    PROVE  UNCHANGED Mailbox!vars
  BY SameStages DEF Mailbox!vars

\* Every step is a step of the abstract mailbox or leaves it alone.
LEMMA MailboxStep ==
    ASSUME Seen, Seen', [Next]_vars
    PROVE  [Mailbox!Next]_(Mailbox!vars)
  <1>1. CASE UNCHANGED vars
    <2>1. UNCHANGED <<pstate, calls, inbox, cur, reply>>
      BY <1>1 DEF vars
    <2>2. QED
      BY <2>1, QuietSteps
  <1>2. ASSUME NEW w \in Workers, Walks(w) \/ BindSession(w) \/ Unbind(w)
        PROVE  [Mailbox!Next]_(Mailbox!vars)
    <2>1. UNCHANGED <<pstate, calls, inbox, cur, reply>>
      BY <1>2, WalkFrame DEF BindSession, Unbind, objectVars
    <2>2. QED
      BY <2>1, QuietSteps
  <1>3. ASSUME NEW w \in Workers, Enqueue(w) PROVE Mailbox!Next
    <2>1. obj[w] \in Objects /\ Len(calls) + 1 \in Mailbox!Calls
      BY <1>3, EnqueueEffect DEF Seen, Mailbox!Calls
    <2>2. Mailbox!Post(Len(calls) + 1, obj[w])
      BY <1>3, PostStep
    <2>3. QED
      BY <2>1, <2>2 DEF Mailbox!Next
  <1>4. ASSUME NEW w \in Workers, WorkerStep(w) PROVE [Mailbox!Next]_(Mailbox!vars)
    BY <1>2, <1>3, <1>4, LifeSteps DEF WorkerStep, Walks
  <1>5. ASSUME NEW o \in Objects, LoopStep(o) PROVE [Mailbox!Next]_(Mailbox!vars)
    <2>1. CASE LoopCheck(o) \/ (LoopDrain(o) /\ inbox[o] = <<>>)
      <3>1. UNCHANGED <<pstate, calls, inbox, cur, reply>>
        BY <2>1 DEF LoopCheck, LoopDrain
      <3>2. QED
        BY <3>1, QuietSteps
    <2>2. CASE LoopRecv(o)
      <3>1. Head(inbox[o]) \in Mailbox!Calls
        BY <2>2, InboxHead DEF LoopRecv, Seen, Mailbox!Calls
      <3>2. QED
        BY <2>2, <3>1, TakeStep DEF Mailbox!Next
    <2>3. CASE LoopHandle(o)
      BY <2>3, HandledStep DEF Mailbox!Next, Mailbox!Calls
    <2>4. CASE LoopDrain(o) /\ inbox[o] # <<>>
      BY <2>4, RefusedStep DEF Mailbox!Next, Mailbox!Calls
    <2>5. QED
      BY <1>5, <2>1, <2>2, <2>3, <2>4 DEF LoopStep
  <1>6. ASSUME NEW w \in Workers, NEW e \in Envelopes, NEW p \in PlayerIds, Receive(w, e, p)
        PROVE  [Mailbox!Next]_(Mailbox!vars)
    BY <1>2, <1>6 DEF Walks
  <1>7. QED
    BY <1>1, <1>4, <1>5, <1>6, LifeSteps DEF Next

-----------------------------------------------------------------------------
\* Dispatch, Post, the loop and drainAndFail keep what ActorMailbox promises:
\* every step of the game server is a move of a player, a step of one message
\* through its mailbox, or neither.
THEOREM GameImplementsMailbox == Spec => MailboxSpec
  <1>1. IInv => Seen
    BY StagesKnown DEF Seen
  <1>2. Seen /\ Seen' /\ [Next]_vars => [Mailbox!Next]_(Mailbox!vars)
    BY MailboxStep
  <1>3. QED
    BY <1>1, <1>2, InvariantHolds, MailboxInit, PTL DEF Spec, MailboxSpec, Mailbox!Spec
=============================================================================
