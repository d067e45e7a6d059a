---------------------------- MODULE RoutingProofs ----------------------------
(***************************************************************************)
(* NetServer's tables agree, an answer finds the link that asked, and      *)
(* nothing reaches a link that never carried its session, for any number   *)
(* of links, sessions and envelopes.                                       *)
(***************************************************************************)
EXTENDS ServiceRouting, TLAPS

\* A link is in the table while its goroutine runs.
RunningIsListed == \A l \in Links : l \in gateConns <=> pc[l] \notin {"none", "closed"}

\* An entry of sessionGate names a link that carried the session.
GateHasSeen == \A s \in Sessions : sessionGate[s] # NoLink => s \in seen[sessionGate[s]]

\* What replyToGate has found when it comes to write.
WritesToSeen ==
    /\ \A l \in Links : pc[l] = "record" => env[l].session \in Sessions
    /\ \A l \in Links : pc[l] = "write" =>
          env[l].session \in Sessions /\ target[l] \in Links /\ env[l].session \in seen[target[l]]
    /\ push # NoSession => pushTarget \in Links /\ push \in seen[pushTarget]

IInv ==
    /\ TypeOK
    /\ RunningIsListed
    /\ SessionGateLive
    /\ GateHasSeen
    /\ WritesToSeen
    /\ AskerIsFound
    /\ DeliveredToOwn

LEMMA EnvelopeSession ==
    ASSUME NEW e \in Envelopes \cup {NoEnv}
    PROVE  /\ e.session \in Sessions \cup {NoSession}
           /\ Asks(e) => e.session \in Sessions
  BY DEF Envelopes, NoEnv, Kinds, Asks

LEMMA InitIInv == Init => IInv
  <1> SUFFICES ASSUME Init PROVE IInv
    OBVIOUS
  <1>1. TypeOK
    BY RoutingAssumption DEF Init, TypeOK
  <1>2. QED
    BY <1>1, RoutingAssumption
    DEF Init, IInv, RunningIsListed, SessionGateLive, GateHasSeen, WritesToSeen, AskerIsFound,
        DeliveredToOwn, NoEnv

USE RoutingAssumption

\* A step that leaves tables, envelopes and answers alone but for pc of a link
\* that starts keeps the invariant.
LEMMA AcceptStep ==
    ASSUME IInv, NEW l \in Links, AcceptGate(l)
    PROVE  IInv'
  <1>1. TypeOK'
    BY DEF IInv, TypeOK, AcceptGate, Goto, router
  <1>2. RunningIsListed' /\ SessionGateLive' /\ GateHasSeen' /\ DeliveredToOwn'
    BY DEF IInv, TypeOK, AcceptGate, Goto, router, RunningIsListed, SessionGateLive, GateHasSeen,
           DeliveredToOwn
  <1>3. WritesToSeen' /\ AskerIsFound'
    BY DEF IInv, TypeOK, AcceptGate, Goto, router, WritesToSeen, AskerIsFound
  <1>4. QED
    BY <1>1, <1>2, <1>3 DEF IInv

LEMMA BreakStep ==
    ASSUME IInv, NEW l \in Links, Break(l)
    PROVE  IInv'
  BY DEF IInv, TypeOK, Break, tables, handlers, router, RunningIsListed, SessionGateLive,
         GateHasSeen, DeliveredToOwn, WritesToSeen, AskerIsFound

LEMMA ReadStep ==
    ASSUME IInv, NEW l \in Links, NEW e \in Envelopes, Read(l, e)
    PROVE  IInv'
  <1> e.session \in Sessions \cup {NoSession}
    BY EnvelopeSession
  <1>1. TypeOK'
    BY DEF IInv, TypeOK, Read, Goto, router, tables
  <1>2. RunningIsListed' /\ SessionGateLive' /\ GateHasSeen' /\ DeliveredToOwn'
    BY DEF IInv, TypeOK, Read, Goto, router, tables, RunningIsListed, SessionGateLive,
           GateHasSeen, DeliveredToOwn
  <1>3. WritesToSeen'
    BY DEF IInv, TypeOK, Read, Goto, router, tables, WritesToSeen
  <1>4. AskerIsFound'
    BY DEF IInv, TypeOK, Read, Goto, router, tables, AskerIsFound
  <1>5. QED
    BY <1>1, <1>2, <1>3, <1>4 DEF IInv

LEMMA RecordStep ==
    ASSUME IInv, NEW l \in Links, Record(l)
    PROVE  IInv'
  <1> env[l].session \in Sessions
    BY DEF IInv, WritesToSeen, Record
  <1>1. TypeOK'
    BY DEF IInv, TypeOK, Record, Goto, router
  <1>2. RunningIsListed' /\ SessionGateLive' /\ GateHasSeen' /\ DeliveredToOwn'
    BY DEF IInv, TypeOK, Record, Goto, router, RunningIsListed, SessionGateLive, GateHasSeen,
           DeliveredToOwn
  <1>3. WritesToSeen'
    BY DEF IInv, TypeOK, Record, Goto, router, WritesToSeen
  <1>4. AskerIsFound'
    BY DEF IInv, TypeOK, Record, Goto, router, AskerIsFound
  <1>5. QED
    BY <1>1, <1>2, <1>3, <1>4 DEF IInv

LEMMA DispatchStep ==
    ASSUME IInv, NEW l \in Links, Dispatch(l)
    PROVE  IInv'
  <1>1. asked' \in [Sessions -> 0 .. MaxAsked]
    BY EnvelopeSession DEF IInv, TypeOK, Dispatch
  <1>2. TypeOK'
    BY <1>1 DEF IInv, TypeOK, Dispatch, Goto, NextEnvelope, router, tables, NoEnv
  <1>3. RunningIsListed' /\ SessionGateLive' /\ GateHasSeen' /\ DeliveredToOwn'
    BY DEF IInv, TypeOK, Dispatch, Goto, NextEnvelope, router, tables, RunningIsListed,
           SessionGateLive, GateHasSeen, DeliveredToOwn
  <1>4. WritesToSeen'
    BY DEF IInv, TypeOK, Dispatch, Goto, NextEnvelope, router, tables, WritesToSeen
  <1>5. AskerIsFound'
    BY DEF IInv, TypeOK, Dispatch, Goto, NextEnvelope, router, tables, AskerIsFound
  <1>6. QED
    BY <1>2, <1>3, <1>4, <1>5 DEF IInv

\* The link replyToGate finds has carried the session.
LEMMA LinkHasSeen ==
    ASSUME IInv, NEW s \in Sessions \cup {NoSession}, LinkOf(s) # NoLink
    PROVE  s \in Sessions /\ LinkOf(s) \in Links /\ s \in seen[LinkOf(s)]
  BY DEF IInv, TypeOK, LinkOf, GateHasSeen

LEMMA ReplyStep ==
    ASSUME IInv, NEW l \in Links, Reply(l)
    PROVE  IInv'
  <1> DEFINE s == env[l].session
  <1>1. s \in Sessions \cup {NoSession}
    BY EnvelopeSession DEF IInv, TypeOK
  <1>2. LinkOf(s) # NoLink => s \in Sessions /\ LinkOf(s) \in Links /\ s \in seen[LinkOf(s)]
    BY <1>1, LinkHasSeen
  <1>3. TypeOK'
    BY <1>2 DEF IInv, TypeOK, Reply, Goto, NextEnvelope, router, tables, NoEnv
  <1>4. RunningIsListed' /\ SessionGateLive' /\ GateHasSeen' /\ DeliveredToOwn'
    BY DEF IInv, TypeOK, Reply, Goto, NextEnvelope, router, tables, RunningIsListed,
           SessionGateLive, GateHasSeen, DeliveredToOwn
  <1>5. WritesToSeen'
    BY <1>2 DEF IInv, TypeOK, Reply, Goto, NextEnvelope, router, tables, WritesToSeen
  <1>6. AskerIsFound'
    BY DEF IInv, TypeOK, Reply, Goto, NextEnvelope, router, tables, AskerIsFound
  <1>7. QED
    BY <1>3, <1>4, <1>5, <1>6 DEF IInv

LEMMA WriteReplyStep ==
    ASSUME IInv, NEW l \in Links, WriteReply(l)
    PROVE  IInv'
  <1>1. /\ env[l].session \in Sessions /\ target[l] \in Links
        /\ env[l].session \in seen[target[l]]
    BY DEF IInv, WritesToSeen, WriteReply
  <1>2. TypeOK'
    BY <1>1 DEF IInv, TypeOK, WriteReply, Deliver, Goto, NextEnvelope, router, tables, NoEnv
  <1>3. RunningIsListed' /\ SessionGateLive' /\ GateHasSeen'
    BY DEF IInv, TypeOK, WriteReply, Goto, NextEnvelope, router, tables, RunningIsListed,
           SessionGateLive, GateHasSeen
  <1>4. DeliveredToOwn'
    BY <1>1 DEF IInv, TypeOK, WriteReply, Deliver, DeliveredToOwn
  <1>5. WritesToSeen' /\ AskerIsFound'
    BY DEF IInv, TypeOK, WriteReply, Goto, NextEnvelope, router, tables, WritesToSeen,
           AskerIsFound
  <1>6. QED
    BY <1>2, <1>3, <1>4, <1>5 DEF IInv

\* Both tables lose the link under one lock.
LEMMA GateGoneStep ==
    ASSUME IInv, NEW l \in Links, GateGone(l)
    PROVE  IInv'
  <1>1. TypeOK'
    BY DEF IInv, TypeOK, GateGone, Purged, Goto, router
  <1>2. RunningIsListed' /\ SessionGateLive' /\ GateHasSeen' /\ DeliveredToOwn'
    BY DEF IInv, TypeOK, GateGone, Purged, Goto, router, RunningIsListed, SessionGateLive,
           GateHasSeen, DeliveredToOwn
  <1>3. WritesToSeen'
    BY DEF IInv, TypeOK, GateGone, Goto, router, WritesToSeen
  <1>4. AskerIsFound'
    BY EnvelopeSession DEF IInv, TypeOK, GateGone, Purged, Goto, router, AskerIsFound
  <1>5. QED
    BY <1>1, <1>2, <1>3, <1>4 DEF IInv

LEMMA ForwardStep ==
    ASSUME IInv, NEW s \in Sessions, Forward(s)
    PROVE  IInv'
  <1>1. LinkOf(s) # NoLink => LinkOf(s) \in Links /\ s \in seen[LinkOf(s)]
    BY LinkHasSeen
  <1>2. TypeOK'
    BY <1>1 DEF IInv, TypeOK, Forward, tables, handlers, router
  <1>3. WritesToSeen'
    BY <1>1 DEF IInv, TypeOK, Forward, tables, handlers, router, WritesToSeen
  <1>4. QED
    BY <1>2, <1>3
    DEF IInv, Forward, tables, handlers, RunningIsListed, SessionGateLive, GateHasSeen,
        AskerIsFound, DeliveredToOwn

LEMMA WritePushStep ==
    ASSUME IInv, WritePush
    PROVE  IInv'
  <1>1. push \in Sessions /\ pushTarget \in Links /\ push \in seen[pushTarget]
    BY DEF IInv, TypeOK, WritesToSeen, WritePush
  <1>2. TypeOK' /\ DeliveredToOwn'
    BY <1>1 DEF IInv, TypeOK, WritePush, Deliver, tables, handlers, DeliveredToOwn
  <1>3. QED
    BY <1>2
    DEF IInv, WritePush, tables, handlers, RunningIsListed, SessionGateLive, GateHasSeen,
        AskerIsFound, WritesToSeen

LEMMA NextStep == IInv /\ [Next]_vars => IInv'
  <1> SUFFICES ASSUME IInv, [Next]_vars PROVE IInv'
    OBVIOUS
  <1>1. CASE UNCHANGED vars
    BY <1>1
    DEF vars, IInv, TypeOK, RunningIsListed, SessionGateLive, GateHasSeen, WritesToSeen,
        AskerIsFound, DeliveredToOwn
  <1>2. CASE Next
    BY <1>2, AcceptStep, BreakStep, ReadStep, RecordStep, DispatchStep, ReplyStep,
       WriteReplyStep, GateGoneStep, ForwardStep, WritePushStep
    DEF Next, Working
  <1>3. QED
    BY <1>1, <1>2

\* The invariant holds of every reachable state of NetServer.
THEOREM InvariantHolds == Spec => []IInv
  BY InitIInv, NextStep, PTL DEF Spec

\* The variables of NetServer stay within their types.
THEOREM TypeCorrect == Spec => []TypeOK
  <1>1. IInv => TypeOK
    BY DEF IInv
  <1>2. QED
    BY <1>1, InvariantHolds, PTL

\* sessionGate names only links that gateConns has: replyToGate's nil test never
\* fires.
THEOREM TablesAgree == Spec => []SessionGateLive
  <1>1. IInv => SessionGateLive
    BY DEF IInv
  <1>2. QED
    BY <1>1, InvariantHolds, PTL

\* The answer to an envelope finds the link it came on, unless another link has
\* carried its session, however links come and go during dispatchEnvelope.
THEOREM AnswersFindTheirLink == Spec => []AskerIsFound
  <1>1. IInv => AskerIsFound
    BY DEF IInv
  <1>2. QED
    BY <1>1, InvariantHolds, PTL

\* replyToGate and ForwardToGate write to a link only for sessions it carried.
THEOREM NothingMisdelivered == Spec => []DeliveredToOwn
  <1>1. IInv => DeliveredToOwn
    BY DEF IInv
  <1>2. QED
    BY <1>1, InvariantHolds, PTL
=============================================================================
