-------------------------- MODULE SessionLifecycle --------------------------
(***************************************************************************)
(* What the gate promises about the life of a session, whatever happens to *)
(* connections, logins and timers.  The gate's module implements it.       *)
(***************************************************************************)
EXTENDS Integers

CONSTANT MaxSession

VARIABLE phase

Sessions == 1 .. MaxSession

Init == phase = [s \in Sessions |-> "absent"]

\* Ids are handed out in order, each to a session with a connection.
Create(s) ==
    /\ phase[s] = "absent"
    /\ \A t \in 1 .. s - 1 : phase[t] # "absent"
    /\ phase' = [phase EXCEPT ![s] = "attached"]

\* One session at a time loses its connection.
Detach(s) ==
    /\ phase[s] = "attached"
    /\ phase' = [phase EXCEPT ![s] = "detached"]

Attach(s) ==
    /\ phase[s] = "detached"
    /\ phase' = [phase EXCEPT ![s] = "attached"]

\* Only detached sessions are closed, any number at once.
Collect(S) ==
    /\ S # {}
    /\ \A s \in S : phase[s] = "detached"
    /\ phase' = [s \in Sessions |-> IF s \in S THEN "closed" ELSE phase[s]]

Next ==
    \/ \E s \in Sessions : Create(s) \/ Detach(s) \/ Attach(s)
    \/ \E S \in SUBSET Sessions : Collect(S)

Spec == Init /\ [][Next]_phase
=============================================================================
