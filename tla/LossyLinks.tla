----------------------------- MODULE LossyLinks -----------------------------
(***************************************************************************)
(* What a sender can count on across the connections to another process:   *)
(* each envelope travels at most once, in the order of acceptance, on one  *)
(* of a series of connections of which one at most is open; envelopes are  *)
(* lost between connections and with one that breaks, never out of the     *)
(* middle of one; nobody is told.                                          *)
(***************************************************************************)
EXTENDS Naturals

CONSTANTS
    MaxSent,   \* bound on the envelopes
    MaxLinks   \* bound on the connections

VARIABLES
    offered,   \* envelopes accepted, numbered from 1
    settled,   \* envelopes given to a connection or given up
    link,      \* the latest connection
    open,      \* whether it is open
    flight,    \* connection -> the envelopes that travel on it
    got        \* what has arrived, with its connection

vars == <<offered, settled, link, open, flight, got>>

Links == 1 .. MaxLinks

Init ==
    /\ offered = 0 /\ settled = 0
    /\ link = 0 /\ open = FALSE
    /\ flight = [l \in Links |-> {}]
    /\ got = {}

Offer ==
    /\ offered < MaxSent
    /\ offered' = offered + 1
    /\ UNCHANGED <<settled, link, open, flight, got>>

Open ==
    /\ ~open
    /\ link < MaxLinks
    /\ link' = link + 1
    /\ open' = TRUE
    /\ UNCHANGED <<offered, settled, flight, got>>

Close ==
    /\ open
    /\ open' = FALSE
    /\ UNCHANGED <<offered, settled, link, flight, got>>

Carry ==
    /\ open
    /\ settled < offered
    /\ settled' = settled + 1
    /\ flight' = [flight EXCEPT ![link] = @ \cup {settled + 1}]
    /\ UNCHANGED <<offered, link, open, got>>

\* The connection has carried something.
Used(l) == flight[l] # {} \/ \E k \in 1 .. settled : <<l, k>> \in got

\* An envelope is given up: before the connection carried anything, or with it.
GiveUp ==
    /\ settled < offered
    /\ settled' = settled + 1
    /\ \/ open' = FALSE
       \/ open' = open /\ ~Used(link)
    /\ UNCHANGED <<offered, link, flight, got>>

Lose(l) ==
    /\ l = link => ~open
    /\ flight' = [flight EXCEPT ![l] = {}]
    /\ UNCHANGED <<offered, settled, link, open, got>>

\* The oldest arrives.
Arrive(l) ==
    /\ \E k \in flight[l] :
          /\ \A j \in flight[l] : k <= j
          /\ got' = got \cup {<<l, k>>}
          /\ flight' = [flight EXCEPT ![l] = @ \ {k}]
    /\ UNCHANGED <<offered, settled, link, open>>

Next ==
    \/ Offer \/ Open \/ Close \/ Carry \/ GiveUp
    \/ \E l \in Links : Lose(l) \/ Arrive(l)

Spec == Init /\ [][Next]_vars
=============================================================================
