---------------------------- MODULE ActorMailbox ----------------------------
(***************************************************************************)
(* What a Player promises those who post to it: its messages are handled   *)
(* one at a time, in the order in which they were posted, each at most     *)
(* once; one is refused only by a destroyed player; and a player is        *)
(* destroyed for good, out of Offline.                                     *)
(***************************************************************************)
EXTENDS Naturals

CONSTANTS
    Actors,     \* players
    NoActor,    \* the target of a message not posted yet
    MaxCalls    \* bound on the messages

VARIABLES
    life,       \* of each player
    target,     \* of each message
    stage       \* how far each message has come

vars == <<life, target, stage>>

Calls == 1 .. MaxCalls

Init ==
    /\ life = [o \in Actors |-> "none"]
    /\ target = [k \in Calls |-> NoActor]
    /\ stage = [k \in Calls |-> "new"]

\* The moves of a player.
Lives == {<<"none", "Active">>, <<"Active", "Offline">>, <<"Offline", "Active">>,
          <<"Offline", "Destroyed">>}

Move(o) ==
    /\ \E l \in Lives : life[o] = l[1] /\ life' = [life EXCEPT ![o] = l[2]]
    /\ UNCHANGED <<target, stage>>

\* A player that is not Active any more may still get a message.
Post(k, o) ==
    /\ stage[k] = "new"
    /\ \A j \in 1 .. (k - 1) : stage[j] # "new"
    /\ life[o] # "none"
    /\ target' = [target EXCEPT ![k] = o]
    /\ stage' = [stage EXCEPT ![k] = "posted"]
    /\ UNCHANGED life

SameTarget(k) == {j \in Calls : target[j] = target[k]}

\* k is the oldest message its player has not begun.
Oldest(k) == stage[k] = "posted" /\ \A j \in SameTarget(k) : j < k => stage[j] # "posted"

Take(k) ==
    /\ Oldest(k)
    /\ \A j \in SameTarget(k) : stage[j] # "handling"
    /\ stage' = [stage EXCEPT ![k] = "handling"]
    /\ UNCHANGED <<life, target>>

\* The message itself may bring the player back.
Handle(k) ==
    /\ stage[k] = "handling"
    /\ stage' = [stage EXCEPT ![k] = "handled"]
    /\ \/ UNCHANGED life
       \/ life[target[k]] = "Offline" /\ life' = [life EXCEPT ![target[k]] = "Active"]
    /\ UNCHANGED target

Refuse(k) ==
    /\ Oldest(k)
    /\ life[target[k]] = "Destroyed"
    /\ stage' = [stage EXCEPT ![k] = "refused"]
    /\ UNCHANGED <<life, target>>

Next ==
    \/ \E o \in Actors : Move(o)
    \/ \E k \in Calls, o \in Actors : Post(k, o)
    \/ \E k \in Calls : Take(k) \/ Handle(k) \/ Refuse(k)

Spec == Init /\ [][Next]_vars
=============================================================================
