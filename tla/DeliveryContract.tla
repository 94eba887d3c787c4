-------------------------- MODULE DeliveryContract ---------------------------
(***************************************************************************)
(* What the notification queue promises, with no clock, lease, worker or   *)
(* attempt counter: a notification that is owed stays owed until the       *)
(* receiver took it and that was booked, or until it is given up as dead;  *)
(* a delivered one is never sent again; a dead one comes back only at an   *)
(* administrator's request; only finished ones are forgotten.              *)
(***************************************************************************)
EXTENDS Naturals

CONSTANT Deliveries

VARIABLES
    phase,     \* how far each delivery is
    accepted   \* how often the receiver took it

vars == <<phase, accepted>>

Phases == {"absent", "owed", "delivered", "dead", "forgotten"}

Init == /\ phase = [d \in Deliveries |-> "absent"]
        /\ accepted = [d \in Deliveries |-> 0]

Move(D, from, to) ==
    /\ D # {}
    /\ \A d \in D : phase[d] \in from
    /\ phase' = [d \in Deliveries |-> IF d \in D THEN to ELSE phase[d]]
    /\ UNCHANGED accepted

Enqueue(D) == Move(D, {"absent"}, "owed")

Receive(d) == /\ phase[d] = "owed"
              /\ accepted' = [accepted EXCEPT ![d] = @ + 1]
              /\ UNCHANGED phase

Confirm(d) == accepted[d] > 0 /\ Move({d}, {"owed"}, "delivered")

Bury(d) == Move({d}, {"owed"}, "dead")

Rescue(d) == Move({d}, {"dead"}, "owed")

Forget(D) == Move(D, {"delivered", "dead"}, "forgotten")

Next == \/ \E D \in SUBSET Deliveries : Enqueue(D) \/ Forget(D)
        \/ \E d \in Deliveries : Receive(d) \/ Confirm(d) \/ Bury(d) \/ Rescue(d)

Spec == Init /\ [][Next]_vars

(* Nothing is owed for ever.                                               *)
FairSpec == Spec /\ \A d \in Deliveries : WF_vars(Confirm(d) \/ Bury(d))
=============================================================================
