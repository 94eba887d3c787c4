------------------------------- MODULE Gateway -------------------------------
(***************************************************************************)
(* From the client that posts an event to the channel that gets it: the    *)
(* request handlers in front of the delivery queue, the clients that post  *)
(* an event again until they are told what became of it, and the end of    *)
(* the process, which takes handlers and worker together.                  *)
(*                                                                         *)
(* The targets of an event are read from the snapshot before the           *)
(* transaction that stores it, and a client may have given up, and posted  *)
(* the same event_id again with a new nonce, while its first request is    *)
(* still under way.  Events here are such as the intake queues; what it    *)
(* suppresses is the matter of EventIntake, what admission refuses that of *)
(* Admission.                                                              *)
(***************************************************************************)
EXTENDS DeliveryQueue

CONSTANTS
    Handlers,  \* requests in progress at the same time
    NoEvent

ASSUME GatewayAssumption == NoEvent \notin Events

VARIABLES
    client,  \* what the client knows of each event
    request  \* what each handler is doing

gatewayVars == <<client, request>>
allVars     == <<vars, gatewayVars>>

Idle     == [at |-> "idle", event |-> NoEvent, targets |-> {}, heard |-> FALSE]
Requests == [at : {"idle", "resolved", "stored"}, event : Events \cup {NoEvent},
             targets : SUBSET Deliveries, heard : BOOLEAN]

GatewayInit ==
    /\ Init
    /\ client = [e \in Events |-> "new"]
    /\ request = [h \in Handlers |-> Idle]

-----------------------------------------------------------------------------
(* ResolveTargets, in the snapshot of this moment.                         *)
ResolveTargets(e) == {d \in Deliveries : EventOf[d] = e /\ ChannelOf[d] \in available}

\* Mutant: an event for nobody is taken in.
NeverUnroutable(e) == FALSE

(* 422 route_unavailable.                                                  *)
Unroutable(e) == ResolveTargets(e) = {}

(* The client posts the event, for the first time or, not knowing whether  *)
(* it arrived, again.  With no target, 422 is the end of it.               *)
Post(h, e) ==
    /\ request[h] = Idle
    /\ client[e] \in {"new", "unsure"}
    /\ IF Unroutable(e)
       THEN client' = [client EXCEPT ![e] = "refused"] /\ UNCHANGED request
       ELSE /\ client' = [client EXCEPT ![e] = "waiting"]
            /\ request' = [request EXCEPT ![h] =
                   [at |-> "resolved", event |-> e, targets |-> ResolveTargets(e), heard |-> TRUE]]
    /\ UNCHANGED vars

(* The client's side of an answer, should it still be listening.           *)
Tell(h, verdict) ==
    client' = [client EXCEPT ![request[h].event] = IF request[h].heard THEN verdict ELSE @]

\* Mutant: the event_id is not looked up, and what is there replaced.
StoredAnew(e, targets, stale) ==
    /\ eventRow[e] # "pruned"
    /\ eventRow' = [eventRow EXCEPT ![e] = "stored"]
    /\ age' = [age EXCEPT ![e] = stale]
    /\ status' = [d \in Deliveries |-> IF d \in targets THEN "pending" ELSE status[d]]
    /\ wait' = [d \in Deliveries |-> IF d \in targets THEN -stale ELSE wait[d]]
    /\ UNCHANGED <<lease, attempts, available, workerVars, history>>

(* AcceptEvent: a known event_id changes nothing.  (Bound: no retry comes  *)
(* after the cleanup has taken the event, which is 30 days.)               *)
Store(e, targets, stale) ==
    IF eventRow[e] = "unseen" THEN Accept(e, targets, stale)
    ELSE eventRow[e] = "stored" /\ UNCHANGED vars

Persist(h) ==
    /\ request[h].at = "resolved"
    /\ \E stale \in 0..MaxStale : Store(request[h].event, request[h].targets, stale)
    /\ request' = [request EXCEPT ![h].at = "stored"]
    /\ UNCHANGED client

\* Mutant: the client is told 202 although nothing was stored.
AnswerAnyway(h) == Tell(h, "accepted")

\* 503, or 429: the client is to try again.
AnswerUnavailable(h) == Tell(h, "unsure")

(* RecordRequest or AcceptEvent fails; the nonce may be spent.             *)
FailRequest(h) ==
    /\ request[h].at = "resolved"
    /\ AnswerUnavailable(h)
    /\ request' = [request EXCEPT ![h] = Idle]
    /\ UNCHANGED vars

(* 202 Accepted reaches the client.                                        *)
Respond(h) ==
    /\ request[h].at = "stored"
    /\ Tell(h, "accepted")
    /\ request' = [request EXCEPT ![h] = Idle]
    /\ UNCHANGED vars

Deaf(e) == [h \in Handlers |->
              IF request[h].event = e THEN [request[h] EXCEPT !.heard = FALSE] ELSE request[h]]

(* The client's timeout, or a lost answer; the handler does not notice.    *)
GiveUp(e) ==
    /\ client[e] = "waiting"
    /\ client' = [client EXCEPT ![e] = "unsure"]
    /\ request' = Deaf(e)
    /\ UNCHANGED vars

(* The process ends and starts again: whoever waited for an answer gets    *)
(* none, and the worker loses what it held.                                *)
Crash ==
    /\ IF pc = "idle" THEN UNCHANGED vars ELSE Abandon
    /\ client' = [e \in Events |-> IF client[e] = "waiting" THEN "unsure" ELSE client[e]]
    /\ request' = [h \in Handlers |-> Idle]

Handle(h) == Persist(h) \/ Respond(h)

(* The steps of the queue that no handler takes.                           *)
QueueStep ==
    \/ Worker
    \/ Abandon
    \/ \E stale \in 0..MaxStale : Prune(stale)
    \/ \E d \in Deliveries : RetryDead(d)
    \/ \E c \in Channels : RemoveChannel(c) \/ AddChannel(c)
    \/ Tick

GatewayNext ==
    \/ \E h \in Handlers : Handle(h) \/ FailRequest(h) \/ \E e \in Events : Post(h, e)
    \/ \E e \in Events : GiveUp(e)
    \/ Crash
    \/ QueueStep /\ UNCHANGED gatewayVars

GatewaySpec == GatewayInit /\ [][GatewayNext]_allVars

StoreEvent(e) == \E h \in Handlers : request[h].event = e /\ Persist(h)
RetryPost(e)  == client[e] = "unsure" /\ \E h \in Handlers : Post(h, e)
Finish        == \E h \in Handlers : Respond(h)

(* The worker and the clock go on as in FairSpec.  Handlers answer, and    *)
(* clients keep retrying (docs/api.md asks them to); the database does not *)
(* fail every attempt at storing an event.                                 *)
FairGatewaySpec ==
    /\ GatewaySpec
    /\ WF_allVars(Worker /\ UNCHANGED gatewayVars)
    /\ WF_allVars(Tick /\ UNCHANGED gatewayVars)
    /\ WF_allVars(Finish)
    /\ \A e \in Events : SF_allVars(RetryPost(e)) /\ SF_allVars(StoreEvent(e))

-----------------------------------------------------------------------------
GatewayTypeOK ==
    /\ TypeOK
    /\ client \in [Events -> {"new", "waiting", "unsure", "accepted", "refused"}]
    /\ request \in [Handlers -> Requests]
    /\ \A h \in Handlers : request[h].at # "idle" => request[h].targets # {}

(* Whatever handlers do in front of it, the queue behaves as DeliveryQueue *)
(* says, so that what is proved of it holds of the gateway.                *)
ImplementsQueue == Spec

(* 202 means that the event and its deliveries are stored (docs/api.md):   *)
(* whatever requests for it, crashes and new snapshots came in between,    *)
(* an event its client was told is accepted has a delivery that is owed,   *)
(* or was until it ended.                                                  *)
AcknowledgedIsOwed ==
    \A e \in Events : client[e] = "accepted" =>
        \E d \in Deliveries : EventOf[d] = e /\ status[d] # "none"

(* A post comes to an end, for the receivers and not only for the client:  *)
(* whoever starts to post, and keeps trying, is refused, or each delivery  *)
(* of the event is sent or dead in the end, though handlers die between    *)
(* the steps and channels are removed after they were chosen.              *)
PostsAreSettled ==
    \A e \in Events :
        client[e] = "waiting" ~>
            \/ client[e] = "refused"
            \/ eventRow[e] # "unseen" /\ \A d \in Deliveries : EventOf[d] = e => status[d] \notin Unfinished
=============================================================================
