---------------------------- MODULE GatewayProofs ----------------------------
(***************************************************************************)
(* Theorems about Gateway for any number of handlers, events, channels and *)
(* deliveries: the queue behind the handlers is the one DeliveryQueue      *)
(* describes, so that its theorems hold here, and an event its client was  *)
(* told is accepted is owed to somebody.                                   *)
(***************************************************************************)
EXTENDS Gateway, DeliveryQueueProofs

-----------------------------------------------------------------------------
(* A request under way carries an event and targets of that event.         *)
RequestInv ==
    /\ client \in [Events -> {"new", "waiting", "unsure", "accepted", "refused"}]
    /\ request \in [Handlers -> Requests]
    /\ \A h \in Handlers : request[h].at # "idle" =>
          /\ request[h].event \in Events
          /\ request[h].targets # {}
          /\ \A d \in request[h].targets : EventOf[d] = request[h].event

(* No request is under way at the start.                                   *)
LEMMA RequestInit == GatewayInit => RequestInv
  BY DEF GatewayInit, RequestInv, Idle, Requests

(* Every step keeps the requests well formed: what Post resolves is not    *)
(* empty, and nothing changes the event or the targets afterwards.         *)
LEMMA RequestStep == RequestInv /\ [GatewayNext]_allVars => RequestInv'
<1> SUFFICES ASSUME RequestInv, [GatewayNext]_allVars PROVE RequestInv'
  OBVIOUS
<1> USE DEF RequestInv, Requests
<1>0. Idle \in Requests /\ Idle.at = "idle"
  BY DEF Idle
<1>1. ASSUME NEW h \in Handlers, NEW e \in Events, Post(h, e) PROVE RequestInv'
  <2>1. CASE Unroutable(e)
    BY <1>1, <2>1 DEF Post
  <2>2. CASE ~Unroutable(e)
    <3> DEFINE new == [at |-> "resolved", event |-> e, targets |-> ResolveTargets(e), heard |-> TRUE]
    <3>1. new \in Requests /\ ResolveTargets(e) # {}
          /\ \A d \in ResolveTargets(e) : EventOf[d] = e
      BY <2>2 DEF Unroutable, ResolveTargets
    <3>2. /\ client' = [client EXCEPT ![e] = "waiting"]
          /\ request' = [request EXCEPT ![h] = new]
      BY <1>1, <2>2 DEF Post
    <3>3. ASSUME NEW g \in Handlers
          PROVE  request'[g] = (IF g = h THEN new ELSE request[g])
      BY <3>2
    <3> HIDE DEF new
    <3>4. request' \in [Handlers -> Requests]
      BY <3>1, <3>2
    <3>5. new.event = e /\ new.targets = ResolveTargets(e)
      BY DEF new
    <3> QED
      BY <3>1, <3>2, <3>3, <3>4, <3>5
  <2> QED
    BY <2>1, <2>2
<1>2. ASSUME NEW h \in Handlers, Persist(h) PROVE RequestInv'
  BY <1>2 DEF Persist
<1>3. ASSUME NEW h \in Handlers, FailRequest(h) PROVE RequestInv'
  BY <1>0, <1>3 DEF FailRequest, AnswerUnavailable, Tell
<1>4. ASSUME NEW h \in Handlers, Respond(h) PROVE RequestInv'
  BY <1>0, <1>4 DEF Respond, Tell
<1>5. ASSUME NEW e \in Events, GiveUp(e) PROVE RequestInv'
  <2>1. client' \in [Events -> {"new", "waiting", "unsure", "accepted", "refused"}]
    BY <1>5 DEF GiveUp
  <2>2. ASSUME NEW h \in Handlers
        PROVE  /\ request'[h] \in Requests
               /\ request'[h].at = request[h].at /\ request'[h].event = request[h].event
               /\ request'[h].targets = request[h].targets
    BY <1>5 DEF GiveUp, Deaf
  <2>3. request' \in [Handlers -> Requests]
    BY <1>5, <2>2 DEF GiveUp, Deaf
  <2> QED
    BY <2>1, <2>2, <2>3
<1>6. CASE Crash
  BY <1>0, <1>6 DEF Crash
<1>7. CASE UNCHANGED gatewayVars
  BY <1>7 DEF gatewayVars
<1> QED
  BY <1>1, <1>2, <1>3, <1>4, <1>5, <1>6, <1>7 DEF GatewayNext, Handle, allVars

-----------------------------------------------------------------------------
(* A step of the gateway is a step of the queue, or none: what a handler   *)
(* stores are targets the queue accepts, and a crash is a worker that      *)
(* loses what it holds.                                                    *)
LEMMA GatewayQueueStep == RequestInv /\ [GatewayNext]_allVars => [Next]_vars
<1> SUFFICES ASSUME RequestInv, [GatewayNext]_allVars PROVE Next \/ UNCHANGED vars
  OBVIOUS
<1>1. ASSUME NEW h \in Handlers, Persist(h) PROVE Next \/ UNCHANGED vars
  <2> DEFINE e == request[h].event
             targets == request[h].targets
  <2>1. e \in Events /\ targets \in SUBSET Deliveries
    BY <1>1 DEF Persist, RequestInv, Requests
  <2>2. PICK stale \in 0..MaxStale : Store(e, targets, stale)
    BY <1>1 DEF Persist
  <2>3. Accept(e, targets, stale) \/ UNCHANGED vars
    BY <2>2 DEF Store
  <2> HIDE DEF e, targets
  <2> QED
    BY <2>1, <2>3 DEF Next
<1>2. ASSUME NEW h \in Handlers, NEW e \in Events, Post(h, e) PROVE UNCHANGED vars
  BY <1>2 DEF Post
<1>3. ASSUME NEW h \in Handlers, FailRequest(h) \/ Respond(h) PROVE UNCHANGED vars
  BY <1>3 DEF FailRequest, Respond
<1>4. ASSUME NEW e \in Events, GiveUp(e) PROVE UNCHANGED vars
  BY <1>4 DEF GiveUp
<1>5. CASE Crash
  BY <1>5 DEF Crash, Next
<1>6. CASE QueueStep
  BY <1>6 DEF QueueStep, Next
<1>7. CASE UNCHANGED allVars
  BY <1>7 DEF allVars
<1> QED
  BY <1>1, <1>2, <1>3, <1>4, <1>5, <1>6, <1>7 DEF GatewayNext, Handle

(* The gateway's queue is a DeliveryQueue, whatever the handlers and their *)
(* clients do.                                                             *)
THEOREM QueueRefinement == GatewaySpec => ImplementsQueue
<1>1. GatewayInit => Init
  BY DEF GatewayInit
<1> QED
  BY <1>1, RequestInit, RequestStep, GatewayQueueStep, PTL DEF GatewaySpec, Spec, ImplementsQueue

(* The types of clients, requests and of the queue.                        *)
THEOREM GatewayTypeCorrect == GatewaySpec => []GatewayTypeOK
<1>1. RequestInv /\ TypeOK => GatewayTypeOK
  BY DEF RequestInv, GatewayTypeOK
<1>2. GatewaySpec => []TypeOK
  BY QueueRefinement, TypeCorrect DEF ImplementsQueue
<1> QED
  BY <1>1, <1>2, RequestInit, RequestStep, PTL DEF GatewaySpec

-----------------------------------------------------------------------------
(* Whatever is owed, or was, of an event.                                  *)
HasRow(e) == \E d \in Deliveries : EventOf[d] = e /\ status[d] # "none"

(* An event that was stored has a row, and has been stored when its client *)
(* is told, or about to be told, that it is accepted.                      *)
StoredInv ==
    /\ \A e \in Events : eventRow[e] # "unseen" => HasRow(e)
    /\ \A h \in Handlers : request[h].at = "stored" => eventRow[request[h].event] # "unseen"
    /\ \A e \in Events : client[e] = "accepted" => eventRow[e] # "unseen"

(* Nothing is stored at the start, and nobody told.                        *)
LEMMA StoredInit == GatewayInit => StoredInv
  BY DEF GatewayInit, StoredInv, HasRow, Init, Idle

(* In the queue, a stored event stays stored or known as deleted, rows     *)
(* never go back to what they were before they were inserted, and an event *)
(* comes with a row.                                                       *)
LEMMA RowsStay ==
    ASSUME TypeInv, [Next]_vars
    PROVE  /\ \A d \in Deliveries : status[d] # "none" => status'[d] # "none"
           /\ \A e \in Events : eventRow[e] # "unseen" => eventRow'[e] # "unseen"
           /\ \A e \in Events : eventRow'[e] # "unseen" =>
                 \/ eventRow[e] # "unseen"
                 \/ \E d \in Deliveries : EventOf[d] = e /\ status'[d] # "none"
<1> DEFINE Goal == /\ \A d \in Deliveries : status[d] # "none" => status'[d] # "none"
                   /\ \A e \in Events : eventRow[e] # "unseen" => eventRow'[e] # "unseen"
                   /\ \A e \in Events : eventRow'[e] # "unseen" =>
                         \/ eventRow[e] # "unseen"
                         \/ \E d \in Deliveries : EventOf[d] = e /\ status'[d] # "none"
<1> USE DEF TypeInv, TypeOK, rowVars, workerVars, history
<1>1. ASSUME NEW e \in Events, NEW targets \in SUBSET Deliveries, NEW stale \in 0..MaxStale,
             Accept(e, targets, stale)
      PROVE  Goal
  <2>1. /\ eventRow' = [eventRow EXCEPT ![e] = "stored"]
        /\ status' = [d \in Deliveries |-> IF d \in targets THEN "pending" ELSE status[d]]
        /\ targets # {} /\ \A d \in targets : EventOf[d] = e
    BY <1>1 DEF Accept
  <2>2. PICK d \in targets : TRUE
    BY <2>1
  <2>3. d \in Deliveries /\ EventOf[d] = e /\ status'[d] = "pending"
    BY <2>1, <2>2
  <2> QED
    BY <2>1, <2>3
<1>2. ASSUME eventRow' = eventRow, \A d \in Deliveries : status[d] # "none" => status'[d] # "none"
      PROVE  Goal
  BY <1>2
<1>3. ASSUME NEW d \in Deliveries, NEW stale \in 0..MaxStale, Claim(d, stale) PROVE Goal
  BY <1>2, <1>3 DEF Claim
<1>4. CASE BuryUnavailable
  BY <1>2, <1>4 DEF BuryUnavailable, BookFailure, MissingSenderStatus
<1>5. CASE Resolve
  BY <1>2, <1>5 DEF Resolve
<1>6. ASSUME NEW outcome \in {"ok", "retryable", "permanent", "lost"}, Send(outcome) PROVE Goal
  BY <1>2, <1>6 DEF Send
<1>7. CASE BookSuccess
  BY <1>2, <1>7 DEF BookSuccess
<1>8. CASE RecordFailure
  <2>1. FailureStatus(reply, attempt) # "none"
    BY DEF FailureStatus
  <2> QED
    BY <1>2, <1>8, <2>1 DEF RecordFailure, BookFailure
<1>9. CASE Abandon
  BY <1>2, <1>9 DEF Abandon
<1>10. ASSUME NEW stale \in 0..MaxStale, Prune(stale) PROVE Goal
  BY <1>10 DEF Prune, Prunable
<1>11. ASSUME NEW d \in Deliveries, RetryDead(d) PROVE Goal
  BY <1>2, <1>11 DEF RetryDead
<1>12. ASSUME NEW c \in Channels, RemoveChannel(c) \/ AddChannel(c) PROVE Goal
  BY <1>2, <1>12 DEF RemoveChannel, AddChannel
<1>13. CASE Tick
  BY <1>2, <1>13 DEF Tick
<1>14. CASE UNCHANGED vars
  BY <1>2, <1>14 DEF vars
<1> QED
  BY <1>1, <1>3, <1>4, <1>5, <1>6, <1>7, <1>8, <1>9, <1>10, <1>11, <1>12, <1>13, <1>14
  DEF Next, Worker

(* The handler that says "stored" has seen to it, and only such a handler  *)
(* tells its client.                                                       *)
LEMMA StoredStep == TypeInv /\ RequestInv /\ StoredInv /\ [GatewayNext]_allVars => StoredInv'
<1> SUFFICES ASSUME TypeInv, RequestInv, StoredInv, [GatewayNext]_allVars PROVE StoredInv'
  OBVIOUS
<1>1. [Next]_vars
  BY GatewayQueueStep
<1>2. \A e \in Events : eventRow[e] # "unseen" => eventRow'[e] # "unseen"
  BY <1>1, RowsStay
<1>3. \A e \in Events : eventRow'[e] # "unseen" => HasRow(e)'
  BY <1>1, RowsStay DEF StoredInv, HasRow
<1>4. SUFFICES
        /\ \A h \in Handlers : request'[h].at = "stored" => eventRow'[request'[h].event] # "unseen"
        /\ \A e \in Events : client'[e] = "accepted" => eventRow'[e] # "unseen"
  BY <1>3 DEF StoredInv
<1> DEFINE Goal ==
        /\ \A h \in Handlers : request'[h].at = "stored" => eventRow'[request'[h].event] # "unseen"
        /\ \A e \in Events : client'[e] = "accepted" => eventRow'[e] # "unseen"
<1> USE DEF RequestInv, Requests, StoredInv
<1>5. ASSUME NEW h \in Handlers, NEW e \in Events, Post(h, e) PROVE Goal
  BY <1>2, <1>5 DEF Post
<1>6. ASSUME NEW h \in Handlers, Persist(h) PROVE Goal
  <2>1. PICK stale \in 0..MaxStale : Store(request[h].event, request[h].targets, stale)
    BY <1>6 DEF Persist
  <2>2. request[h].event \in Events
    BY <1>6 DEF Persist
  <2>3. eventRow'[request[h].event] # "unseen"
    BY <1>2, <2>1, <2>2 DEF Store, Accept, TypeInv, TypeOK
  <2> QED
    BY <1>2, <1>6, <2>2, <2>3 DEF Persist
<1>7. ASSUME NEW h \in Handlers, FailRequest(h) PROVE Goal
  BY <1>2, <1>7 DEF FailRequest, AnswerUnavailable, Tell, Idle
<1>8. ASSUME NEW h \in Handlers, Respond(h) PROVE Goal
  BY <1>2, <1>8 DEF Respond, Tell, Idle
<1>9. ASSUME NEW e \in Events, GiveUp(e) PROVE Goal
  BY <1>2, <1>9 DEF GiveUp, Deaf
<1>10. CASE Crash
  BY <1>2, <1>10 DEF Crash, Idle
<1>11. CASE UNCHANGED gatewayVars
  BY <1>2, <1>11 DEF gatewayVars
<1> QED
  BY <1>5, <1>6, <1>7, <1>8, <1>9, <1>10, <1>11 DEF GatewayNext, Handle, allVars

(* 202 means stored, and owed to somebody.                                 *)
THEOREM AcknowledgedCorrect == GatewaySpec => []AcknowledgedIsOwed
<1>1. StoredInv => AcknowledgedIsOwed
  BY DEF StoredInv, HasRow, AcknowledgedIsOwed
<1>2. GatewaySpec => [](TypeInv /\ HoldInv)
  BY QueueRefinement, Inductive DEF ImplementsQueue
<1> QED
  BY <1>1, <1>2, RequestInit, RequestStep, StoredInit, StoredStep, PTL DEF GatewaySpec
=============================================================================
