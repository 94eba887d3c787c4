------------------------- MODULE DeliveryQueueProofs -------------------------
(***************************************************************************)
(* Theorems about DeliveryQueue for any number of deliveries, events and   *)
(* channels and any lease, backoff table, attempt limit and retention.     *)
(*                                                                         *)
(* The argument comes in layers, each an inductive invariant relative to   *)
(* the ones before: types; the worker's hold on its row; how often the     *)
(* receiver was reached; how many attempts a row made.  The refinement of  *)
(* DeliveryContract uses the first three.                                  *)
(***************************************************************************)
EXTENDS DeliveryQueue, TLAPS

-----------------------------------------------------------------------------
(* Types.  The worker's registers are meaningful while it is not idle; the *)
(* attempt number indexes the backoff table.                               *)
TypeInv == /\ TypeOK
           /\ pc # "idle" => held \in Deliveries /\ attempt >= 1

(* What the assumption says of the bounds and of the backoff table.        *)
LEMMA Bounds ==
    /\ MaxStale \in Nat /\ MaxLag \in Nat /\ MaxLate \in Nat /\ MaxWait \in Nat
    /\ MaxFaults \in Nat /\ MaxRescues \in Nat /\ MaxAttempts \in Nat /\ MaxAttempts >= 1
    /\ Lease \in Nat /\ Lease >= 1 /\ Retention \in Nat
    /\ MaxStale <= MaxLag /\ MaxLag <= MaxLate
  BY QueueAssumption

(* The backoff table has an entry.                                         *)
LEMMA Table == Delays \in Nat /\ Delays >= 1 /\ RetryDelays \in [1..Delays -> 0..MaxWait]
  BY QueueAssumption

(* Every delivery has its event and its channel; the worker's hands can be *)
(* empty.                                                                  *)
LEMMA Owners == /\ EventOf \in [Deliveries -> Events] /\ ChannelOf \in [Deliveries -> Channels]
                /\ NoDelivery \notin Deliveries
  BY QueueAssumption

(* Cutting a lateness off at the bound keeps it within the bounds.         *)
LEMMA FloorBound ==
    ASSUME NEW n \in Int, NEW hi \in Int, n <= hi, -MaxLate <= hi
    PROVE  Floor(n) \in -MaxLate..hi
  BY Bounds DEF Floor

(* A backoff is an entry of the table, whatever the attempt.               *)
LEMMA DelayBound == ASSUME NEW n \in Nat, n >= 1 PROVE RetryDelay(n) \in 0..MaxWait
<1>1. (IF n > Delays THEN Delays ELSE n) \in 1..Delays
  BY Table
<1> QED
  BY <1>1, Table DEF RetryDelay

(* The empty tables and the idle worker are well typed.                    *)
LEMMA TypeInit == Init => TypeInv
  BY Bounds, Owners DEF Init, TypeInv, TypeOK, AgeCap, Unfinished, Open, Replies

(* Every step keeps the types: waits stay within the backoff table, leases *)
(* within the lease, and lateness within its bound.                        *)
LEMMA TypeStep == TypeInv /\ [Next]_vars => TypeInv'
<1> SUFFICES ASSUME TypeInv, [Next]_vars PROVE TypeInv'
  OBVIOUS
<1> USE Bounds DEF TypeInv, TypeOK, Unfinished, Open, Replies, rowVars, workerVars, history
<1>1. ASSUME NEW e \in Events, NEW targets \in SUBSET Deliveries, NEW stale \in 0..MaxStale,
             Accept(e, targets, stale)
      PROVE  TypeInv'
  BY <1>1 DEF Accept, AgeCap
<1>2. ASSUME NEW d \in Deliveries, NEW stale \in 0..MaxStale, Claim(d, stale)
      PROVE  TypeInv'
  BY <1>2 DEF Claim
<1>3. CASE BuryUnavailable
  BY <1>3 DEF BuryUnavailable, BookFailure, BackToLoop, MissingSenderStatus
<1>4. CASE Resolve
  BY <1>4 DEF Resolve
<1>5. ASSUME NEW outcome \in {"ok", "retryable", "permanent", "lost"}, Send(outcome)
      PROVE  TypeInv'
  BY <1>5 DEF Send
<1>6. CASE BookSuccess
  BY <1>6 DEF BookSuccess, BackToLoop
<1>7. CASE RecordFailure
  <2>1. RetryDelay(attempt) - lag \in -MaxLate..MaxWait
    BY <1>7, DelayBound DEF RecordFailure
  <2>2. FailureStatus(reply, attempt) \in {"dead", "retrying"}
    BY DEF FailureStatus
  <2> QED
    BY <1>7, <2>1, <2>2 DEF RecordFailure, BookFailure, BackToLoop
<1>8. CASE Abandon
  BY <1>8 DEF Abandon, BackToLoop
<1>9. ASSUME NEW stale \in 0..MaxStale, Prune(stale) PROVE TypeInv'
  BY <1>9 DEF Prune, AgeCap
<1>10. ASSUME NEW d \in Deliveries, RetryDead(d) PROVE TypeInv'
  BY <1>10 DEF RetryDead
<1>11. ASSUME NEW c \in Channels, RemoveChannel(c) \/ AddChannel(c) PROVE TypeInv'
  BY <1>11 DEF RemoveChannel, AddChannel
<1>12. CASE Tick
  <2>1. wait' \in [Deliveries -> -MaxLate..MaxWait]
    BY <1>12, FloorBound DEF Tick
  <2>2. lease' \in [Deliveries -> -MaxLate..Lease]
    BY <1>12, FloorBound DEF Tick
  <2>3. age' \in [Events -> 0..AgeCap]
    BY <1>12 DEF Tick, AgeCap
  <2>4. lag' \in 0..MaxLag
    BY <1>12 DEF Tick
  <2> QED
    BY <1>12, <2>1, <2>2, <2>3, <2>4 DEF Tick
<1>13. CASE UNCHANGED vars
  BY <1>13 DEF vars
<1> QED
  BY <1>1, <1>2, <1>3, <1>4, <1>5, <1>6, <1>7, <1>8, <1>9, <1>10, <1>11, <1>12, <1>13
  DEF Next, Worker

(* Every variable keeps its type; in particular no backoff, lease or       *)
(* lateness leaves its range.                                              *)
THEOREM TypeCorrect == Spec => []TypeOK
<1>1. Spec => []TypeInv
  BY TypeInit, TypeStep, PTL DEF Spec
<1>2. TypeInv => TypeOK
  BY DEF TypeInv
<1> QED
  BY <1>1, <1>2, PTL

-----------------------------------------------------------------------------
(* The worker's hold.  It rests on two guards written far apart: a claim   *)
(* happens only when nothing is held, and neither a rescue nor the cleanup *)
(* touches an unfinished row.  A dead row is rescued into the queue, so    *)
(* that every row, not only an unfinished one, must have its event.        *)
RowsHaveEvents == \A d \in Deliveries :
    /\ status[d] \notin {"none", "gone"} => eventRow[EventOf[d]] = "stored"
    /\ status[d] = "gone" => eventRow[EventOf[d]] = "pruned"

HoldInv == HeldRowIsOurs /\ RowsHaveEvents

(* An idle worker holds nothing.                                           *)
LEMMA HoldInit == Init => HoldInv
  BY DEF Init, HoldInv, HeldRowIsOurs, RowsHaveEvents

(* No step takes the row from under the worker: only the worker touches a  *)
(* processing row, and the cleanup spares its event.                       *)
LEMMA HoldStep == TypeInv /\ HoldInv /\ [Next]_vars => HoldInv'
<1> SUFFICES ASSUME TypeInv, HoldInv, [Next]_vars PROVE HoldInv'
  OBVIOUS
<1> USE DEF TypeInv, TypeOK, HoldInv, HeldRowIsOurs, RowsHaveEvents, Unfinished, Open,
            rowVars, workerVars, history
<1>1. ASSUME NEW e \in Events, NEW targets \in SUBSET Deliveries, NEW stale \in 0..MaxStale,
             Accept(e, targets, stale)
      PROVE  HoldInv'
  <2>1. \A d \in targets : EventOf[d] = e
    BY <1>1 DEF Accept
  <2>2. pc # "idle" => held \notin targets
    BY <1>1, <2>1 DEF Accept
  <2> QED
    BY <1>1, <2>1, <2>2, Owners DEF Accept
<1>2. ASSUME NEW d \in Deliveries, NEW stale \in 0..MaxStale, Claim(d, stale)
      PROVE  HoldInv'
  BY <1>2 DEF Claim, Claimable
<1>3. CASE BuryUnavailable
  BY <1>3 DEF BuryUnavailable, BookFailure, BackToLoop, MissingSenderStatus
<1>4. CASE Resolve
  BY <1>4 DEF Resolve
<1>5. ASSUME NEW outcome \in {"ok", "retryable", "permanent", "lost"}, Send(outcome)
      PROVE  HoldInv'
  BY <1>5 DEF Send
<1>6. CASE BookSuccess
  BY <1>6 DEF BookSuccess, BackToLoop
<1>7. CASE RecordFailure
  <2>1. FailureStatus(reply, attempt) \in {"dead", "retrying"}
    BY DEF FailureStatus
  <2> QED
    BY <1>7, <2>1 DEF RecordFailure, BookFailure, BackToLoop
<1>8. CASE Abandon
  BY <1>8 DEF Abandon, BackToLoop
<1>9. ASSUME NEW stale \in 0..MaxStale, Prune(stale) PROVE HoldInv'
  <2> DEFINE doomed == {e \in Events : Prunable(e, stale)}
  <2>1. pc' = "idle"
    BY <1>9 DEF Prune
  <2>2. ASSUME NEW d \in Deliveries, EventOf[d] \in doomed
        PROVE  status'[d] \in {"none", "gone"} /\ eventRow'[EventOf[d]] = "pruned"
    BY <1>9, <2>2, Owners DEF Prune
  <2>3. ASSUME NEW d \in Deliveries, EventOf[d] \notin doomed
        PROVE  status'[d] = status[d] /\ eventRow'[EventOf[d]] = eventRow[EventOf[d]]
    BY <1>9, <2>3, Owners DEF Prune
  <2> QED
    BY <2>1, <2>2, <2>3
<1>10. ASSUME NEW d \in Deliveries, RetryDead(d) PROVE HoldInv'
  <2>1. status[d] = "dead" /\ eventRow[EventOf[d]] = "stored"
    BY <1>10 DEF RetryDead, Rescuable
  <2> QED
    BY <1>10, <2>1 DEF RetryDead
<1>11. ASSUME NEW c \in Channels, RemoveChannel(c) \/ AddChannel(c) PROVE HoldInv'
  BY <1>11 DEF RemoveChannel, AddChannel
<1>12. CASE Tick
  BY <1>12 DEF Tick
<1>13. CASE UNCHANGED vars
  BY <1>13 DEF vars
<1> QED
  BY <1>1, <1>2, <1>3, <1>4, <1>5, <1>6, <1>7, <1>8, <1>9, <1>10, <1>11, <1>12, <1>13
  DEF Next, Worker

(* Types and hold together are an invariant of the queue.                  *)
THEOREM Inductive == Spec => [](TypeInv /\ HoldInv)
  BY TypeInit, TypeStep, HoldInit, HoldStep, PTL DEF Spec

(* The worker's UPDATEs always find the row it claimed, as it left it.     *)
THEOREM HoldCorrect == Spec => []HeldRowIsOurs
<1>1. HoldInv => HeldRowIsOurs
  BY DEF HoldInv
<1> QED
  BY <1>1, Inductive, PTL

-----------------------------------------------------------------------------
(* How often the receiver was reached.  An acceptance is accounted for by  *)
(* the row being sent (or deleted after that), by the worker being about   *)
(* to book it, or by a fault that lost it.                                 *)
AboutToBook(d) == pc = "report" /\ reply = "ok" /\ held = d

ReachInv == \A d \in Deliveries :
    /\ accepted[d] <= 1 + faults[d]
    /\ status[d] \notin {"sent", "gone"} /\ ~AboutToBook(d) => accepted[d] <= faults[d]
    /\ status[d] = "sent" \/ AboutToBook(d) => accepted[d] >= 1

(* Nothing was received before anything was sent.                          *)
LEMMA ReachInit == Init => ReachInv
  BY DEF Init, ReachInv, AboutToBook

(* A step that lets the receiver see a row again has a fault to show.      *)
LEMMA ReachStep == TypeInv /\ HoldInv /\ ReachInv /\ [Next]_vars => ReachInv'
<1> SUFFICES ASSUME TypeInv, HoldInv, ReachInv, [Next]_vars PROVE ReachInv'
  OBVIOUS
<1> USE DEF TypeInv, TypeOK, HoldInv, HeldRowIsOurs, ReachInv, AboutToBook, Unfinished, Open,
            Replies, rowVars, workerVars, history
<1>1. ASSUME NEW e \in Events, NEW targets \in SUBSET Deliveries, NEW stale \in 0..MaxStale,
             Accept(e, targets, stale)
      PROVE  ReachInv'
  <2>1. \A d \in targets : status[d] = "none"
    BY <1>1 DEF Accept, RowsHaveEvents
  <2> QED
    BY <1>1, <2>1 DEF Accept
<1>2. ASSUME NEW d \in Deliveries, NEW stale \in 0..MaxStale, Claim(d, stale)
      PROVE  ReachInv'
  BY <1>2 DEF Claim, Claimable
<1>3. CASE BuryUnavailable
  BY <1>3 DEF BuryUnavailable, BookFailure, BackToLoop, MissingSenderStatus
<1>4. CASE Resolve
  BY <1>4 DEF Resolve
<1>5. ASSUME NEW outcome \in {"ok", "retryable", "permanent", "lost"}, Send(outcome)
      PROVE  ReachInv'
  BY <1>5 DEF Send
<1>6. CASE BookSuccess
  BY <1>6 DEF BookSuccess, BackToLoop
<1>7. CASE RecordFailure
  BY <1>7 DEF RecordFailure, BookFailure, BackToLoop, FailureStatus
<1>8. CASE Abandon
  BY <1>8 DEF Abandon, BackToLoop
<1>9. ASSUME NEW stale \in 0..MaxStale, Prune(stale) PROVE ReachInv'
  BY <1>9 DEF Prune, Prunable
<1>10. ASSUME NEW d \in Deliveries, RetryDead(d) PROVE ReachInv'
  BY <1>10 DEF RetryDead, Rescuable
<1>11. ASSUME NEW c \in Channels, RemoveChannel(c) \/ AddChannel(c) PROVE ReachInv'
  BY <1>11 DEF RemoveChannel, AddChannel
<1>12. CASE Tick
  BY <1>12 DEF Tick
<1>13. CASE UNCHANGED vars
  BY <1>13 DEF vars
<1> QED
  BY <1>1, <1>2, <1>3, <1>4, <1>5, <1>6, <1>7, <1>8, <1>9, <1>10, <1>11, <1>12, <1>13
  DEF Next, Worker

(* What the receiver saw is accounted for in every reachable state.        *)
THEOREM Reached == Spec => []ReachInv
  BY Inductive, ReachInit, ReachStep, PTL DEF Spec

(* A row that says sent was taken by the receiver.                         *)
THEOREM SentCorrect == Spec => []SentWasAccepted
<1>1. ReachInv => SentWasAccepted
  BY DEF ReachInv, SentWasAccepted
<1> QED
  BY <1>1, Reached, PTL

(* Every duplicate the receiver sees is paid for by a fault.               *)
THEOREM DuplicatesCorrect == Spec => []DuplicatesNeedAFault
<1>1. ReachInv => DuplicatesNeedAFault
  BY DEF ReachInv, DuplicatesNeedAFault
<1> QED
  BY <1>1, Reached, PTL

-----------------------------------------------------------------------------
(* Attempts.  A row that is waiting, or whose worker was lost, is still    *)
(* one below the bound it may reach: the claim that follows is the one     *)
(* more.  The limit is looked at only after a failed send, so a claim that *)
(* is abandoned pays for itself with the fault.                            *)
InHand(d) == pc # "idle" /\ held = d

AttemptInv == \A d \in Deliveries :
    /\ attempts[d] <= MaxAttempts + faults[d]
    /\ status[d] \notin {"sent", "dead"} /\ ~InHand(d) => attempts[d] < MaxAttempts + faults[d]

(* No row has made an attempt before it was queued.                        *)
LEMMA AttemptInit == Init => AttemptInv
  BY Bounds DEF Init, AttemptInv, InHand

(* A step that raises a row's attempts above the limit has a fault to show. *)
LEMMA AttemptStep == TypeInv /\ HoldInv /\ AttemptInv /\ [Next]_vars => AttemptInv'
<1> SUFFICES ASSUME TypeInv, HoldInv, AttemptInv, [Next]_vars PROVE AttemptInv'
  OBVIOUS
<1> USE Bounds DEF TypeInv, TypeOK, HoldInv, HeldRowIsOurs, AttemptInv, InHand, Unfinished, Open,
            Replies, rowVars, workerVars, history
<1>1. ASSUME NEW e \in Events, NEW targets \in SUBSET Deliveries, NEW stale \in 0..MaxStale,
             Accept(e, targets, stale)
      PROVE  AttemptInv'
  <2>1. \A d \in targets : status[d] = "none"
    BY <1>1 DEF Accept, RowsHaveEvents
  <2> QED
    BY <1>1, <2>1 DEF Accept
<1>2. ASSUME NEW d \in Deliveries, NEW stale \in 0..MaxStale, Claim(d, stale)
      PROVE  AttemptInv'
  BY <1>2 DEF Claim, Claimable
<1>3. CASE BuryUnavailable
  BY <1>3 DEF BuryUnavailable, BookFailure, BackToLoop, MissingSenderStatus
<1>4. CASE Resolve
  BY <1>4 DEF Resolve
<1>5. ASSUME NEW outcome \in {"ok", "retryable", "permanent", "lost"}, Send(outcome)
      PROVE  AttemptInv'
  BY <1>5 DEF Send
<1>6. CASE BookSuccess
  BY <1>6 DEF BookSuccess, BackToLoop
<1>7. CASE RecordFailure
  <2>1. FailureStatus(reply, attempt) = "retrying" => attempt < MaxAttempts
    BY DEF FailureStatus
  <2>2. FailureStatus(reply, attempt) \in {"dead", "retrying"}
    BY DEF FailureStatus
  <2> QED
    BY <1>7, <2>1, <2>2 DEF RecordFailure, BookFailure, BackToLoop
<1>8. CASE Abandon
  BY <1>8 DEF Abandon, BackToLoop
<1>9. ASSUME NEW stale \in 0..MaxStale, Prune(stale) PROVE AttemptInv'
  BY <1>9 DEF Prune, Prunable
<1>10. ASSUME NEW d \in Deliveries, RetryDead(d) PROVE AttemptInv'
  BY <1>10 DEF RetryDead, Rescuable
<1>11. ASSUME NEW c \in Channels, RemoveChannel(c) \/ AddChannel(c) PROVE AttemptInv'
  BY <1>11 DEF RemoveChannel, AddChannel
<1>12. CASE Tick
  BY <1>12 DEF Tick
<1>13. CASE UNCHANGED vars
  BY <1>13 DEF vars
<1> QED
  BY <1>1, <1>2, <1>3, <1>4, <1>5, <1>6, <1>7, <1>8, <1>9, <1>10, <1>11, <1>12, <1>13
  DEF Next, Worker

(* No row makes more attempts than the limit and the claims it lost.       *)
THEOREM AttemptsCorrect == Spec => []AttemptsBounded
<1>1. AttemptInv => AttemptsBounded
  BY DEF AttemptInv, AttemptsBounded
<1> QED
  BY <1>1, Inductive, AttemptInit, AttemptStep, PTL DEF Spec

-----------------------------------------------------------------------------
(* The refinement: an empty queue owes nothing.                            *)
LEMMA ContractInit == Init => Contract!Init
  BY DEF Init, Contract!Init, Phase, Unfinished, Open

(* Every step of the queue is a step of the contract or changes nothing in it. *)
LEMMA ContractStep ==
    TypeInv /\ HoldInv /\ ReachInv /\ [Next]_vars => [Contract!Next]_(Contract!vars)
<1> SUFFICES ASSUME TypeInv, HoldInv, ReachInv, [Next]_vars
             PROVE  Contract!Next \/ UNCHANGED Contract!vars
  OBVIOUS
<1> USE DEF TypeInv, TypeOK, Unfinished, Open, Replies, rowVars, workerVars, history
<1> DEFINE phase == [d \in Deliveries |-> Phase(status[d])]
<1>0. ASSUME status' = status, accepted' = accepted PROVE UNCHANGED Contract!vars
  BY <1>0 DEF Contract!vars
<1>1. ASSUME NEW e \in Events, NEW targets \in SUBSET Deliveries, NEW stale \in 0..MaxStale,
             Accept(e, targets, stale)
      PROVE  Contract!Enqueue(targets)
  <2>1. \A d \in targets : status[d] = "none"
    BY <1>1 DEF Accept, HoldInv, RowsHaveEvents
  <2> QED
    BY <1>1, <2>1 DEF Accept, Contract!Enqueue, Contract!Move, Phase
<1>2. ASSUME NEW d \in Deliveries, NEW stale \in 0..MaxStale, Claim(d, stale)
      PROVE  UNCHANGED Contract!vars
  BY <1>2 DEF Claim, Claimable, Contract!vars, Phase
<1>3. ASSUME BuryUnavailable PROVE Contract!Bury(held)
  BY <1>3 DEF BuryUnavailable, BookFailure, MissingSenderStatus, HoldInv, HeldRowIsOurs,
              Contract!Bury, Contract!Move, Phase
<1>4. ASSUME Resolve PROVE UNCHANGED Contract!vars
  BY <1>4, <1>0 DEF Resolve
<1>5. ASSUME NEW outcome \in {"ok", "retryable", "permanent", "lost"}, Send(outcome)
      PROVE  Contract!Receive(held) \/ UNCHANGED Contract!vars
  BY <1>5, <1>0 DEF Send, HoldInv, HeldRowIsOurs, Contract!Receive, Phase
<1>6. ASSUME BookSuccess PROVE Contract!Confirm(held)
  BY <1>6 DEF BookSuccess, HoldInv, HeldRowIsOurs, ReachInv, AboutToBook,
              Contract!Confirm, Contract!Move, Phase
<1>7. ASSUME RecordFailure PROVE Contract!Bury(held) \/ UNCHANGED Contract!vars
  <2>1. CASE FailureStatus(reply, attempt) = "dead"
    BY <1>7, <2>1 DEF RecordFailure, BookFailure, HoldInv, HeldRowIsOurs,
                      Contract!Bury, Contract!Move, Phase
  <2>2. CASE FailureStatus(reply, attempt) = "retrying"
    BY <1>7, <2>2 DEF RecordFailure, BookFailure, HoldInv, HeldRowIsOurs, Contract!vars, Phase
  <2> QED
    BY <2>1, <2>2 DEF FailureStatus
<1>8. ASSUME Abandon PROVE UNCHANGED Contract!vars
  BY <1>8, <1>0 DEF Abandon
<1>9. ASSUME NEW stale \in 0..MaxStale, Prune(stale)
      PROVE  Contract!Next \/ UNCHANGED Contract!vars
  <2> DEFINE doomed == {e \in Events : Prunable(e, stale)}
             D == {d \in Deliveries : EventOf[d] \in doomed /\ status[d] # "none"}
  <2>1. \A d \in D : status[d] \in {"sent", "dead"}
    BY DEF Prunable, HoldInv, RowsHaveEvents
  <2>2. status' = [d \in Deliveries |-> IF d \in D THEN "gone" ELSE status[d]]
        /\ accepted' = accepted
    BY <1>9 DEF Prune
  <2>3. CASE D = {}
    BY <2>2, <2>3, <1>0
  <2>4. CASE D # {}
    <3>1. Contract!Forget(D)
      BY <2>1, <2>2, <2>4 DEF Contract!Forget, Contract!Move, Phase
    <3> QED
      BY <3>1 DEF Contract!Next
  <2> QED
    BY <2>3, <2>4
<1>10. ASSUME NEW d \in Deliveries, RetryDead(d) PROVE Contract!Rescue(d)
  BY <1>10 DEF RetryDead, Rescuable, Contract!Rescue, Contract!Move, Phase
<1>11. ASSUME NEW c \in Channels, RemoveChannel(c) \/ AddChannel(c) PROVE UNCHANGED Contract!vars
  BY <1>11, <1>0 DEF RemoveChannel, AddChannel
<1>12. ASSUME Tick PROVE UNCHANGED Contract!vars
  BY <1>12, <1>0 DEF Tick
<1>13. ASSUME UNCHANGED vars PROVE UNCHANGED Contract!vars
  BY <1>13, <1>0 DEF vars
<1>14. BuryUnavailable \/ BookSuccess \/ RecordFailure \/ (\E o \in {"ok", "retryable", "permanent", "lost"} : Send(o))
       => held \in Deliveries
  BY DEF BuryUnavailable, BookSuccess, RecordFailure, Send
<1> QED
  BY <1>1, <1>2, <1>3, <1>4, <1>5, <1>6, <1>7, <1>8, <1>9, <1>10, <1>11, <1>12, <1>13, <1>14
  DEF Next, Worker, Contract!Next

(* The queue keeps the at-least-once contract, whatever the number of      *)
(* rows and the parameters.                                                *)
THEOREM Refinement == Spec => ImplementsContract
<1> QED
  BY Inductive, Reached, ContractInit, ContractStep, PTL
  DEF Spec, ImplementsContract, Contract!Spec
=============================================================================
