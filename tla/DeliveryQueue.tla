---------------------------- MODULE DeliveryQueue ----------------------------
(***************************************************************************)
(* The persistent delivery queue: the rows of the deliveries table, the    *)
(* single worker goroutine that claims them under a lease, sends and books *)
(* the result, the administrator's retry of a dead row, the retention      *)
(* cleanup, and the set of channels the running snapshot can send to.      *)
(*                                                                         *)
(* Timestamps are kept relative to the clock.  wait[d] is next_attempt_at  *)
(* minus the clock, lease[d] is lease_until minus the clock and age[e] is  *)
(* the clock minus created_at; Tick moves them all.  lag is how far the    *)
(* worker's own `now`, read once at the top of its loop, is behind.        *)
(* The wait of a finished row and the lease of a row nobody holds are read *)
(* by nothing; they are kept at 0.                                         *)
(***************************************************************************)
EXTENDS Integers, FiniteSets

CONSTANTS
    Deliveries,   \* rows the deliveries table may ever hold
    Events,       \* rows the events table may ever hold
    Channels,     \* channel ids
    EventOf,      \* the event a delivery belongs to (event_record_id)
    ChannelOf,    \* the channel a delivery is for (channel_id)
    NoDelivery,   \* the worker holds no delivery
    Lease,        \* LeaseDuration, in ticks
    Delays,       \* number of entries of RetryDelays
    RetryDelays,  \* the backoff table, in ticks
    MaxWait,      \* the longest entry of RetryDelays
    MaxAttempts,  \* failed attempts after which a delivery is dead
    Retention,    \* age after which a finished event may be deleted
    MaxStale,     \* bound: how old a `now` is when its transaction runs
    MaxLag,       \* bound: the longest one iteration of the worker takes
    MaxLate,      \* bound: lateness beyond which rows are not told apart
    MaxFaults,    \* bound: faults that hit one delivery
    MaxRescues    \* bound: manual retries of dead deliveries

ASSUME QueueAssumption ==
    /\ EventOf \in [Deliveries -> Events]
    /\ ChannelOf \in [Deliveries -> Channels]
    /\ NoDelivery \notin Deliveries
    /\ Lease \in Nat \ {0} /\ Retention \in Nat /\ MaxWait \in Nat
    /\ Delays \in Nat \ {0} /\ RetryDelays \in [1..Delays -> 0..MaxWait]
    /\ MaxAttempts \in Nat \ {0}
    /\ MaxStale \in Nat /\ MaxLag \in Nat /\ MaxLate \in Nat
    /\ MaxStale <= MaxLag /\ MaxLag <= MaxLate
    /\ MaxFaults \in Nat /\ MaxRescues \in Nat

VARIABLES
    eventRow,   \* is the event unseen, stored, or deleted by the cleanup
    age,        \* ticks since the event's created_at
    status,     \* deliveries.status; "none" before the insert, "gone" after the delete
    wait,       \* ticks until next_attempt_at
    lease,      \* ticks until lease_until
    attempts,   \* deliveries.attempts
    available,  \* channels with a sender in the current snapshot
    pc,         \* where the worker is in ProcessOne
    held,       \* the delivery it works on
    attempt,    \* the attempt number ClaimDelivery returned to it
    lag,        \* clock minus the worker's `now`
    reply,      \* what the sender returned
    accepted,   \* history: times the receiver took the notification
    faults,     \* history: results lost on the way to the row
    rescues     \* history: manual retries so far

rowVars    == <<eventRow, age, status, wait, lease, attempts>>
workerVars == <<pc, held, attempt, lag, reply>>
history    == <<accepted, faults, rescues>>
vars       == <<rowVars, available, workerVars, history>>

Open     == {"pending", "retrying"}
Unfinished == Open \cup {"processing"}
Replies  == {"none", "ok", "retryable", "permanent"}
AgeCap   == Retention + MaxStale + 1
Floor(n) == IF n < -MaxLate THEN -MaxLate ELSE n

Init ==
    /\ eventRow = [e \in Events |-> "unseen"]
    /\ age = [e \in Events |-> 0]
    /\ status = [d \in Deliveries |-> "none"]
    /\ wait = [d \in Deliveries |-> 0]
    /\ lease = [d \in Deliveries |-> 0]
    /\ attempts = [d \in Deliveries |-> 0]
    /\ available = Channels
    /\ pc = "idle" /\ held = NoDelivery /\ attempt = 0 /\ lag = 0 /\ reply = "none"
    /\ accepted = [d \in Deliveries |-> 0]
    /\ faults = [d \in Deliveries |-> 0]
    /\ rescues = 0

-----------------------------------------------------------------------------
(* The intake's transaction: an event and one pending row per target, all  *)
(* due at the handler's `now`, which is stale ticks old when it commits.   *)
Accept(e, targets, stale) ==
    /\ eventRow[e] = "unseen"
    /\ targets # {}
    /\ \A d \in targets : EventOf[d] = e
    /\ eventRow' = [eventRow EXCEPT ![e] = "stored"]
    /\ age' = [age EXCEPT ![e] = stale]
    /\ status' = [d \in Deliveries |-> IF d \in targets THEN "pending" ELSE status[d]]
    /\ wait' = [d \in Deliveries |-> IF d \in targets THEN -stale ELSE wait[d]]
    /\ UNCHANGED <<lease, attempts, available, workerVars, history>>

\* Mutant: a row whose lease ran out is not taken back.
NoReclaim(d, stale) == status[d] \in Open /\ wait[d] + stale <= 0

(* The WHERE clause of ClaimDelivery at a `now` that is stale ticks old.   *)
Claimable(d, stale) ==
    \/ status[d] \in Open /\ wait[d] + stale <= 0
    \/ status[d] = "processing" /\ lease[d] + stale <= 0

(* ORDER BY next_attempt_at, created_at.                                   *)
NotAfter(c, d) ==
    \/ wait[c] < wait[d]
    \/ wait[c] = wait[d] /\ age[EventOf[c]] >= age[EventOf[d]]

Claim(d, stale) ==
    /\ pc = "idle"
    /\ Claimable(d, stale)
    /\ \A c \in Deliveries : Claimable(c, stale) => NotAfter(d, c)
    /\ status' = [status EXCEPT ![d] = "processing"]
    /\ attempts' = [attempts EXCEPT ![d] = @ + 1]
    /\ lease' = [lease EXCEPT ![d] = Lease - stale]
    /\ pc' = "claimed" /\ held' = d /\ attempt' = attempts[d] + 1 /\ lag' = stale
    /\ UNCHANGED <<eventRow, age, wait, available, reply, history>>

BackToLoop == /\ pc' = "idle" /\ held' = NoDelivery /\ attempt' = 0
              /\ lag' = 0 /\ reply' = "none"

(* CompleteFailure, fenced by the status and by the attempt number: it     *)
(* touches no row unless the row is still the one that was claimed.        *)
BookFailure(outcome, next) ==
    LET matches == status[held] = "processing" /\ attempts[held] = attempt
    IN  /\ status' = [status EXCEPT ![held] = IF matches THEN outcome ELSE @]
        /\ wait' = [wait EXCEPT ![held] = IF matches THEN next ELSE @]
        /\ lease' = [lease EXCEPT ![held] = IF matches THEN 0 ELSE @]
        /\ UNCHANGED <<eventRow, age, attempts, available, history>>

\* Mutant: a row nobody can send is closed as if it were done.
ClosedAsDone == "sent"

(* What ProcessOne books when the snapshot has no sender for the channel.  *)
MissingSenderStatus == "dead"

BuryUnavailable ==
    /\ pc = "claimed"
    /\ ChannelOf[held] \notin available
    /\ BookFailure(MissingSenderStatus, 0)
    /\ BackToLoop

(* The sender is looked up once; a channel removed afterwards is still     *)
(* sent to.                                                                *)
Resolve ==
    /\ pc = "claimed"
    /\ ChannelOf[held] \in available
    /\ pc' = "sending"
    /\ UNCHANGED <<rowVars, available, held, attempt, lag, reply, history>>

(* The sender returns.  "lost" is a request the receiver took whose answer *)
(* never came back: the sender reports it as a network error.              *)
Send(outcome) ==
    /\ pc = "sending"
    /\ outcome = "lost" => faults[held] < MaxFaults
    /\ pc' = "report"
    /\ reply' = IF outcome = "lost" THEN "retryable" ELSE outcome
    /\ accepted' = [accepted EXCEPT ![held] = IF outcome \in {"ok", "lost"} THEN @ + 1 ELSE @]
    /\ faults' = [faults EXCEPT ![held] = IF outcome = "lost" THEN @ + 1 ELSE @]
    /\ UNCHANGED <<rowVars, available, held, attempt, lag, rescues>>

(* CompleteSuccess, fenced by the status alone.                            *)
BookSuccess ==
    /\ pc = "report" /\ reply = "ok"
    /\ LET matches == status[held] = "processing"
       IN  /\ status' = [status EXCEPT ![held] = IF matches THEN "sent" ELSE @]
           /\ wait' = [wait EXCEPT ![held] = IF matches THEN 0 ELSE @]
           /\ lease' = [lease EXCEPT ![held] = IF matches THEN 0 ELSE @]
    /\ UNCHANGED <<eventRow, age, attempts, available, history>>
    /\ BackToLoop

\* Mutant: a refused notification is written off without a dead letter.
SilentRefusal(r, n) ==
    IF r = "permanent" THEN "sent" ELSE IF n >= MaxAttempts THEN "dead" ELSE "retrying"

\* Mutant: one attempt too many.
OneMoreAttempt(r, n) == IF r = "permanent" \/ n > MaxAttempts THEN "dead" ELSE "retrying"

(* dead := !retryable || attempts >= MaxAttempts.                          *)
FailureStatus(r, n) == IF r = "permanent" \/ n >= MaxAttempts THEN "dead" ELSE "retrying"

\* Mutant: the backoff grows with the attempts and is not capped by the table.
UncappedDelay(n) == RetryDelays[Delays] * n

(* RetryDelays[min(n - 1, len - 1)], the list counted from 1 here.         *)
RetryDelay(n) == RetryDelays[IF n > Delays THEN Delays ELSE n]

(* A failed send.  The next attempt is counted from the `now` the worker   *)
(* took before it claimed, so the time the send took shortens the wait.    *)
RecordFailure ==
    /\ pc = "report" /\ reply \in {"retryable", "permanent"}
    /\ LET outcome == FailureStatus(reply, attempt)
       IN  BookFailure(outcome, IF outcome = "dead" THEN 0 ELSE RetryDelay(attempt) - lag)
    /\ BackToLoop

(* The worker loses what it holds: the process dies, it is shut down (the  *)
(* cancelled context fails the write), or the completing UPDATE fails.     *)
(* The row stays processing until its lease runs out.                      *)
Abandon ==
    /\ pc # "idle"
    /\ faults[held] < MaxFaults
    /\ faults' = [faults EXCEPT ![held] = @ + 1]
    /\ BackToLoop
    /\ UNCHANGED <<rowVars, available, accepted, rescues>>

\* Mutant: the cleanup spares only rows that were never tried.
ForgetsRetrying(e, stale) ==
    /\ eventRow[e] = "stored"
    /\ age[e] - stale > Retention
    /\ \A d \in Deliveries : EventOf[d] = e => status[d] # "pending"

(* The WHERE clause of Prune, at a `now` that is stale ticks old.          *)
Prunable(e, stale) ==
    /\ eventRow[e] = "stored"
    /\ age[e] - stale > Retention
    /\ \A d \in Deliveries : EventOf[d] = e => status[d] \notin Unfinished

(* The hourly cleanup, which the worker runs between two deliveries; the   *)
(* delivery rows go with their event (ON DELETE CASCADE).                  *)
Prune(stale) ==
    LET doomed == {e \in Events : Prunable(e, stale)}
    IN  /\ pc = "idle"
        /\ doomed # {}
        /\ eventRow' = [e \in Events |-> IF e \in doomed THEN "pruned" ELSE eventRow[e]]
        /\ age' = [e \in Events |-> IF e \in doomed THEN 0 ELSE age[e]]
        /\ status' = [d \in Deliveries |->
                        IF EventOf[d] \in doomed /\ status[d] # "none" THEN "gone" ELSE status[d]]
        /\ attempts' = [d \in Deliveries |-> IF EventOf[d] \in doomed THEN 0 ELSE attempts[d]]
        /\ wait' = [d \in Deliveries |-> IF EventOf[d] \in doomed THEN 0 ELSE wait[d]]
        /\ lease' = [d \in Deliveries |-> IF EventOf[d] \in doomed THEN 0 ELSE lease[d]]
        /\ UNCHANGED <<available, workerVars, history>>

\* Mutant: any row that was not delivered may be put back in the queue.
AnyUnsent(d) == status[d] \in Unfinished \cup {"dead"}

\* Mutant: a delivered row may be put back in the queue.
SentToo(d) == status[d] \in {"sent", "dead"}

Rescuable(d) == status[d] = "dead"

(* The administrator puts a dead delivery back in the queue.               *)
RetryDead(d) ==
    /\ rescues < MaxRescues
    /\ Rescuable(d)
    /\ status' = [status EXCEPT ![d] = "pending"]
    /\ attempts' = [attempts EXCEPT ![d] = 0]
    /\ wait' = [wait EXCEPT ![d] = 0]
    /\ lease' = [lease EXCEPT ![d] = 0]
    /\ rescues' = rescues + 1
    /\ UNCHANGED <<eventRow, age, available, workerVars, accepted, faults>>

(* A new snapshot without, or with, the channel.                           *)
RemoveChannel(c) ==
    /\ c \in available
    /\ available' = available \ {c}
    /\ UNCHANGED <<rowVars, workerVars, history>>

AddChannel(c) ==
    /\ c \notin available
    /\ available' = available \cup {c}
    /\ UNCHANGED <<rowVars, workerVars, history>>

(* A tick of the clock.  An iteration of the worker takes at most MaxLag   *)
(* ticks: its requests have timeouts.                                      *)
Tick ==
    /\ pc # "idle" => lag < MaxLag
    /\ wait' = [d \in Deliveries |-> IF status[d] \in Unfinished THEN Floor(wait[d] - 1) ELSE wait[d]]
    /\ lease' = [d \in Deliveries |-> IF status[d] = "processing" THEN Floor(lease[d] - 1) ELSE lease[d]]
    /\ age' = [e \in Events |-> IF eventRow[e] = "stored" /\ age[e] < AgeCap THEN age[e] + 1 ELSE age[e]]
    /\ lag' = IF pc = "idle" THEN 0 ELSE lag + 1
    /\ UNCHANGED <<eventRow, status, attempts, available, pc, held, attempt, reply, history>>

-----------------------------------------------------------------------------
(* What the worker does by itself, one delivery after the other.           *)
Worker ==
    \/ \E d \in Deliveries, stale \in 0..MaxStale : Claim(d, stale)
    \/ BuryUnavailable
    \/ Resolve
    \/ \E outcome \in {"ok", "retryable", "permanent", "lost"} : Send(outcome)
    \/ BookSuccess
    \/ RecordFailure

Next ==
    \/ \E e \in Events, targets \in SUBSET Deliveries, stale \in 0..MaxStale : Accept(e, targets, stale)
    \/ Worker
    \/ Abandon
    \/ \E stale \in 0..MaxStale : Prune(stale)
    \/ \E d \in Deliveries : RetryDead(d)
    \/ \E c \in Channels : RemoveChannel(c) \/ AddChannel(c)
    \/ Tick

Spec == Init /\ [][Next]_vars

(* The worker loop never waits for anything but its ticker and requests    *)
(* with timeouts, so it always goes on; and time passes.                   *)
FairSpec == Spec /\ WF_vars(Worker) /\ WF_vars(Tick)

-----------------------------------------------------------------------------
(* Every variable has its type; waits and leases stay within the backoff   *)
(* table and the lease.                                                    *)
TypeOK ==
    /\ eventRow \in [Events -> {"unseen", "stored", "pruned"}]
    /\ age \in [Events -> 0..AgeCap]
    /\ status \in [Deliveries -> Unfinished \cup {"none", "sent", "dead", "gone"}]
    /\ wait \in [Deliveries -> -MaxLate..MaxWait]
    /\ lease \in [Deliveries -> -MaxLate..Lease]
    /\ attempts \in [Deliveries -> Nat]
    /\ available \in SUBSET Channels
    /\ pc \in {"idle", "claimed", "sending", "report"}
    /\ held \in Deliveries \cup {NoDelivery}
    /\ attempt \in Nat /\ lag \in 0..MaxLag /\ reply \in Replies
    /\ accepted \in [Deliveries -> Nat] /\ faults \in [Deliveries -> 0..MaxFaults]
    /\ rescues \in 0..MaxRescues

(* Between the claim and the booking nobody else touches the row: it is    *)
(* still processing at the worker's attempt, so that the UPDATE of         *)
(* CompleteSuccess, which has no fence on the attempt, and that of         *)
(* CompleteFailure always find their row, whatever lease ran out, channel  *)
(* was removed, row was rescued or event expired in the meantime.          *)
HeldRowIsOurs ==
    pc # "idle" => /\ held \in Deliveries
                   /\ status[held] = "processing"
                   /\ attempts[held] = attempt
                   /\ eventRow[EventOf[held]] = "stored"

(* A row that says sent was taken by the receiver.                         *)
SentWasAccepted ==
    \A d \in Deliveries : status[d] = "sent" => accepted[d] >= 1

(* At-least-once is all the duplication there is: the receiver gets a      *)
(* notification twice only where a crash, a failed booking or a lost       *)
(* answer hid that it had got it, once more for each of them.              *)
DuplicatesNeedAFault ==
    \A d \in Deliveries : accepted[d] <= 1 + faults[d]

(* MaxAttempts bounds the attempts a row makes between two rescues, but    *)
(* for the claims whose result was lost: those count as attempts and are   *)
(* not held against the bound, which is looked at after a failed send.     *)
AttemptsBounded ==
    \A d \in Deliveries : attempts[d] <= MaxAttempts + faults[d]

(* Deleting a channel sends its waiting deliveries to the dead letters     *)
(* instead of losing them (docs/admin.md): one that no worker is sending   *)
(* while the channel stays away ends dead.                                 *)
RemovedChannelDeadLetters ==
    \A d \in Deliveries :
        (status[d] \in Open /\ [](ChannelOf[d] \notin available)) ~> status[d] = "dead"

-----------------------------------------------------------------------------
(* The contract's view of a row.                                           *)
Phase(s) == CASE s = "none" -> "absent"
              [] s \in Unfinished -> "owed"
              [] s = "sent" -> "delivered"
              [] s = "dead" -> "dead"
              [] s = "gone" -> "forgotten"

Contract == INSTANCE DeliveryContract
                WITH phase <- [d \in Deliveries |-> Phase(status[d])]

(* The queue implements the at-least-once contract: seen through Phase,    *)
(* every step of it is a step of the contract or changes nothing there.    *)
ImplementsContract == Contract!Spec

(* The same with the contract's promise that nothing is owed for ever.     *)
ImplementsFairContract == Contract!FairSpec
=============================================================================
