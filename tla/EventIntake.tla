----------------------------- MODULE EventIntake -----------------------------
(***************************************************************************)
(* What the intake decides about an event: the transaction of AcceptEvent  *)
(* over the events and incidents tables, run by request handlers that read *)
(* the clock before they get to it, and the retention cleanup that takes   *)
(* away the events the decision looks at.                                  *)
(*                                                                         *)
(* Every query of the transaction is about one (client, routing_key,       *)
(* dedupe_key), so the module follows one such key.  log is everything     *)
(* ever inserted for it, in the order of the commits; the events table     *)
(* holds the entries whose index is in kept.                               *)
(***************************************************************************)
EXTENDS Integers, Sequences, FiniteSets

CONSTANTS
    Handlers,    \* request handlers that may run at the same time
    EventIds,    \* event_id values of the client
    Severities,  \* ranks of info, warning and critical, of those in use
    Window,      \* DedupeWindow, in ticks
    Retention,   \* age after which an event may be deleted
    MaxTime,     \* bound: the last tick of the clock
    MaxOccurred, \* bound: the latest producer timestamp
    MaxLog,      \* bound: events inserted
    MaxDelay     \* bound: the longest a handler is under way, below the retention

ASSUME IntakeAssumption ==
    /\ Severities \subseteq 1..3
    /\ Window \in Nat /\ Retention \in Nat /\ MaxTime \in Nat
    /\ MaxOccurred \in Nat /\ MaxLog \in Nat
    /\ MaxDelay \in Nat /\ MaxDelay <= Retention

\* Half an hour and thirty days (config.Load): what the cleanup takes is past
\* the window of any request under way.
ASSUME WindowAssumption == Window + MaxDelay <= Retention + 1

VARIABLES
    clock,     \* the server's clock
    since,     \* the `now` of the request each handler is serving
    log,       \* every event inserted, in commit order
    kept,      \* indices of the events still in the table
    incident   \* the row of the incidents table, but for last_seen_at, which is only displayed

vars == <<clock, since, log, kept, incident>>

Lifecycle == {"firing", "resolved"}
Statuses  == Lifecycle \cup {"test"}
Reasons   == {"", "stale_event", "dedupe_window", "orphan_resolved", "silence"}
Idle      == -1  \* a handler with no request
\* What the decision does not look at is not told apart: the severity of an
\* event that is no firing, the producer time of a test.
Requests  ==
    {r \in [id : EventIds, status : Statuses, severity : Severities, occurred : 0..MaxOccurred] :
        /\ r.status # "firing" => \A s \in Severities : r.severity <= s
        /\ r.status = "test" => r.occurred = 0}
Events    == [id : EventIds, status : Statuses, severity : Severities,
              occurred : 0..MaxOccurred, created : 0..MaxTime,
              outcome : {"queued", "suppressed"}, reason : Reasons, recovers : BOOLEAN]
Incidents == [state : {"none", "firing", "resolved"}, first : 0..MaxTime, notified : 0..MaxTime]

Init ==
    /\ clock = 0
    /\ since = [h \in Handlers |-> Idle]
    /\ log = <<>>
    /\ kept = {}
    /\ incident = [state |-> "none", first |-> 0, notified |-> 0]

-----------------------------------------------------------------------------
(* The evidence the transaction reads from the events table.               *)

\* Mutant: only an event that was queued makes its event_id known.
KnownIfQueued(r) == \E i \in kept : log[i].id = r.id /\ log[i].outcome = "queued"

Known(r) == \E i \in kept : log[i].id = r.id

(* The producer timestamps that count: firings, and recoveries that closed *)
(* an incident.                                                            *)
Counts(i) == \/ log[i].status = "firing"
             \/ log[i].status = "resolved" /\ log[i].recovers

\* Mutant: a recovery leaves no trace for later events to be compared with.
ComparesFiringsOnly(r) == \E i \in kept : log[i].status = "firing" /\ r.occurred < log[i].occurred

Stale(r) == \E i \in kept : Counts(i) /\ r.occurred < log[i].occurred

(* The queued firings of the active incident, which previousSeverity is    *)
(* the highest rank of; its beginning is compared with the handlers' `now`.*)
Notified(i) ==
    /\ log[i].status = "firing"
    /\ log[i].outcome = "queued"
    /\ log[i].created >= incident.first

\* Mutant: a firing as severe as the last one is an escalation too.
AsSevere(r) == \A i \in kept : Notified(i) => r.severity >= log[i].severity

Escalates(r) == \A i \in kept : Notified(i) => r.severity > log[i].severity

WithinWindow(now) == now - incident.notified < Window

-----------------------------------------------------------------------------
(* What the transaction decides before it asks about silences.             *)
Reason(r, now) ==
    CASE r.status \notin Lifecycle -> ""
      [] r.status \in Lifecycle /\ Stale(r) -> "stale_event"
      [] r.status = "firing" /\ ~Stale(r) ->
            IF incident.state = "firing" /\ ~Escalates(r) /\ WithinWindow(now)
            THEN "dedupe_window" ELSE ""
      [] r.status = "resolved" /\ ~Stale(r) ->
            IF incident.state = "firing" THEN "" ELSE "orphan_resolved"

\* Mutant: a test event moves the incident.
MovedByTests(r, now) ==
    IF Reason(r, now) \in {"stale_event", "orphan_resolved"} THEN incident
    ELSE [state |-> r.status, first |-> now, notified |-> now]

\* Mutant: a swallowed firing prolongs the window it fell into.
SlidingWindow(r, now) ==
    IF r.status \notin Lifecycle \/ Reason(r, now) \in {"stale_event", "orphan_resolved"}
    THEN incident
    ELSE [state    |-> r.status,
          first    |-> IF incident.state = "firing" THEN incident.first ELSE now,
          notified |-> now]

(* The incident row after it.                                              *)
UpdatedIncident(r, now) ==
    IF r.status \notin Lifecycle \/ Reason(r, now) \in {"stale_event", "orphan_resolved"}
    THEN incident
    ELSE [state    |-> r.status,
          first    |-> IF incident.state = "firing" THEN incident.first ELSE now,
          notified |-> IF Reason(r, now) = "dedupe_window" THEN incident.notified ELSE now]

Entry(r, now, silenced) ==
    LET reason == IF silenced /\ Reason(r, now) = "" THEN "silence" ELSE Reason(r, now)
    IN  [id |-> r.id, status |-> r.status, severity |-> r.severity,
         occurred |-> r.occurred, created |-> now,
         outcome |-> IF reason = "" THEN "queued" ELSE "suppressed",
         reason |-> reason,
         recovers |-> r.status = "resolved" /\ Reason(r, now) = ""]

-----------------------------------------------------------------------------
(* A handler reads the clock; validating the event, resolving its targets, *)
(* recording the request and waiting for the one database connection come  *)
(* between that and its transaction.                                       *)
Begin(h) ==
    /\ since[h] = Idle
    /\ since' = [since EXCEPT ![h] = clock]
    /\ UNCHANGED <<clock, log, kept, incident>>

(* The transaction: a known event_id changes nothing; anything else is     *)
(* recorded with its outcome, and the incident moves with it.              *)
Commit(h, r, silenced) ==
    /\ since[h] # Idle
    /\ since' = [since EXCEPT ![h] = Idle]
    /\ IF Known(r)
       THEN UNCHANGED <<log, kept, incident>>
       ELSE /\ Len(log) < MaxLog
            /\ log' = Append(log, Entry(r, since[h], silenced))
            /\ kept' = kept \cup {Len(log) + 1}
            /\ incident' = UpdatedIncident(r, since[h])
    /\ UNCHANGED clock

(* The request is refused by a check, or its transaction fails.            *)
Refuse(h) ==
    /\ since[h] # Idle
    /\ since' = [since EXCEPT ![h] = Idle]
    /\ UNCHANGED <<clock, log, kept, incident>>

(* The cleanup takes the events past the retention, but for those of the   *)
(* queued ones that still have an unfinished delivery.                     *)
Prune(unfinished) ==
    LET old == {i \in kept : log[i].created < clock - Retention}
    IN  /\ unfinished \subseteq {i \in old : log[i].outcome = "queued"}
        /\ old # unfinished
        /\ kept' = kept \ (old \ unfinished)
        /\ UNCHANGED <<clock, since, log, incident>>

Tick ==
    /\ clock < MaxTime
    /\ \A h \in Handlers : since[h] # Idle => clock - since[h] < MaxDelay
    /\ clock' = clock + 1
    /\ UNCHANGED <<since, log, kept, incident>>

Next ==
    \/ \E h \in Handlers : Begin(h)
    \/ \E h \in Handlers, r \in Requests, silenced \in BOOLEAN : Commit(h, r, silenced)
    \/ \E h \in Handlers : Refuse(h)
    \/ \E unfinished \in SUBSET kept : Prune(unfinished)
    \/ Tick

Spec == Init /\ [][Next]_vars

-----------------------------------------------------------------------------
TypeOK ==
    /\ clock \in 0..MaxTime
    /\ since \in [Handlers -> {Idle} \cup 0..MaxTime]
    /\ log \in Seq(Events) /\ Len(log) <= MaxLog
    /\ kept \subseteq 1..Len(log)
    /\ incident \in Incidents

(* Idempotence: an event_id is recorded, and so notified, once; a second   *)
(* record needs the cleanup to have deleted the first.                     *)
RecordedOnce ==
    \A i, j \in kept : log[i].id = log[j].id => i = j

(* The entries since the incident that entry j belongs to was opened.      *)
SameIncident(i, j) ==
    /\ i < j
    /\ \A k \in i..j : log[k].status = "resolved" => ~log[k].recovers

(* A firing that was news to the incident: it was queued, or only silenced. *)
News(i) == log[i].status = "firing" /\ log[i].reason \in {"", "silence"}

(* The event in which the producer spoke of the incident last by its own   *)
(* timestamps, the last committed among equals.                            *)
SaidLast(i) ==
    /\ log[i].status \in Lifecycle
    /\ \A j \in 1..Len(log) : log[j].status \in Lifecycle =>
          \/ log[j].occurred < log[i].occurred
          \/ log[j].occurred = log[i].occurred /\ j <= i

(* However the events were delayed and reordered on their way, and as long *)
(* as none was deleted, the incident is active exactly if the producer's   *)
(* last word was a firing, with one exception: a recovery that arrived     *)
(* when nothing was active (orphan_resolved) is not compared with, so a    *)
(* firing from before it that arrives after it opens the incident, where   *)
(* docs/api.md:202 has it kept as stale_event and change nothing.          *)
OnlyOrphansMislead ==
    kept = 1..Len(log) =>
        \A i \in kept :
            SaidLast(i) /\ (incident.state = "firing") # (log[i].status = "firing") =>
                /\ log[i].reason = "orphan_resolved"
                /\ \E j \in (i + 1)..Len(log) :
                      News(j) /\ log[j].occurred < log[i].occurred

(* What the dedupe window swallows was old news, whatever handlers         *)
(* overtook each other and whatever silences and the cleanup did since:    *)
(* the incident had news within the window before it, which may have been  *)
(* silenced, and receivers were sent a firing at least as severe.  That    *)
(* firing is of the same incident, or of an earlier one and its handler    *)
(* read the clock no earlier than the one that opened this incident: then  *)
(* an escalation may be swallowed.                                         *)
SwallowedIsOldNews ==
    \A j \in 1..Len(log) : log[j].reason = "dedupe_window" =>
        /\ \E m \in 1..(j - 1) : /\ News(m) /\ SameIncident(m, j)
                                 /\ log[j].created - log[m].created < Window
        /\ \E i \in 1..(j - 1) :
              /\ log[i].status = "firing" /\ log[i].outcome = "queued"
              /\ log[i].severity >= log[j].severity
              /\ \/ SameIncident(i, j)
                 \/ \E f \in (i + 1)..(j - 1) :
                       SameIncident(f, j) /\ log[f].created <= log[i].created

(* The handlers of j's incident committed in the order in which they had   *)
(* read the clock, so far.                                                 *)
InOrder(j) ==
    \A k, l \in 1..j : k < l /\ SameIncident(k, j) => log[k].created <= log[l].created

(* No storm: within the window of a queued firing, a further one of the    *)
(* same incident is queued only if it is more severe than all of them      *)
(* before it (ADR-018), as long as no handler of the incident was          *)
(* overtaken by another, be there as many at a time as there may.          *)
OnlyEscalationsPassWindow ==
    \A j \in 1..Len(log) :
        log[j].status = "firing" /\ log[j].outcome = "queued" /\ InOrder(j) =>
            \A i \in 1..(j - 1) :
                /\ SameIncident(i, j)
                /\ log[i].status = "firing" /\ log[i].outcome = "queued"
                /\ log[i].severity >= log[j].severity
                => log[j].created - log[i].created >= Window
=============================================================================
