--------------------------- MODULE EventIntakeProofs ---------------------------
(***************************************************************************)
(* Theorems about EventIntake, and about a reader that follows it          *)
(* (AlertFeed), for any number of handlers, events and severities and any  *)
(* window, retention and delay that the configuration allows.              *)
(***************************************************************************)
EXTENDS AlertFeed, WellFoundedInduction, TLAPS

-----------------------------------------------------------------------------
(* What the assumptions say of the numbers.                                *)
LEMMA Numbers ==
  /\ Window \in Nat /\ Retention \in Nat /\ MaxTime \in Nat /\ MaxOccurred \in Nat /\ MaxLog \in Nat
  /\ MaxDelay \in Nat /\ MaxDelay <= Retention /\ Window + MaxDelay <= Retention + 1
  /\ Idle \notin Nat /\ \A s \in Severities : s \in Nat
  BY IntakeAssumption, WindowAssumption DEF Idle

(* One more event at the end of the log.                                   *)
LEMMA Appended ==
  ASSUME NEW s \in Seq(Events), NEW e \in Events, NEW t, t = Append(s, e)
  PROVE  /\ t \in Seq(Events) /\ Len(s) \in Nat /\ Len(t) = Len(s) + 1
         /\ t[Len(s) + 1] = e
         /\ \A i \in 1..Len(s) : t[i] = s[i]
  OBVIOUS

(* The fields of what is asked, and of what is recorded.                   *)
LEMMA RequestFields ==
  ASSUME NEW r \in Requests
  PROVE  /\ r.id \in EventIds /\ r.status \in Statuses /\ r.severity \in Severities
         /\ r.occurred \in 0..MaxOccurred
  BY DEF Requests

LEMMA EventFields ==
  ASSUME NEW e \in Events
  PROVE  /\ e.status \in Statuses /\ e.severity \in Nat /\ e.occurred \in Nat /\ e.created \in Nat
         /\ e.outcome \in {"queued", "suppressed"} /\ e.reason \in Reasons /\ e.recovers \in BOOLEAN
  BY Numbers DEF Events

LEMMA EventMade ==
  ASSUME NEW id \in EventIds, NEW status \in Statuses, NEW severity \in Severities,
         NEW occurred \in 0..MaxOccurred, NEW created \in 0..MaxTime,
         NEW outcome \in {"queued", "suppressed"}, NEW reason \in Reasons, NEW recovers \in BOOLEAN,
         NEW e, e = [id |-> id, status |-> status, severity |-> severity, occurred |-> occurred,
                     created |-> created, outcome |-> outcome, reason |-> reason,
                     recovers |-> recovers]
  PROVE  e \in Events
  BY DEF Events

(* The decision is one of these.                                           *)
LEMMA Decision ==
  ASSUME NEW r \in Requests, NEW now
  PROVE  /\ Reason(r, now) \in {"", "stale_event", "dedupe_window", "orphan_resolved"}
         /\ (r.status = "test" => Reason(r, now) = "")
         /\ (r.status # "test" => (Reason(r, now) = "stale_event" <=> Stale(r)))
         /\ (Reason(r, now) = "dedupe_window" =>
               /\ r.status = "firing" /\ incident.state = "firing"
               /\ ~Escalates(r) /\ WithinWindow(now))
         /\ (r.status = "firing" /\ Reason(r, now) = "" /\ incident.state = "firing" =>
               Escalates(r) \/ ~WithinWindow(now))
         /\ (r.status = "firing" => Reason(r, now) # "orphan_resolved")
         /\ (Reason(r, now) = "orphan_resolved" => incident.state # "firing")
<1>1. r.status \in {"firing", "resolved", "test"}
  BY RequestFields DEF Statuses, Lifecycle
<1>2. CASE r.status = "test"
  BY <1>2 DEF Reason, Lifecycle
<1>3. CASE r.status = "firing"
  BY <1>3 DEF Reason, Lifecycle
<1>4. CASE r.status = "resolved"
  BY <1>4 DEF Reason, Lifecycle
<1> QED
  BY <1>1, <1>2, <1>3, <1>4

(* What is recorded of a request, as far as the proofs ask.                *)
Says(e, r, now) ==
    /\ e \in Events
    /\ e.id = r.id /\ e.status = r.status /\ e.severity = r.severity /\ e.occurred = r.occurred
    /\ e.created = now
    /\ (e.outcome = "queued" => e.reason = "")
    /\ (e.reason \in {"", "silence"} <=> Reason(r, now) = "")
    /\ (e.reason = "dedupe_window" => Reason(r, now) = "dedupe_window")
    /\ (e.reason = "stale_event" <=> Reason(r, now) = "stale_event")
    /\ (e.reason = "orphan_resolved" <=> Reason(r, now) = "orphan_resolved")
    /\ (e.recovers <=> (e.status = "resolved" /\ Reason(r, now) = ""))

LEMMA Recorded ==
  ASSUME NEW r \in Requests, NEW now \in 0..MaxTime, NEW silenced \in BOOLEAN,
         NEW e, e = Entry(r, now, silenced)
  PROVE  Says(e, r, now)
<1> DEFINE reason == IF silenced /\ Reason(r, now) = "" THEN "silence" ELSE Reason(r, now)
           outcome == IF reason = "" THEN "queued" ELSE "suppressed"
           recovers == r.status = "resolved" /\ Reason(r, now) = ""
<1>1. e = [id |-> r.id, status |-> r.status, severity |-> r.severity, occurred |-> r.occurred,
           created |-> now, outcome |-> outcome, reason |-> reason, recovers |-> recovers]
  BY DEF Entry
<1>2. /\ reason \in Reasons /\ (reason \in {"", "silence"} <=> Reason(r, now) = "")
      /\ (reason = "dedupe_window" => Reason(r, now) = "dedupe_window")
      /\ (reason = "stale_event" <=> Reason(r, now) = "stale_event")
      /\ (reason = "orphan_resolved" <=> Reason(r, now) = "orphan_resolved")
  BY Decision DEF Reasons
<1>3. outcome \in {"queued", "suppressed"} /\ (outcome = "queued" => reason = "")
  OBVIOUS
<1>4. recovers \in BOOLEAN /\ (recovers <=> (r.status = "resolved" /\ Reason(r, now) = ""))
  OBVIOUS
<1> HIDE DEF reason, outcome, recovers
<1>5. e \in Events
  <2>1. /\ r.id \in EventIds /\ r.status \in Statuses /\ r.severity \in Severities
        /\ r.occurred \in 0..MaxOccurred
    BY RequestFields
  <2> QED
    BY <1>1, <1>2, <1>3, <1>4, <2>1, EventMade
<1>6. /\ e.id = r.id /\ e.status = r.status /\ e.severity = r.severity /\ e.occurred = r.occurred
      /\ e.created = now
      /\ e.outcome = outcome /\ e.reason = reason /\ e.recovers = recovers
  BY <1>1
<1> QED
  BY <1>2, <1>3, <1>4, <1>5, <1>6 DEF Says

(* What becomes of the incident: nothing, a notice, nothing but staying    *)
(* open, or the recovery.                                                  *)
LEMMA Moved ==
  ASSUME NEW r \in Requests, NEW now
  PROVE  \/ /\ r.status = "test" \/ Reason(r, now) \in {"stale_event", "orphan_resolved"}
            /\ UpdatedIncident(r, now) = incident
         \/ /\ r.status = "firing" /\ Reason(r, now) = ""
            /\ UpdatedIncident(r, now) =
                  [state |-> "firing",
                   first |-> IF incident.state = "firing" THEN incident.first ELSE now,
                   notified |-> now]
         \/ /\ r.status = "firing" /\ Reason(r, now) = "dedupe_window"
            /\ UpdatedIncident(r, now) =
                  [state |-> "firing", first |-> incident.first, notified |-> incident.notified]
         \/ /\ r.status = "resolved" /\ Reason(r, now) = ""
            /\ UpdatedIncident(r, now) =
                  [state |-> "resolved",
                   first |-> IF incident.state = "firing" THEN incident.first ELSE now,
                   notified |-> now]
<1>1. r.status \in {"firing", "resolved", "test"}
  BY RequestFields DEF Statuses, Lifecycle
<1>2. CASE r.status = "test" \/ Reason(r, now) \in {"stale_event", "orphan_resolved"}
  BY <1>2 DEF UpdatedIncident, Lifecycle
<1>3. CASE r.status # "test" /\ Reason(r, now) = "dedupe_window"
  BY <1>3, Decision DEF UpdatedIncident, Lifecycle
<1>4. CASE r.status # "test" /\ Reason(r, now) = ""
  BY <1>1, <1>4 DEF UpdatedIncident, Lifecycle
<1> QED
  BY <1>2, <1>3, <1>4, Decision

\* Whatever becomes of it, its state is then the status of the event.
LEMMA MovedRow ==
  ASSUME NEW r \in Requests, NEW now,
         r.status # "test", Reason(r, now) \in {"", "dedupe_window"}
  PROVE  /\ r.status \in {"firing", "resolved"}
         /\ \E f \in {incident.first, now}, m \in {incident.notified, now} :
               UpdatedIncident(r, now) = [state |-> r.status, first |-> f, notified |-> m]
<1> DEFINE f == IF incident.state = "firing" THEN incident.first ELSE now
           m == IF Reason(r, now) = "dedupe_window" THEN incident.notified ELSE now
<1>1. r.status \in {"firing", "resolved"}
  BY RequestFields DEF Statuses, Lifecycle
<1>2. UpdatedIncident(r, now) = [state |-> r.status, first |-> f, notified |-> m]
  BY <1>1 DEF UpdatedIncident, Lifecycle
<1>3. f \in {incident.first, now} /\ m \in {incident.notified, now}
  OBVIOUS
<1> HIDE DEF f, m
<1> QED
  BY <1>1, <1>2, <1>3

-----------------------------------------------------------------------------
(* What a transaction that records does, in the terms the proofs use: the  *)
(* entry e at place n, by a handler whose `now` is at.                     *)
Records(h, r, e, n, at) ==
    /\ n = Len(log) + 1 /\ n \in Nat /\ n \notin 1..Len(log) /\ 1..n = 1..Len(log) \cup {n}
    /\ at = since[h] /\ at \in 0..MaxTime
    /\ Says(e, r, at)
    /\ log' \in Seq(Events) /\ Len(log') = n /\ log'[n] = e
    /\ \A i \in 1..Len(log) : log'[i] = log[i]
    /\ kept' = kept \cup {n}
    /\ incident' = UpdatedIncident(r, at)
    /\ clock' = clock

LEMMA CommitRecords ==
  ASSUME TypeOK, NEW h \in Handlers, NEW r \in Requests, NEW silenced \in BOOLEAN,
         Commit(h, r, silenced), ~Known(r)
  PROVE  /\ \E e, n, at : Records(h, r, e, n, at)
         /\ since[h] # Idle /\ Len(log) < MaxLog
<1> DEFINE at == since[h]
           e == Entry(r, at, silenced)
           n == Len(log) + 1
<1>1. at \in 0..MaxTime /\ at # Idle
  BY DEF TypeOK, Commit
<1>2. /\ log' = Append(log, e) /\ kept' = kept \cup {n} /\ Len(log) < MaxLog
      /\ incident' = UpdatedIncident(r, at) /\ clock' = clock
  BY DEF Commit
<1>3. log \in Seq(Events)
  BY DEF TypeOK
<1> HIDE DEF at, e
<1>4. Says(e, r, at)
  <2>1. e = Entry(r, at, silenced)
    BY DEF e
  <2> QED
    BY <1>1, <2>1, Recorded
<1>5. /\ log' \in Seq(Events) /\ Len(log) \in Nat /\ Len(log') = n /\ log'[n] = e
      /\ \A i \in 1..Len(log) : log'[i] = log[i]
  BY <1>2, <1>3, <1>4, Appended DEF Says
<1>6. n \in Nat /\ n \notin 1..Len(log) /\ 1..n = 1..Len(log) \cup {n}
  BY <1>5
<1>7. Records(h, r, e, n, at)
  <2> HIDE DEF n
  <2>1. n = Len(log) + 1 /\ at = since[h]
    BY DEF n, at
  <2> QED
    BY <1>1, <1>2, <1>4, <1>5, <1>6, <2>1 DEF Records
<1> QED
  BY <1>1, <1>2, <1>7 DEF at

-----------------------------------------------------------------------------
(* Type correctness.                                                       *)
LEMMA TypeInit == Init => TypeOK
  BY Numbers DEF Init, TypeOK, Incidents

LEMMA TypeKept ==
  ASSUME TypeOK, [Next]_vars
  PROVE  TypeOK'
<1>1. ASSUME NEW h \in Handlers, Begin(h)
      PROVE  TypeOK'
  BY <1>1 DEF Begin, TypeOK
<1>2. ASSUME NEW h \in Handlers, NEW r \in Requests, NEW silenced \in BOOLEAN,
             Commit(h, r, silenced), ~Known(r)
      PROVE  TypeOK'
  <2>1. /\ \E e, n, at : Records(h, r, e, n, at)
        /\ Len(log) < MaxLog
    BY <1>2, CommitRecords
  <2>2. PICK e, n, at : Records(h, r, e, n, at)
    BY <2>1
  <2>3. log' \in Seq(Events) /\ Len(log') <= MaxLog
    <3>1. log' \in Seq(Events) /\ Len(log') = Len(log) + 1
      BY <2>2 DEF Records, Says
    <3>2. Len(log) \in Nat
      BY DEF TypeOK
    <3> QED
      BY <2>1, <3>1, <3>2, Numbers
  <2>4. kept' \subseteq 1..Len(log')
    BY <2>2 DEF Records, Says, TypeOK
  <2>5. incident' \in Incidents
    <3>1. incident \in Incidents /\ at \in 0..MaxTime /\ incident' = UpdatedIncident(r, at)
      BY <2>2 DEF Records, Says, TypeOK
    <3>2. /\ incident.first \in 0..MaxTime /\ incident.notified \in 0..MaxTime
      BY <3>1 DEF Incidents
    <3>3. \A f, m \in 0..MaxTime : \A s \in {"firing", "resolved"} :
             [state |-> s, first |-> f, notified |-> m] \in Incidents
      BY DEF Incidents
    <3>4. CASE r.status # "test" /\ Reason(r, at) \in {"", "dedupe_window"}
      <4>1. PICK f \in {incident.first, at}, m \in {incident.notified, at} :
               UpdatedIncident(r, at) = [state |-> r.status, first |-> f, notified |-> m]
        BY <3>4, MovedRow
      <4>2. r.status \in {"firing", "resolved"} /\ f \in 0..MaxTime /\ m \in 0..MaxTime
        BY <3>1, <3>2, <3>4, MovedRow
      <4> QED
        BY <3>1, <3>3, <4>1, <4>2
    <3>5. CASE r.status = "test" \/ Reason(r, at) \in {"stale_event", "orphan_resolved"}
      BY <3>1, <3>5, Moved, Decision
    <3> QED
      BY <3>4, <3>5, Decision
  <2> QED
    BY <1>2, <2>3, <2>4, <2>5 DEF Commit, TypeOK
<1>3. ASSUME NEW h \in Handlers, NEW r \in Requests, NEW silenced \in BOOLEAN,
             Commit(h, r, silenced), Known(r)
      PROVE  TypeOK'
  BY <1>3 DEF Commit, TypeOK
<1>4. ASSUME NEW h \in Handlers, Refuse(h)
      PROVE  TypeOK'
  BY <1>4 DEF Refuse, TypeOK
<1>5. ASSUME NEW unfinished \in SUBSET kept, Prune(unfinished)
      PROVE  TypeOK'
  BY <1>5 DEF Prune, TypeOK
<1>6. CASE Tick
  BY <1>6, Numbers DEF Tick, TypeOK
<1>7. CASE UNCHANGED vars
  BY <1>7 DEF vars, TypeOK
<1> QED
  BY <1>1, <1>2, <1>3, <1>4, <1>5, <1>6, <1>7 DEF Next

(* The log holds events, the table some of them, and the incident's times  *)
(* are on the clock.                                                       *)
THEOREM TypeCorrect == Spec => []TypeOK
<1> QED
  BY TypeInit, TypeKept, PTL DEF Spec

-----------------------------------------------------------------------------
(* Idempotence.                                                            *)
LEMMA OnceKept ==
  ASSUME TypeOK, RecordedOnce, [Next]_vars
  PROVE  RecordedOnce'
<1>1. ASSUME NEW h \in Handlers, NEW r \in Requests, NEW silenced \in BOOLEAN,
             Commit(h, r, silenced), ~Known(r)
      PROVE  RecordedOnce'
  <2>1. PICK e, n, at : Records(h, r, e, n, at)
    BY <1>1, CommitRecords
  <2>2. kept \subseteq 1..Len(log)
    BY DEF TypeOK
  <2>3. \A i \in kept : log[i].id # r.id
    BY <1>1 DEF Known
  <2>4. /\ e.id = r.id /\ log'[n] = e /\ kept' = kept \cup {n}
        /\ \A i \in kept : log'[i] = log[i]
    BY <2>1, <2>2 DEF Records, Says
  <2> QED
    BY <2>3, <2>4 DEF RecordedOnce
<1>2. ASSUME log' = log, kept' \subseteq kept
      PROVE  RecordedOnce'
  BY <1>2 DEF RecordedOnce
<1>3. ASSUME NEW h \in Handlers, NEW r \in Requests, NEW silenced \in BOOLEAN,
             Commit(h, r, silenced), Known(r)
      PROVE  log' = log /\ kept' = kept
  BY <1>3 DEF Commit
<1>4. ASSUME NEW h \in Handlers, Begin(h) \/ Refuse(h)
      PROVE  log' = log /\ kept' = kept
  BY <1>4 DEF Begin, Refuse
<1>5. ASSUME NEW unfinished \in SUBSET kept, Prune(unfinished)
      PROVE  log' = log /\ kept' \subseteq kept
  BY <1>5 DEF Prune
<1>6. ASSUME Tick \/ UNCHANGED vars
      PROVE  log' = log /\ kept' = kept
  BY <1>6 DEF Tick, vars
<1> QED
  BY <1>1, <1>2, <1>3, <1>4, <1>5, <1>6 DEF Next

(* No two events of the table have the same event_id: a second record of   *)
(* one waits for the cleanup to delete the first.                          *)
THEOREM RecordedOnceCorrect == Spec => []RecordedOnce
<1>1. Init => RecordedOnce
  BY DEF Init, RecordedOnce
<1> QED
  BY <1>1, OnceKept, TypeInit, TypeKept, PTL DEF Spec

-----------------------------------------------------------------------------
(* The incident follows the producer.                                      *)

\* The counting entry with the latest producer timestamp, the last of equals.
Latest(i) ==
    /\ i \in kept /\ Counts(i)
    /\ \A j \in kept : Counts(j) => \/ log[j].occurred < log[i].occurred
                                    \/ log[j].occurred = log[i].occurred /\ j <= i

FollowsCounted ==
    kept = 1..Len(log) => \A i \in kept : Latest(i) => incident.state = log[i].status

LEMMA FollowsKept ==
  ASSUME TypeOK, FollowsCounted, [Next]_vars
  PROVE  FollowsCounted'
<1>1. ASSUME NEW h \in Handlers, NEW r \in Requests, NEW silenced \in BOOLEAN,
             Commit(h, r, silenced), ~Known(r), kept' = 1..Len(log'), NEW i \in kept', Latest(i)'
      PROVE  incident'.state = log'[i].status
  <2>1. PICK e, n, at : Records(h, r, e, n, at)
    BY <1>1, CommitRecords
  <2>2. Len(log) \in Nat /\ kept \subseteq 1..Len(log) /\ log \in Seq(Events)
    BY DEF TypeOK
  <2>3. /\ n = Len(log) + 1 /\ n \in Nat /\ n \notin 1..Len(log) /\ log'[n] = e /\ e \in Events
        /\ \A k \in 1..Len(log) : log'[k] = log[k]
        /\ kept' = kept \cup {n} /\ Len(log') = n /\ 1..n = 1..Len(log) \cup {n}
    BY <2>1 DEF Records, Says
  <2>4. kept = 1..Len(log)
    BY <1>1, <2>2, <2>3
  <2>5. \A k \in kept : log'[k] = log[k] /\ (Counts(k)' <=> Counts(k)) /\ log[k].occurred \in Nat
    BY <2>2, <2>3, <2>4, EventFields DEF Counts
  <2>6. /\ r.status \in {"firing", "resolved", "test"} /\ e.status = r.status
        /\ e.occurred = r.occurred /\ e.occurred \in Nat
        /\ (e.recovers <=> (e.status = "resolved" /\ Reason(r, at) = ""))
        /\ incident' = UpdatedIncident(r, at)
    BY <2>1, <2>3, RequestFields, EventFields DEF Records, Says, Statuses, Lifecycle
  <2>7. Counts(n)' <=> (r.status = "firing" \/ (r.status = "resolved" /\ Reason(r, at) = ""))
    BY <2>3, <2>6 DEF Counts
  <2>8. ASSUME i # n
        PROVE  Latest(i)
    BY <1>1, <2>3, <2>5, <2>8 DEF Latest
  <2>9. ASSUME i # n
        PROVE  incident.state = log'[i].status
    BY <2>3, <2>4, <2>5, <2>8, <2>9, <1>1 DEF FollowsCounted
  <2>10. CASE r.status = "test" \/ Reason(r, at) = "orphan_resolved"
    <3>1. incident' = incident /\ ~Counts(n)'
      BY <2>6, <2>7, <2>10, Moved, Decision
    <3>2. i # n
      BY <1>1, <3>1 DEF Latest
    <3> QED
      BY <2>9, <3>1, <3>2
  <2>11. CASE r.status # "test" /\ Stale(r)
    <3>1. Reason(r, at) = "stale_event"
      BY <2>11, Decision
    <3>2. incident' = incident
      BY <2>6, <3>1, <2>11, Moved
    <3>3. PICK k \in kept : Counts(k) /\ r.occurred < log[k].occurred
      BY <2>11 DEF Stale
    <3>4. i # n
      <4>1. SUFFICES ASSUME i = n PROVE FALSE
        OBVIOUS
      <4>2. k \in kept' /\ Counts(k)' /\ log'[k].occurred = log[k].occurred
            /\ log[k].occurred \in Nat /\ log'[n].occurred = r.occurred /\ r.occurred \in Nat
        BY <2>3, <2>5, <2>6, <3>3
      <4>3. log'[k].occurred < log'[n].occurred \/ log'[k].occurred = log'[n].occurred
        BY <1>1, <4>1, <4>2 DEF Latest
      <4> QED
        BY <3>3, <4>2, <4>3
    <3> QED
      BY <2>9, <3>2, <3>4
  <2>12. CASE /\ r.status # "test" /\ ~Stale(r)
              /\ r.status = "firing" \/ Reason(r, at) = ""
    <3>1. Counts(n)'
      BY <2>6, <2>7, <2>12
    <3>2. i = n
      <4>1. SUFFICES ASSUME i # n PROVE FALSE
        OBVIOUS
      <4>2. i \in kept /\ i \in 1..Len(log) /\ i < n /\ i \in Nat
        BY <2>2, <2>3, <4>1, <1>1
      <4>3. Counts(i) /\ log'[i] = log[i] /\ log[i].occurred \in Nat
        BY <2>5, <2>8, <4>1, <4>2 DEF Latest
      <4>4. ~(r.occurred < log[i].occurred)
        BY <2>12, <4>2, <4>3 DEF Stale
      <4>5. n \in kept' /\ log'[n].occurred = r.occurred /\ r.occurred \in Nat
        BY <2>3, <2>6
      <4>6. \/ log'[n].occurred < log'[i].occurred
            \/ log'[n].occurred = log'[i].occurred /\ n <= i
        BY <1>1, <3>1, <4>5 DEF Latest
      <4> QED
        BY <2>3, <4>2, <4>3, <4>4, <4>5, <4>6
    <3>3. Reason(r, at) # "stale_event" /\ (r.status = "firing" => Reason(r, at) # "orphan_resolved")
      BY <2>12, Decision
    <3>4. incident'.state = r.status
      <4>1. r.status # "test" /\ Reason(r, at) \in {"", "dedupe_window"}
        BY <2>6, <2>12, <3>3, Decision
      <4>2. PICK f \in {incident.first, at}, m \in {incident.notified, at} :
               UpdatedIncident(r, at) = [state |-> r.status, first |-> f, notified |-> m]
        BY <4>1, MovedRow
      <4>3. UpdatedIncident(r, at).state = r.status
        BY <4>2
      <4> QED
        BY <2>6, <4>3
    <3> QED
      BY <2>3, <2>6, <3>2, <3>4
  <2> QED
    BY <2>6, <2>10, <2>11, <2>12, Decision
<1>2. ASSUME NEW h \in Handlers, NEW r \in Requests, NEW silenced \in BOOLEAN,
             Commit(h, r, silenced), ~Known(r)
      PROVE  FollowsCounted'
  <2>1. (kept' = 1..Len(log') => \A i \in kept' : Latest(i)' => incident'.state = log'[i].status)
    BY <1>1, <1>2
  <2> QED
    BY <2>1 DEF FollowsCounted
<1>3. ASSUME log' = log, kept' = kept, incident' = incident
      PROVE  FollowsCounted'
  BY <1>3 DEF FollowsCounted, Latest, Counts
<1>4. ASSUME NEW h \in Handlers, NEW r \in Requests, NEW silenced \in BOOLEAN,
             Commit(h, r, silenced), Known(r)
      PROVE  log' = log /\ kept' = kept /\ incident' = incident
  BY <1>4 DEF Commit
<1>5. ASSUME NEW h \in Handlers, Begin(h) \/ Refuse(h)
      PROVE  log' = log /\ kept' = kept /\ incident' = incident
  BY <1>5 DEF Begin, Refuse
<1>6. ASSUME NEW unfinished \in SUBSET kept, Prune(unfinished)
      PROVE  FollowsCounted'
  <2>1. kept \subseteq 1..Len(log)
    BY DEF TypeOK
  <2>2. log' = log /\ kept' \subseteq kept /\ kept' # kept
    BY <1>6 DEF Prune
  <2>3. kept' # 1..Len(log')
    BY <2>1, <2>2
  <2> QED
    BY <2>3 DEF FollowsCounted
<1>7. ASSUME Tick \/ UNCHANGED vars
      PROVE  log' = log /\ kept' = kept /\ incident' = incident
  BY <1>7 DEF Tick, vars
<1> QED
  BY <1>2, <1>3, <1>4, <1>5, <1>6, <1>7 DEF Next

(* What the decision does not compare with: a recovery that closed nothing *)
(* was out of date, by an event that counts, or an orphan, and after an    *)
(* orphan the incident is only active again through further news.          *)
OrphanThenNews ==
    \A i \in 1..Len(log) :
        log[i].reason = "orphan_resolved" /\ incident.state = "firing" =>
            \E j \in (i + 1)..Len(log) : News(j)
StaleThroughCounted ==
    \A i \in 1..Len(log) : log[i].reason = "stale_event" =>
        \E j \in 1..(i - 1) : Counts(j) /\ log[i].occurred < log[j].occurred
RecoversOrNot ==
    \A i \in 1..Len(log) : log[i].status = "resolved" =>
        log[i].recovers \/ log[i].reason \in {"stale_event", "orphan_resolved"}
UncountedInv == OrphanThenNews /\ StaleThroughCounted /\ RecoversOrNot

LEMMA UncountedKept ==
  ASSUME TypeOK, UncountedInv, [Next]_vars
  PROVE  UncountedInv'
<1>1. ASSUME NEW h \in Handlers, NEW r \in Requests, NEW silenced \in BOOLEAN,
             Commit(h, r, silenced), ~Known(r)
      PROVE  UncountedInv'
  <2>1. PICK e, n, at : Records(h, r, e, n, at)
    BY <1>1, CommitRecords
  <2>2. Len(log) \in Nat /\ kept \subseteq 1..Len(log) /\ log \in Seq(Events)
    BY DEF TypeOK
  <2>3. /\ n = Len(log) + 1 /\ n \in Nat /\ Len(log') = n /\ log'[n] = e
        /\ 1..Len(log') = 1..Len(log) \cup {n}
        /\ \A k \in 1..Len(log) : log'[k] = log[k]
        /\ incident' = UpdatedIncident(r, at)
    BY <2>1 DEF Records, Says
  <2>4. /\ r.status \in {"firing", "resolved", "test"} /\ e.status = r.status
        /\ e.occurred = r.occurred
        /\ (e.reason \in {"", "silence"} <=> Reason(r, at) = "")
        /\ (e.reason = "stale_event" <=> Reason(r, at) = "stale_event")
        /\ (e.reason = "orphan_resolved" <=> Reason(r, at) = "orphan_resolved")
        /\ (e.recovers <=> (e.status = "resolved" /\ Reason(r, at) = ""))
    BY <2>1, RequestFields DEF Records, Says, Statuses, Lifecycle
  <2>5. \A k \in 1..Len(log) : (News(k)' <=> News(k)) /\ (Counts(k)' <=> Counts(k))
    BY <2>3 DEF News, Counts
  <2>6. \A i \in 1..Len(log) : \A j \in 1..(i - 1) : j \in 1..Len(log)
    BY <2>2
  <2>7. \A i \in 1..Len(log) : (i + 1)..Len(log) \subseteq 1..Len(log)
    BY <2>2
  <2>8. \A i \in 1..Len(log) : (i + 1)..n = (i + 1)..Len(log) \cup {n}
    BY <2>2, <2>3
  <2>9. OrphanThenNews'
    <3>1. ASSUME incident'.state = "firing", incident.state # "firing"
          PROVE  News(n)'
      <4>1. CASE r.status = "test" \/ Reason(r, at) \in {"stale_event", "orphan_resolved"}
        BY <2>3, <3>1, <4>1, Moved, Decision
      <4>2. CASE r.status = "firing" /\ Reason(r, at) = ""
        BY <2>3, <2>4, <4>2 DEF News
      <4>3. CASE Reason(r, at) = "dedupe_window"
        BY <3>1, <4>3, Decision
      <4>4. CASE r.status = "resolved" /\ Reason(r, at) = ""
        <5>1. incident' = [state |-> "resolved",
                           first |-> IF incident.state = "firing" THEN incident.first ELSE at,
                           notified |-> at]
          BY <2>3, <4>4, Moved
        <5>2. incident'.state = "resolved"
          BY <5>1
        <5> QED
          BY <3>1, <5>2
      <4> QED
        BY <2>4, <4>1, <4>2, <4>3, <4>4, Decision
    <3>2. ASSUME NEW i \in 1..Len(log), log[i].reason = "orphan_resolved",
                 incident'.state = "firing"
          PROVE  \E j \in (i + 1)..n : News(j)'
      <4>1. CASE incident.state = "firing"
        <5>1. PICK j \in (i + 1)..Len(log) : News(j)
          BY <3>2, <4>1 DEF UncountedInv, OrphanThenNews
        <5>2. j \in 1..Len(log) /\ j \in (i + 1)..n
          BY <2>7, <2>8
        <5> QED
          BY <2>5, <5>1, <5>2
      <4>2. CASE incident.state # "firing"
        BY <2>8, <3>1, <3>2, <4>2
      <4> QED
        BY <4>1, <4>2
    <3>3. ASSUME e.reason = "orphan_resolved"
          PROVE  incident'.state # "firing"
      <4>1. Reason(r, at) = "orphan_resolved"
        BY <2>4, <3>3
      <4>2. incident.state # "firing"
        BY <4>1, Decision
      <4>3. incident' = incident
        BY <2>3, <2>4, <4>1, Moved, Decision
      <4> QED
        BY <4>2, <4>3
    <3> QED
      BY <2>3, <3>2, <3>3 DEF OrphanThenNews
  <2>10. StaleThroughCounted'
    <3>1. ASSUME NEW i \in 1..Len(log), log[i].reason = "stale_event"
          PROVE  \E j \in 1..(i - 1) : Counts(j)' /\ log'[i].occurred < log'[j].occurred
      <4>1. PICK j \in 1..(i - 1) : Counts(j) /\ log[i].occurred < log[j].occurred
        BY <3>1 DEF UncountedInv, StaleThroughCounted
      <4>2. j \in 1..Len(log)
        BY <2>6
      <4> QED
        BY <2>3, <2>5, <4>1, <4>2
    <3>2. ASSUME e.reason = "stale_event"
          PROVE  \E j \in 1..(n - 1) : Counts(j)' /\ log'[n].occurred < log'[j].occurred
      <4>1. Reason(r, at) = "stale_event"
        BY <2>4, <3>2
      <4>2. r.status # "test"
        BY <4>1, Decision
      <4>3. PICK j \in kept : Counts(j) /\ r.occurred < log[j].occurred
        BY <4>1, <4>2, Decision DEF Stale
      <4>4. j \in 1..Len(log) /\ j \in 1..(n - 1)
        BY <2>2, <2>3
      <4> QED
        BY <2>3, <2>4, <2>5, <4>3, <4>4
    <3> QED
      BY <2>3, <3>1, <3>2 DEF StaleThroughCounted
  <2>11. RecoversOrNot'
    <3>1. ASSUME e.status = "resolved"
          PROVE  e.recovers \/ e.reason \in {"stale_event", "orphan_resolved"}
      <4>1. Reason(r, at) # "dedupe_window"
        BY <2>4, <3>1, Decision
      <4> QED
        BY <2>4, <3>1, <4>1, Decision
    <3> QED
      BY <2>3, <3>1 DEF UncountedInv, RecoversOrNot
  <2> QED
    BY <2>9, <2>10, <2>11 DEF UncountedInv
<1>2. ASSUME log' = log, incident' = incident
      PROVE  UncountedInv'
  BY <1>2 DEF UncountedInv, OrphanThenNews, StaleThroughCounted, RecoversOrNot, News, Counts
<1>3. ASSUME NEW h \in Handlers, NEW r \in Requests, NEW silenced \in BOOLEAN,
             Commit(h, r, silenced), Known(r)
      PROVE  log' = log /\ incident' = incident
  BY <1>3 DEF Commit
<1>4. ASSUME NEW h \in Handlers, Begin(h) \/ Refuse(h)
      PROVE  log' = log /\ incident' = incident
  BY <1>4 DEF Begin, Refuse
<1>5. ASSUME NEW unfinished \in SUBSET kept, Prune(unfinished)
      PROVE  log' = log /\ incident' = incident
  BY <1>5 DEF Prune
<1>6. ASSUME Tick \/ UNCHANGED vars
      PROVE  log' = log /\ incident' = incident
  BY <1>6 DEF Tick, vars
<1> QED
  BY <1>1, <1>2, <1>3, <1>4, <1>5, <1>6 DEF Next

(* The producer's last word, if it counts, is the state; if it does not,   *)
(* it is no stale one, for what made it stale would be later, so it is an  *)
(* orphan, and the news after it is from before it.                        *)
LEMMA OnlyOrphans ==
  ASSUME TypeOK, FollowsCounted, UncountedInv
  PROVE  OnlyOrphansMislead
<1> SUFFICES ASSUME kept = 1..Len(log), NEW i \in kept, SaidLast(i),
                    (incident.state = "firing") # (log[i].status = "firing")
             PROVE  /\ log[i].reason = "orphan_resolved"
                    /\ \E j \in (i + 1)..Len(log) : News(j) /\ log[j].occurred < log[i].occurred
  BY DEF OnlyOrphansMislead
<1>1. Len(log) \in Nat /\ i \in 1..Len(log) /\ log \in Seq(Events)
  BY DEF TypeOK
<1>2. \A j \in 1..Len(log) : log[j] \in Events /\ log[j].occurred \in Nat
  BY <1>1, EventFields
<1>3. \A j \in 1..Len(log) : Counts(j) => log[j].status \in Lifecycle
  BY DEF Counts, Lifecycle
<1>4. ~Counts(i)
  <2>1. SUFFICES ASSUME Counts(i) PROVE FALSE
    OBVIOUS
  <2>2. Latest(i)
    BY <1>3, <2>1 DEF Latest, SaidLast
  <2>3. incident.state = log[i].status
    BY <2>2 DEF FollowsCounted
  <2> QED
    BY <2>3
<1>5. log[i].status = "resolved" /\ ~log[i].recovers
  BY <1>4 DEF Counts, SaidLast, Lifecycle
<1>6. log[i].reason # "stale_event"
  <2>1. SUFFICES ASSUME log[i].reason = "stale_event" PROVE FALSE
    OBVIOUS
  <2>2. PICK j \in 1..(i - 1) : Counts(j) /\ log[i].occurred < log[j].occurred
    BY <1>1, <2>1 DEF UncountedInv, StaleThroughCounted
  <2>3. j \in 1..Len(log)
    BY <1>1
  <2>4. log[j].occurred < log[i].occurred \/ log[j].occurred = log[i].occurred
    BY <1>3, <2>2, <2>3 DEF SaidLast
  <2> QED
    BY <1>1, <1>2, <2>2, <2>3, <2>4
<1>7. log[i].reason = "orphan_resolved"
  BY <1>1, <1>5, <1>6 DEF UncountedInv, RecoversOrNot
<1>8. incident.state = "firing"
  BY <1>5
<1>9. PICK j \in (i + 1)..Len(log) : News(j)
  BY <1>1, <1>7, <1>8 DEF UncountedInv, OrphanThenNews
<1>10. j \in 1..Len(log) /\ ~(j <= i)
  BY <1>1
<1>11. log[j].occurred < log[i].occurred
  BY <1>9, <1>10 DEF SaidLast, News, Lifecycle
<1> QED
  BY <1>7, <1>9, <1>11

(* However late and in whatever order the events of a key arrive, until    *)
(* the cleanup deletes some, the incident differs from what its producer   *)
(* said last only where that was a recovery without an incident and a      *)
(* firing from before it arrived after it.                                 *)
THEOREM MisledCorrect == Spec => []OnlyOrphansMislead
<1>1. Init => FollowsCounted /\ UncountedInv
  BY DEF Init, FollowsCounted, UncountedInv, OrphanThenNews, StaleThroughCounted, RecoversOrNot
<1> QED
  BY <1>1, FollowsKept, UncountedKept, OnlyOrphans, TypeInit, TypeKept, PTL DEF Spec

-----------------------------------------------------------------------------
(* The order of the clock readings.  A handler is under way for no longer  *)
(* than MaxDelay, an entry is never from the future, and one that is no    *)
(* longer in the table was past the retention when it went.                *)
HandlersInTime ==
    \A h \in Handlers : since[h] # Idle => since[h] <= clock /\ clock - since[h] <= MaxDelay
EntriesInTime ==
    /\ \A i \in 1..Len(log) : log[i].created <= clock
    /\ \A i \in 1..Len(log) : log[i].outcome = "queued" => log[i].reason = ""
DeletedWhenOld ==
    \A i \in 1..Len(log) : i \notin kept => log[i].created < clock - Retention

ClockInv == HandlersInTime /\ EntriesInTime /\ DeletedWhenOld

LEMMA ClockInit == Init => ClockInv
  BY DEF Init, ClockInv, HandlersInTime, EntriesInTime, DeletedWhenOld

\* A handler's clock reading, and an entry's, are numbers.
LEMMA Readings ==
  ASSUME TypeOK
  PROVE  /\ clock \in Nat /\ Len(log) \in Nat /\ kept \subseteq 1..Len(log)
         /\ \A h \in Handlers : since[h] \in Int /\ (since[h] # Idle => since[h] \in 0..MaxTime)
         /\ \A i \in 1..Len(log) : log[i] \in Events /\ log[i].created \in Nat
<1>1. clock \in Nat /\ Len(log) \in Nat /\ kept \subseteq 1..Len(log)
  BY Numbers DEF TypeOK
<1>2. \A h \in Handlers : since[h] \in {Idle} \cup 0..MaxTime
  BY DEF TypeOK
<1>3. \A h \in Handlers : since[h] \in Int /\ (since[h] # Idle => since[h] \in 0..MaxTime)
  BY <1>2, Numbers DEF Idle
<1>4. \A i \in 1..Len(log) : log[i] \in Events
  BY DEF TypeOK
<1> QED
  BY <1>1, <1>3, <1>4, EventFields

LEMMA ClockKept ==
  ASSUME TypeOK, ClockInv, [Next]_vars
  PROVE  ClockInv'
<1> USE DEF ClockInv
<1>1. ASSUME NEW h \in Handlers, Begin(h)
      PROVE  ClockInv'
  <2>1. HandlersInTime'
    <3>1. ASSUME NEW g \in Handlers, since'[g] # Idle
          PROVE  since'[g] <= clock' /\ clock' - since'[g] <= MaxDelay
      <4>1. CASE g = h
        <5>1. since'[g] = clock /\ clock' = clock
          BY <1>1, <4>1 DEF Begin, TypeOK
        <5> QED
          BY <5>1, Readings, Numbers
      <4>2. CASE g # h
        BY <1>1, <3>1, <4>2 DEF Begin, TypeOK, HandlersInTime
      <4> QED
        BY <4>1, <4>2
    <3> QED
      BY <3>1 DEF HandlersInTime
  <2>2. EntriesInTime' /\ DeletedWhenOld'
    BY <1>1 DEF Begin, EntriesInTime, DeletedWhenOld
  <2> QED
    BY <2>1, <2>2
<1>2. ASSUME NEW h \in Handlers, since' = [since EXCEPT ![h] = Idle], clock' = clock
      PROVE  HandlersInTime'
  BY <1>2 DEF TypeOK, HandlersInTime
<1>3. ASSUME NEW h \in Handlers, NEW r \in Requests, NEW silenced \in BOOLEAN,
             Commit(h, r, silenced), ~Known(r)
      PROVE  ClockInv'
  <2>1. /\ \E e, n, at : Records(h, r, e, n, at)
        /\ since[h] # Idle
    BY <1>3, CommitRecords
  <2>2. PICK e, n, at : Records(h, r, e, n, at)
    BY <2>1
  <2>3. HandlersInTime'
    BY <1>2, <1>3 DEF Commit
  <2>4. /\ 1..Len(log') = 1..Len(log) \cup {n} /\ log'[n] = e
        /\ \A i \in 1..Len(log) : log'[i] = log[i]
        /\ kept' = kept \cup {n} /\ clock' = clock
        /\ e.created = since[h] /\ (e.outcome = "queued" => e.reason = "")
    BY <2>2 DEF Records, Says
  <2>5. since[h] <= clock
    BY <2>1 DEF HandlersInTime
  <2>6. EntriesInTime'
    BY <2>4, <2>5 DEF EntriesInTime
  <2>7. DeletedWhenOld'
    BY <2>4 DEF DeletedWhenOld
  <2> QED
    BY <2>3, <2>6, <2>7
<1>4. ASSUME NEW h \in Handlers, NEW r \in Requests, NEW silenced \in BOOLEAN,
             Commit(h, r, silenced), Known(r)
      PROVE  ClockInv'
  <2>1. HandlersInTime'
    BY <1>2, <1>4 DEF Commit
  <2> QED
    BY <1>4, <2>1 DEF Commit, EntriesInTime, DeletedWhenOld
<1>5. ASSUME NEW h \in Handlers, Refuse(h)
      PROVE  ClockInv'
  <2>1. HandlersInTime'
    BY <1>2, <1>5 DEF Refuse
  <2> QED
    BY <1>5, <2>1 DEF Refuse, EntriesInTime, DeletedWhenOld
<1>6. ASSUME NEW unfinished \in SUBSET kept, Prune(unfinished)
      PROVE  ClockInv'
  <2>1. /\ clock' = clock /\ since' = since /\ log' = log
        /\ \A i \in kept \ kept' : log[i].created < clock - Retention
    BY <1>6 DEF Prune
  <2> QED
    BY <2>1 DEF HandlersInTime, EntriesInTime, DeletedWhenOld
<1>7. CASE Tick
  <2>1. /\ clock' = clock + 1 /\ since' = since /\ log' = log /\ kept' = kept
        /\ \A h \in Handlers : since[h] # Idle => clock - since[h] < MaxDelay
    BY <1>7 DEF Tick
  <2>2. HandlersInTime'
    BY <2>1, Readings, Numbers DEF HandlersInTime
  <2>3. EntriesInTime'
    <3>1. \A i \in 1..Len(log) : log[i].created \in Nat /\ log[i].created <= clock
      BY Readings DEF EntriesInTime
    <3>2. clock' = clock + 1 /\ clock \in Nat
      BY <2>1, Readings
    <3>3. \A i \in 1..Len(log) : log[i].created <= clock'
      BY <3>1, <3>2
    <3> QED
      BY <2>1, <3>3 DEF EntriesInTime
  <2>4. DeletedWhenOld'
    BY <2>1, Readings, Numbers DEF DeletedWhenOld
  <2> QED
    BY <2>2, <2>3, <2>4
<1>8. CASE UNCHANGED vars
  BY <1>8 DEF vars, HandlersInTime, EntriesInTime, DeletedWhenOld
<1> QED
  BY <1>1, <1>3, <1>4, <1>5, <1>6, <1>7, <1>8 DEF Next

-----------------------------------------------------------------------------
(* The incident's row and the log.  The row says "firing" exactly while a  *)
(* firing that was decided as news (queued, or kept back by a silence) has *)
(* had no recovery after it, and its two times are clock readings of two   *)
(* entries, f and m, with all of those firings between them.               *)
Still(i) == \A k \in i..Len(log) : log[k].status = "resolved" => ~log[k].recovers
Spans(f, m) ==
    /\ f <= m /\ Still(f) /\ News(f) /\ News(m)
    /\ log[f].created = incident.first /\ log[m].created = incident.notified
    /\ \A i \in 1..Len(log) : News(i) /\ Still(i) => f <= i /\ i <= m

NewsOpen == \A i \in 1..Len(log) : News(i) /\ Still(i) => incident.state = "firing"
OpenSpan == incident.state = "firing" => \E f, m \in 1..Len(log) : Spans(f, m)
IncidentInv == NewsOpen /\ OpenSpan

LEMMA IncidentInit == Init => IncidentInv
  BY DEF Init, IncidentInv, NewsOpen, OpenSpan

\* What a recorded event changes of the above.
LEMMA StillAfter ==
  ASSUME TypeOK, NEW h \in Handlers, NEW r \in Requests, NEW e, NEW n, NEW at,
         Records(h, r, e, n, at)
  PROVE  /\ \A i \in 1..Len(log) : /\ (Still(i)' <=> (Still(i) /\ (e.status = "resolved" => ~e.recovers)))
                                   /\ (News(i)' <=> News(i))
         /\ (Still(n)' <=> (e.status = "resolved" => ~e.recovers))
         /\ (News(n)' <=> (r.status = "firing" /\ Reason(r, at) = ""))
<1>1. /\ n = Len(log) + 1 /\ Len(log') = n /\ log'[n] = e /\ Len(log) \in Nat /\ n \in Nat
      /\ \A k \in 1..Len(log) : log'[k] = log[k]
      /\ e.status = r.status /\ (e.reason \in {"", "silence"} <=> Reason(r, at) = "")
  BY Readings DEF Records, Says
<1>0. n = Len(log) + 1 /\ n \in Nat /\ Len(log) \in Nat
  BY <1>1
<1>2. ASSUME NEW i \in 1..Len(log)
      PROVE  /\ (Still(i)' <=> (Still(i) /\ (e.status = "resolved" => ~e.recovers)))
             /\ (News(i)' <=> News(i))
  <2>1. i..n = i..Len(log) \cup {n}
    BY <1>0
  <2>3. \A k \in i..Len(log) : k \in 1..Len(log)
    BY <1>0
  <2>2. (Still(i)' <=> (Still(i) /\ (e.status = "resolved" => ~e.recovers)))
    BY <1>1, <2>1, <2>3 DEF Still
  <2> QED
    BY <1>1, <2>2 DEF News
<1>3. n..n = {n}
  BY <1>0
<1>4. Still(n)' <=> (e.status = "resolved" => ~e.recovers)
  BY <1>1, <1>3 DEF Still
<1>5. News(n)' <=> (r.status = "firing" /\ Reason(r, at) = "")
  BY <1>1 DEF News
<1> QED
  BY <1>2, <1>4, <1>5

LEMMA IncidentKept ==
  ASSUME TypeOK, IncidentInv, [Next]_vars
  PROVE  IncidentInv'
<1>1. ASSUME NEW h \in Handlers, NEW r \in Requests, NEW silenced \in BOOLEAN,
             Commit(h, r, silenced), ~Known(r)
      PROVE  IncidentInv'
  <2>1. PICK e, n, at : Records(h, r, e, n, at)
    BY <1>1, CommitRecords
  <2>2. /\ n = Len(log) + 1 /\ Len(log) \in Nat /\ n \in Nat /\ log'[n] = e /\ e.created = at
        /\ 1..Len(log') = 1..Len(log) \cup {n} /\ n \in 1..Len(log')
        /\ \A k \in 1..Len(log) : log'[k] = log[k]
        /\ incident' = UpdatedIncident(r, at)
        /\ e.status = r.status /\ (e.recovers <=> (e.status = "resolved" /\ Reason(r, at) = ""))
    BY <2>1, Readings DEF Records, Says
  <2>3. /\ \A i \in 1..Len(log) : /\ (Still(i)' <=> (Still(i) /\ (e.status = "resolved" => ~e.recovers)))
                                  /\ (News(i)' <=> News(i))
        /\ (Still(n)' <=> (e.status = "resolved" => ~e.recovers))
        /\ (News(n)' <=> (r.status = "firing" /\ Reason(r, at) = ""))
    BY <2>1, StillAfter
  <2>0. /\ n \in Nat /\ Len(log) \in Nat /\ n <= n
         /\ \A i \in 1..Len(log) : i \in Nat /\ i <= n
    <3>1. n = Len(log) + 1 /\ n \in Nat /\ Len(log) \in Nat
      BY <2>2
    <3> QED
      BY <3>1
  <2>4. ASSUME e.status = "resolved" => ~e.recovers, ~News(n)',
               incident'.state = incident.state,
               incident.state = "firing" => /\ incident'.first = incident.first
                                            /\ incident'.notified = incident.notified
        PROVE  IncidentInv'
    <3>1. NewsOpen'
      BY <2>2, <2>3, <2>4 DEF IncidentInv, NewsOpen
    <3>2. ASSUME incident'.state = "firing"
          PROVE  \E f, m \in 1..Len(log') : Spans(f, m)'
      <4>1. PICK f, m \in 1..Len(log) : Spans(f, m)
        BY <2>4, <3>2 DEF IncidentInv, OpenSpan
      <4>2. f <= m /\ Still(f)' /\ log'[f].created = incident'.first
            /\ log'[m].created = incident'.notified
        BY <2>2, <2>3, <2>4, <3>2, <4>1 DEF Spans
      <4>3. \A i \in 1..Len(log') : News(i)' /\ Still(i)' => f <= i /\ i <= m
        BY <2>2, <2>3, <2>4, <4>1 DEF Spans
      <4>4. f \in 1..Len(log') /\ m \in 1..Len(log')
        BY <2>2
      <4>5. News(f)' /\ News(m)'
        BY <2>3, <4>1 DEF Spans
      <4> QED
        BY <4>2, <4>3, <4>4, <4>5 DEF Spans
    <3> QED
      BY <3>1, <3>2 DEF IncidentInv, OpenSpan
  <2>5. CASE r.status = "test" \/ Reason(r, at) \in {"stale_event", "orphan_resolved"}
    <3>1. incident' = incident
      BY <2>2, <2>5, Moved, Decision
    <3>2. ~News(n)' /\ (e.status = "resolved" => ~e.recovers)
      BY <2>2, <2>3, <2>5
    <3> QED
      BY <2>4, <3>1, <3>2
  <2>6. CASE r.status = "firing" /\ Reason(r, at) = "dedupe_window"
    <3>1. /\ incident' = [state |-> "firing", first |-> incident.first,
                          notified |-> incident.notified]
          /\ incident.state = "firing"
      BY <2>2, <2>6, Moved, Decision
    <3>2. ~News(n)' /\ (e.status = "resolved" => ~e.recovers)
      BY <2>2, <2>3, <2>6
    <3>3. incident'.state = "firing" /\ incident'.first = incident.first
          /\ incident'.notified = incident.notified
      BY <3>1
    <3> QED
      BY <2>4, <3>1, <3>2, <3>3
  <2>7. CASE r.status = "resolved" /\ Reason(r, at) = ""
    <3>1. e.status = "resolved" /\ e.recovers
      BY <2>2, <2>7
    <3>2. \A i \in 1..Len(log') : ~Still(i)'
      BY <2>2, <2>3, <3>1
    <3>3. incident' = [state |-> "resolved",
                       first |-> IF incident.state = "firing" THEN incident.first ELSE at,
                       notified |-> at]
      BY <2>2, <2>7, Moved
    <3>4. incident'.state # "firing"
      BY <3>3
    <3> QED
      BY <3>2, <3>4 DEF IncidentInv, NewsOpen, OpenSpan
  <2>8. CASE r.status = "firing" /\ Reason(r, at) = ""
    <3>1. incident' = [state |-> "firing",
                       first |-> IF incident.state = "firing" THEN incident.first ELSE at,
                       notified |-> at]
      BY <2>2, <2>8, Moved
    <3>2. /\ incident'.state = "firing" /\ incident'.notified = at
          /\ (incident.state = "firing" => incident'.first = incident.first)
          /\ (incident.state # "firing" => incident'.first = at)
      BY <3>1
    <3>3. /\ \A i \in 1..Len(log) : (Still(i)' <=> Still(i)) /\ (News(i)' <=> News(i))
          /\ Still(n)'
      BY <2>2, <2>3, <2>8
    <3>4. \A i \in 1..Len(log') : i <= n
      BY <2>2, <2>0
    <3>5. \E f, m \in 1..Len(log') : Spans(f, m)'
      <4>1. CASE incident.state = "firing"
        <5>1. PICK f, m \in 1..Len(log) : Spans(f, m)
          BY <4>1 DEF IncidentInv, OpenSpan
        <5>2. f <= n /\ f \in 1..Len(log')
          BY <2>2, <2>0
        <5>3. Still(f)' /\ log'[f].created = incident'.first /\ log'[n].created = incident'.notified
          BY <2>2, <3>2, <3>3, <4>1, <5>1 DEF Spans
        <5>4. ASSUME NEW i \in 1..Len(log'), News(i)', Still(i)'
              PROVE  f <= i /\ i <= n
          BY <2>2, <3>3, <3>4, <5>1, <5>2, <5>4 DEF Spans
        <5>5. News(f)' /\ News(n)'
          BY <2>3, <2>8, <5>1 DEF Spans
        <5> QED
          BY <2>2, <5>2, <5>3, <5>4, <5>5 DEF Spans
      <4>2. CASE incident.state # "firing"
        <5>1. \A i \in 1..Len(log) : ~(News(i) /\ Still(i))
          BY <4>2 DEF IncidentInv, NewsOpen
        <5>2. ASSUME NEW i \in 1..Len(log'), News(i)', Still(i)'
              PROVE  n <= i /\ i <= n
          BY <2>2, <3>3, <3>4, <5>1, <5>2
        <5>3. Still(n)' /\ log'[n].created = incident'.first /\ log'[n].created = incident'.notified
          BY <2>2, <3>2, <3>3, <4>2
        <5>4. News(n)'
          BY <2>3, <2>8
        <5> QED
          BY <2>2, <2>0, <5>2, <5>3, <5>4 DEF Spans
      <4> QED
        BY <4>1, <4>2
    <3> QED
      BY <3>2, <3>5 DEF IncidentInv, NewsOpen, OpenSpan
  <2>9. r.status \in {"firing", "resolved", "test"}
    BY RequestFields DEF Statuses, Lifecycle
  <2> QED
    BY <2>5, <2>6, <2>7, <2>8, <2>9, Decision
<1>2. ASSUME log' = log, incident' = incident
      PROVE  IncidentInv'
  <2>1. \A i : (News(i)' <=> News(i)) /\ (Still(i)' <=> Still(i))
    BY <1>2 DEF News, Still
  <2>2. \A f, m : Spans(f, m)' <=> Spans(f, m)
    BY <1>2, <2>1 DEF Spans
  <2> QED
    BY <1>2, <2>1, <2>2 DEF IncidentInv, NewsOpen, OpenSpan
<1>3. ASSUME NEW h \in Handlers, NEW r \in Requests, NEW silenced \in BOOLEAN,
             Commit(h, r, silenced), Known(r)
      PROVE  log' = log /\ incident' = incident
  BY <1>3 DEF Commit
<1>4. ASSUME NEW h \in Handlers, Begin(h) \/ Refuse(h)
      PROVE  log' = log /\ incident' = incident
  BY <1>4 DEF Begin, Refuse
<1>5. ASSUME NEW unfinished \in SUBSET kept, Prune(unfinished)
      PROVE  log' = log /\ incident' = incident
  BY <1>5 DEF Prune
<1>6. ASSUME Tick \/ UNCHANGED vars
      PROVE  log' = log /\ incident' = incident
  BY <1>6 DEF Tick, vars
<1> QED
  BY <1>1, <1>2, <1>3, <1>4, <1>5, <1>6 DEF Next

-----------------------------------------------------------------------------
(* The dedupe window.                                                      *)

(* A firing swallowed now falls into the span of the incident: its last    *)
(* news, m, is what the window is counted from, and the queued firing i    *)
(* that it does not exceed was read at or after the first, f.              *)
LEMMA NewSwallowed ==
  ASSUME TypeOK, IncidentInv,
         NEW h \in Handlers, NEW r \in Requests, NEW e, NEW n, NEW at,
         Records(h, r, e, n, at), e.reason = "dedupe_window"
  PROVE  /\ \E m \in 1..(n - 1) : /\ News(m)' /\ SameIncident(m, n)'
                                  /\ log'[n].created - log'[m].created < Window
         /\ \E i \in 1..(n - 1) :
               /\ log'[i].status = "firing" /\ log'[i].outcome = "queued"
               /\ log'[i].severity >= log'[n].severity
               /\ \/ SameIncident(i, n)'
                  \/ \E f \in (i + 1)..(n - 1) :
                        SameIncident(f, n)' /\ log'[f].created <= log'[i].created
<1>1. Len(log) \in Nat /\ kept \subseteq 1..Len(log)
  BY Readings
<1>2. /\ n = Len(log) + 1 /\ n \in Nat /\ Len(log') = n /\ log'[n] = e /\ e \in Events
      /\ \A k \in 1..Len(log) : log'[k] = log[k]
      /\ e.status = r.status /\ e.severity = r.severity /\ e.created = at
  BY DEF Records, Says
<1>3. /\ r.status = "firing" /\ incident.state = "firing"
      /\ ~Escalates(r) /\ WithinWindow(at)
  BY Decision DEF Records, Says
<1>4. 1..(n - 1) = 1..Len(log)
  BY <1>1, <1>2
<1>5. PICK f \in 1..Len(log), m \in 1..Len(log) : Spans(f, m)
  BY <1>3 DEF IncidentInv, OpenSpan
<1>6. ASSUME NEW k \in 1..Len(log), f <= k
      PROVE  SameIncident(k, n)'
  <2>1. k < n /\ k..n = k..Len(log) \cup {n}
    BY <1>1, <1>2
  <2>2. k..Len(log) \subseteq f..Len(log) /\ k..Len(log) \subseteq 1..Len(log)
    BY <1>1, <1>6
  <2>3. \A l \in k..Len(log) : log'[l].status = "resolved" => ~log'[l].recovers
    BY <1>2, <1>5, <2>2 DEF Spans, Still
  <2>4. log'[n].status # "resolved"
    BY <1>2, <1>3
  <2> QED
    BY <2>1, <2>3, <2>4 DEF SameIncident
<1>7. /\ m \in 1..(n - 1) /\ News(m)' /\ SameIncident(m, n)'
      /\ log'[n].created - log'[m].created < Window
  <2>1. f <= m /\ News(m) /\ log[m].created = incident.notified
    BY <1>5 DEF Spans
  <2>2. at - incident.notified < Window
    BY <1>3 DEF WithinWindow
  <2>3. News(m)'
    BY <1>2, <2>1 DEF News
  <2>4. log'[n].created - log'[m].created < Window
    BY <1>2, <2>1, <2>2
  <2> QED
    BY <1>4, <1>6, <2>1, <2>3, <2>4
<1>8. PICK i \in kept : Notified(i) /\ ~(r.severity > log[i].severity)
  BY <1>3 DEF Escalates
<1>9. i \in 1..Len(log) /\ i \in 1..(n - 1)
  BY <1>1, <1>4
<1>10. /\ log'[i].status = "firing" /\ log'[i].outcome = "queued"
       /\ log'[i].severity >= log'[n].severity
  <2>1. log[i].severity \in Nat /\ e.severity \in Nat
    BY <1>2, <1>9, Readings, EventFields
  <2>2. log[i].severity >= e.severity
    BY <1>2, <1>8, <2>1
  <2> QED
    BY <1>2, <1>8, <1>9, <2>2 DEF Notified
<1>11. \/ SameIncident(i, n)'
       \/ \E g \in (i + 1)..(n - 1) :
             SameIncident(g, n)' /\ log'[g].created <= log'[i].created
  <2>1. CASE f <= i
    BY <1>6, <1>9, <2>1
  <2>2. CASE ~(f <= i)
    <3>1. f \in (i + 1)..(n - 1)
      BY <1>1, <1>2, <1>9, <2>2
    <3>2. f <= f
      OBVIOUS
    <3>3. log[f].created = incident.first /\ log[i].created >= incident.first
      BY <1>5, <1>8 DEF Spans, Notified
    <3>4. log[f].created \in Nat /\ log[i].created \in Nat
      BY <1>9, Readings
    <3>5. log[f].created <= log[i].created
      BY <3>3, <3>4
    <3>6. SameIncident(f, n)'
      BY <1>6, <3>2
    <3> QED
      BY <1>2, <1>9, <3>1, <3>5, <3>6
  <2> QED
    BY <2>1, <2>2
<1> QED
  BY <1>7, <1>9, <1>10, <1>11

LEMMA SwallowKept ==
  ASSUME TypeOK, IncidentInv, SwallowedIsOldNews, [Next]_vars
  PROVE  SwallowedIsOldNews'
<1>1. ASSUME NEW h \in Handlers, NEW r \in Requests, NEW silenced \in BOOLEAN,
             Commit(h, r, silenced), ~Known(r)
      PROVE  SwallowedIsOldNews'
  <2>1. PICK e, n, at : Records(h, r, e, n, at)
    BY <1>1, CommitRecords
  <2>2. /\ Len(log) \in Nat /\ Len(log') = n /\ log'[n] = e
        /\ 1..Len(log') = 1..Len(log) \cup {n}
        /\ \A k \in 1..Len(log) : log'[k] = log[k]
    BY <2>1, Readings DEF Records, Says
  <2>3. ASSUME NEW j \in 1..Len(log)
        PROVE  /\ log'[j] = log[j]
               /\ \A i \in 1..(j - 1) : /\ log'[i] = log[i] /\ (News(i)' <=> News(i))
                                        /\ (SameIncident(i, j)' <=> SameIncident(i, j))
    <3>1. \A i \in 1..(j - 1) : i \in 1..Len(log) /\ i..j \subseteq 1..Len(log)
      BY <2>2
    <3> QED
      BY <2>2, <3>1 DEF News, SameIncident
  <2>4. ASSUME NEW j \in 1..Len(log), log'[j].reason = "dedupe_window"
        PROVE  /\ \E m \in 1..(j - 1) : /\ News(m)' /\ SameIncident(m, j)'
                                        /\ log'[j].created - log'[m].created < Window
               /\ \E i \in 1..(j - 1) :
                     /\ log'[i].status = "firing" /\ log'[i].outcome = "queued"
                     /\ log'[i].severity >= log'[j].severity
                     /\ \/ SameIncident(i, j)'
                        \/ \E f \in (i + 1)..(j - 1) :
                              SameIncident(f, j)' /\ log'[f].created <= log'[i].created
    <3>1. /\ \E m \in 1..(j - 1) : /\ News(m) /\ SameIncident(m, j)
                                   /\ log[j].created - log[m].created < Window
          /\ \E i \in 1..(j - 1) :
                /\ log[i].status = "firing" /\ log[i].outcome = "queued"
                /\ log[i].severity >= log[j].severity
                /\ \/ SameIncident(i, j)
                   \/ \E f \in (i + 1)..(j - 1) :
                         SameIncident(f, j) /\ log[f].created <= log[i].created
      BY <2>3, <2>4 DEF SwallowedIsOldNews
    <3>2. \A i \in 1..(j - 1) : (i + 1)..(j - 1) \subseteq 1..(j - 1)
      BY <2>2
    <3>3. \E m \in 1..(j - 1) : /\ News(m)' /\ SameIncident(m, j)'
                                /\ log'[j].created - log'[m].created < Window
      BY <2>3, <3>1
    <3>4. PICK i \in 1..(j - 1) :
             /\ log[i].status = "firing" /\ log[i].outcome = "queued"
             /\ log[i].severity >= log[j].severity
             /\ \/ SameIncident(i, j)
                \/ \E f \in (i + 1)..(j - 1) :
                      SameIncident(f, j) /\ log[f].created <= log[i].created
      BY <3>1
    <3>5. ASSUME NEW f \in (i + 1)..(j - 1), SameIncident(f, j), log[f].created <= log[i].created
          PROVE  SameIncident(f, j)' /\ log'[f].created <= log'[i].created
      <4>1. f \in 1..(j - 1)
        BY <3>2
      <4> QED
        BY <2>3, <3>5, <4>1
    <3>6. \/ SameIncident(i, j)'
          \/ \E f \in (i + 1)..(j - 1) :
                SameIncident(f, j)' /\ log'[f].created <= log'[i].created
      BY <2>3, <3>4, <3>5
    <3>7. /\ log'[i].status = "firing" /\ log'[i].outcome = "queued"
          /\ log'[i].severity >= log'[j].severity
      BY <2>3, <3>4
    <3> QED
      BY <3>3, <3>6, <3>7
  <2>5. ASSUME log'[n].reason = "dedupe_window"
        PROVE  /\ \E m \in 1..(n - 1) : /\ News(m)' /\ SameIncident(m, n)'
                                        /\ log'[n].created - log'[m].created < Window
               /\ \E i \in 1..(n - 1) :
                     /\ log'[i].status = "firing" /\ log'[i].outcome = "queued"
                     /\ log'[i].severity >= log'[n].severity
                     /\ \/ SameIncident(i, n)'
                        \/ \E f \in (i + 1)..(n - 1) :
                              SameIncident(f, n)' /\ log'[f].created <= log'[i].created
    BY <2>1, <2>2, <2>5, NewSwallowed
  <2> QED
    BY <2>2, <2>4, <2>5 DEF SwallowedIsOldNews
<1>2. ASSUME log' = log
      PROVE  SwallowedIsOldNews'
  BY <1>2 DEF SwallowedIsOldNews, News, SameIncident
<1>3. ASSUME NEW h \in Handlers, NEW r \in Requests, NEW silenced \in BOOLEAN,
             Commit(h, r, silenced), Known(r)
      PROVE  log' = log
  BY <1>3 DEF Commit
<1>4. ASSUME NEW h \in Handlers, Begin(h) \/ Refuse(h)
      PROVE  log' = log
  BY <1>4 DEF Begin, Refuse
<1>5. ASSUME NEW unfinished \in SUBSET kept, Prune(unfinished)
      PROVE  log' = log
  BY <1>5 DEF Prune
<1>6. ASSUME Tick \/ UNCHANGED vars
      PROVE  log' = log
  BY <1>6 DEF Tick, vars
<1> QED
  BY <1>1, <1>2, <1>3, <1>4, <1>5, <1>6 DEF Next

(* A firing the dedupe window keeps back falls within the window of news   *)
(* of its own incident, and is no more severe than a queued firing of that *)
(* incident, or of an earlier one whose handler read the clock no earlier  *)
(* than the incident's first did.                                          *)
THEOREM SwallowedCorrect == Spec => []SwallowedIsOldNews
<1>1. Init => SwallowedIsOldNews
  BY DEF Init, SwallowedIsOldNews
<1> QED
  BY <1>1, SwallowKept, IncidentInit, IncidentKept, TypeInit, TypeKept, PTL DEF Spec

-----------------------------------------------------------------------------
(* No storm.                                                               *)

(* The entry just recorded: the incident was firing, since the earlier     *)
(* firing i was told and nothing recovered it, so the decision took one of *)
(* two ways.  Outside the window of the last notice, i is no nearer than   *)
(* that notice.  As an escalation, i was not in the table any more, and    *)
(* what the cleanup deletes is older than the window.                      *)
LEMMA NewEntryPasses ==
  ASSUME TypeOK, ClockInv, IncidentInv,
         NEW h \in Handlers, since[h] # Idle, NEW r \in Requests, NEW e, NEW n, NEW at,
         Records(h, r, e, n, at), r.status = "firing", e.outcome = "queued", InOrder(n)',
         NEW i \in 1..Len(log), SameIncident(i, n)',
         log[i].status = "firing", log[i].outcome = "queued", log[i].severity >= e.severity
  PROVE  e.created - log[i].created >= Window
<1>1. /\ log'[n] = e /\ \A k \in 1..Len(log) : log'[k] = log[k]
      /\ e.created = at /\ at = since[h] /\ e.severity = r.severity /\ e.reason = ""
      /\ Reason(r, at) = "" /\ e.status = "firing" /\ e.severity \in Nat
  BY EventFields DEF Records, Says
<1>2. n = Len(log) + 1 /\ n \in Nat /\ Len(log) \in Nat
  BY Readings DEF Records, Says
<1>3. \A k \in 1..Len(log) : /\ k \in 1..n /\ k \in Nat /\ k < n
                             /\ \A l \in k..Len(log) : l \in k..n
                             /\ \A l \in k..n : l \in k..Len(log) \/ l = n
                             /\ \A l \in k..Len(log) : l \in 1..Len(log)
  BY <1>2
<1>4. News(i)
  BY DEF ClockInv, EntriesInTime, News
<1>5. Still(i)
  BY <1>1, <1>3 DEF SameIncident, Still
<1>6. incident.state = "firing"
  BY <1>4, <1>5 DEF IncidentInv, NewsOpen
<1>7. PICK f, m \in 1..Len(log) : Spans(f, m)
  BY <1>6 DEF IncidentInv, OpenSpan
<1>8. /\ f <= i /\ i <= m /\ Still(f)
      /\ log[f].created = incident.first /\ log[m].created = incident.notified
  BY <1>4, <1>5, <1>7 DEF Spans
<1>9. /\ at \in Nat /\ clock \in Nat /\ log[i].created \in Nat
      /\ log[f].created \in Nat /\ log[m].created \in Nat /\ log[i].severity \in Nat
  <2>1. at \in Nat /\ clock \in Nat
    <3>1. at \in 0..MaxTime
      BY DEF Records, Says
    <3> QED
      BY <3>1, Readings, Numbers
  <2>2. \A k \in 1..Len(log) : log[k].created \in Nat /\ log[k].severity \in Nat
    BY Readings, EventFields
  <2> QED
    BY <2>1, <2>2
<1>10. e.created = at /\ e.severity = r.severity /\ e.severity \in Nat
  BY <1>1
<1>11. Window \in Nat /\ Retention \in Nat /\ MaxDelay \in Nat /\ Window + MaxDelay <= Retention + 1
  BY Numbers
<1>12. \A k, l \in 1..Len(log) :
          k < l /\ SameIncident(k, n)' => log[k].created <= log[l].created
  BY <1>1, <1>3 DEF InOrder
<1>13. log[i].created <= log[m].created
  <2>1. CASE i = m
    BY <1>9, <2>1
  <2>2. CASE i # m
    <3>1. i < m
      BY <1>3, <1>8, <2>2
    <3> QED
      BY <1>12, <3>1
  <2> QED
    BY <2>1, <2>2
<1>14. log[f].created <= log[i].created
  <2>1. CASE i = f
    BY <1>9, <2>1
  <2>2. CASE i # f
    <3>1. f < i
      BY <1>3, <1>8, <2>2
    <3>2. SameIncident(f, n)'
      <4>1. f < n
        BY <1>3
      <4>2. ASSUME NEW k \in f..n, log'[k].status = "resolved"
            PROVE  ~log'[k].recovers
        BY <1>1, <1>3, <1>8, <4>2 DEF Still
      <4> QED
        BY <4>1, <4>2 DEF SameIncident
    <3> QED
      BY <1>12, <3>1, <3>2
  <2> QED
    BY <2>1, <2>2
<1>15. Escalates(r) \/ ~WithinWindow(at)
  BY <1>1, <1>6, Decision
<1>16. CASE ~WithinWindow(at)
  <2>1. ~(at - log[m].created < Window)
    BY <1>8, <1>16 DEF WithinWindow
  <2> QED
    BY <1>9, <1>13, <1>10, <1>11, <2>1
<1>17. CASE Escalates(r)
  <2>1. i \notin kept
    <3>1. SUFFICES ASSUME i \in kept PROVE FALSE
      OBVIOUS
    <3>2. Notified(i)
      BY <1>8, <1>9, <1>14 DEF Notified
    <3>3. r.severity > log[i].severity
      BY <1>17, <3>1, <3>2 DEF Escalates
    <3> QED
      BY <1>9, <1>10, <3>3
  <2>2. log[i].created < clock - Retention
    BY <2>1 DEF ClockInv, DeletedWhenOld
  <2>3. clock - at <= MaxDelay
    BY <1>1 DEF ClockInv, HandlersInTime
  <2> QED
    BY <1>9, <1>10, <1>11, <2>2, <2>3
<1> QED
  BY <1>15, <1>16, <1>17

LEMMA WindowKept ==
  ASSUME TypeOK, ClockInv, IncidentInv, OnlyEscalationsPassWindow, [Next]_vars
  PROVE  OnlyEscalationsPassWindow'
<1>1. ASSUME NEW h \in Handlers, NEW r \in Requests, NEW silenced \in BOOLEAN,
             Commit(h, r, silenced), ~Known(r)
      PROVE  OnlyEscalationsPassWindow'
  <2>1. /\ \E e, n, at : Records(h, r, e, n, at)
        /\ since[h] # Idle
    BY <1>1, CommitRecords
  <2>2. PICK e, n, at : Records(h, r, e, n, at)
    BY <2>1
  <2>3. /\ 1..Len(log') = 1..Len(log) \cup {n} /\ log'[n] = e /\ e.status = r.status
        /\ \A k \in 1..Len(log) : log'[k] = log[k]
    BY <2>2 DEF Records, Says
  <2>4. n = Len(log) + 1 /\ n \in Nat /\ Len(log) \in Nat
    BY <2>2, Readings DEF Records, Says
  <2>5. ASSUME NEW j \in 1..Len(log), log'[j].status = "firing", log'[j].outcome = "queued",
               InOrder(j)', NEW i \in 1..(j - 1), SameIncident(i, j)',
               log'[i].status = "firing", log'[i].outcome = "queued",
               log'[i].severity >= log'[j].severity
        PROVE  log'[j].created - log'[i].created >= Window
    <3>1. /\ j \in Nat /\ i \in 1..Len(log)
          /\ \A k \in 1..j : k \in 1..Len(log) /\ \A l \in k..j : l \in 1..Len(log)
      BY <2>4
    <3>2. log'[j] = log[j] /\ log'[i] = log[i]
      BY <2>3, <3>1
    <3>3. \A k \in 1..j : /\ log'[k] = log[k]
                          /\ (SameIncident(k, j)' <=> SameIncident(k, j))
      BY <2>3, <3>1 DEF SameIncident
    <3>4. InOrder(j)
      BY <2>5, <3>3 DEF InOrder
    <3>5. SameIncident(i, j)
      <4>1. i \in 1..j
        BY <3>1
      <4> QED
        BY <2>5, <3>3, <4>1
    <3> QED
      BY <2>5, <3>2, <3>4, <3>5 DEF OnlyEscalationsPassWindow
  <2>6. ASSUME log'[n].status = "firing", log'[n].outcome = "queued",
               InOrder(n)', NEW i \in 1..(n - 1), SameIncident(i, n)',
               log'[i].status = "firing", log'[i].outcome = "queued",
               log'[i].severity >= log'[n].severity
        PROVE  log'[n].created - log'[i].created >= Window
    <3>1. i \in 1..Len(log)
      BY <2>4
    <3>2. log'[i] = log[i] /\ log'[n] = e /\ r.status = "firing" /\ e.outcome = "queued"
      BY <2>3, <2>6, <3>1
    <3>3. e.created - log[i].created >= Window
      BY <2>1, <2>2, <2>6, <3>1, <3>2, NewEntryPasses
    <3> QED
      BY <3>2, <3>3
  <2>7. ASSUME NEW j \in 1..Len(log'), log'[j].status = "firing", log'[j].outcome = "queued",
               InOrder(j)', NEW i \in 1..(j - 1), SameIncident(i, j)',
               log'[i].status = "firing", log'[i].outcome = "queued",
               log'[i].severity >= log'[j].severity
        PROVE  log'[j].created - log'[i].created >= Window
    BY <2>3, <2>5, <2>6, <2>7
  <2> QED
    BY <2>7 DEF OnlyEscalationsPassWindow
<1>2. ASSUME log' = log
      PROVE  OnlyEscalationsPassWindow'
  BY <1>2 DEF OnlyEscalationsPassWindow, InOrder, SameIncident
<1>3. ASSUME NEW h \in Handlers, NEW r \in Requests, NEW silenced \in BOOLEAN,
             Commit(h, r, silenced), Known(r)
      PROVE  log' = log
  BY <1>3 DEF Commit
<1>4. ASSUME NEW h \in Handlers, Begin(h) \/ Refuse(h)
      PROVE  log' = log
  BY <1>4 DEF Begin, Refuse
<1>5. ASSUME NEW unfinished \in SUBSET kept, Prune(unfinished)
      PROVE  log' = log
  BY <1>5 DEF Prune
<1>6. ASSUME Tick \/ UNCHANGED vars
      PROVE  log' = log
  BY <1>6 DEF Tick, vars
<1> QED
  BY <1>1, <1>2, <1>3, <1>4, <1>5, <1>6 DEF Next

(* Within the window of a queued firing another of its incident is queued  *)
(* only if it is more severe than every queued one before it, unless a     *)
(* handler of the incident was overtaken by another.                       *)
THEOREM WindowCorrect == Spec => []OnlyEscalationsPassWindow
<1>1. Init => OnlyEscalationsPassWindow
  BY DEF Init, OnlyEscalationsPassWindow
<1> QED
  BY <1>1, TypeInit, TypeKept, ClockInit, ClockKept, IncidentInit, IncidentKept, WindowKept, PTL
     DEF Spec

-----------------------------------------------------------------------------
(* The feed.  The order of the events is total on any page, so that a page *)
(* has a last one, which the checkpoint then names.                        *)
LEMMA Smallest ==
  ASSUME NEW T \in SUBSET Nat, T # {}
  PROVE  \E x \in T : \A y \in T : x <= y
<1> DEFINE R == OpToRel(<, Nat)
<1>1. IsWellFoundedOn(R, Nat)
  BY NatLessThanWellFounded
<1>2. \A x, y \in Nat : x < y => <<x, y>> \in R
  BY DEF OpToRel
<1> HIDE DEF R
<1>3. PICK x \in T : \A y \in T : ~(<<y, x>> \in R)
  BY <1>1, WFMin
<1>4. ASSUME NEW y \in T
      PROVE  x <= y
  <2>1. x \in Nat /\ y \in Nat /\ ~(y < x)
    BY <1>2, <1>3
  <2> QED
    BY <2>1
<1> QED
  BY <1>4

LEMMA Largest ==
  ASSUME NEW b \in Nat, NEW T \in SUBSET (0..b), T # {}
  PROVE  \E x \in T : \A y \in T : y <= x
<1> DEFINE S == {k \in 0..b : b - k \in T}
<1>1. \A y \in T : y \in 0..b /\ b - y \in 0..b /\ b - (b - y) = y
  OBVIOUS
<1>2. S \in SUBSET Nat /\ S # {}
  <2>1. PICK y \in T : TRUE
    OBVIOUS
  <2>2. b - y \in S
    BY <1>1
  <2>3. \A k \in S : k \in Nat
    OBVIOUS
  <2> QED
    BY <2>2, <2>3
<1>3. PICK k \in S : \A l \in S : k <= l
  BY <1>2, Smallest
<1>4. k \in 0..b /\ b - k \in T
  OBVIOUS
<1>5. \A y \in T : b - y \in S
  BY <1>1
<1>6. ASSUME NEW y \in T
      PROVE  y <= b - k
  <2>1. k <= b - y /\ y \in 0..b
    BY <1>3, <1>5
  <2> QED
    BY <1>4, <2>1
<1> QED
  BY <1>4, <1>6

LEMMA LastExists ==
  ASSUME TypeOK, NEW page \in SUBSET kept, page # {}
  PROVE  LastOf(page) \in page
<1>1. \A i \in page : i \in 1..Len(log) /\ log[i].created \in 0..MaxTime
  BY Readings DEF Events
<1>2. MaxTime \in Nat /\ Len(log) \in Nat
  BY Numbers, Readings
<1> DEFINE times == {c \in 0..MaxTime : \E i \in page : log[i].created = c}
<1>3. times \in SUBSET (0..MaxTime) /\ times # {}
  BY <1>1
<1>4. PICK c \in times : \A d \in times : d <= c
  BY <1>2, <1>3, Largest
<1> DEFINE latest == {i \in page : log[i].created = c}
<1>5. latest \in SUBSET (0..Len(log)) /\ latest \in SUBSET Nat /\ latest # {}
  BY <1>1, <1>2
<1>6. \A i \in page : i \notin latest => log[i].created < c
  <2>1. \A i \in page : log[i].created <= c /\ log[i].created \in Nat /\ c \in Nat
    BY <1>1, <1>2, <1>4
  <2> QED
    BY <2>1
<1>7. \E i \in latest : \A j \in latest \ {i} : Before(j, i)
  <2>1. CASE NewestFirst
    <3>1. PICK i \in latest : \A j \in latest : i <= j
      BY <1>5, Smallest
    <3>2. \A j \in latest \ {i} : j > i
      BY <1>5, <3>1
    <3> QED
      BY <2>1, <3>2 DEF Before
  <2>2. CASE ~NewestFirst
    <3>1. PICK i \in latest : \A j \in latest : j <= i
      BY <1>2, <1>5, Largest
    <3>2. \A j \in latest \ {i} : j < i
      BY <1>5, <3>1
    <3> QED
      BY <2>2, <3>2 DEF Before
  <2> QED
    BY <2>1, <2>2
<1>8. \E i \in page : \A j \in page \ {i} : Before(j, i)
  BY <1>6, <1>7 DEF Before
<1> QED
  BY <1>8 DEF LastOf

\* The checkpoint is an event the reader was given.
FeedInv ==
    /\ seen \subseteq 1..Len(log)
    /\ checkpoint # 0 => checkpoint \in seen

LEMMA MissedKept ==
  ASSUME TypeOK, ClockInv, FeedInv, MissedOnlyIfOvertaken, [FeedNext]_<<vars, feedVars>>
  PROVE  FeedInv' /\ MissedOnlyIfOvertaken'
<1>1. ASSUME NEW h \in Handlers, NEW r \in Requests, NEW silenced \in BOOLEAN,
             Commit(h, r, silenced), ~Known(r), UNCHANGED feedVars
      PROVE  FeedInv' /\ MissedOnlyIfOvertaken'
  <2>1. /\ \E e, n, at : Records(h, r, e, n, at)
        /\ since[h] # Idle
    BY <1>1, CommitRecords
  <2>2. PICK e, n, at : Records(h, r, e, n, at)
    BY <2>1
  <2>3. /\ 1..Len(log') = 1..Len(log) \cup {n} /\ log'[n] = e /\ n \notin 1..Len(log)
        /\ \A k \in 1..Len(log) : log'[k] = log[k]
        /\ kept' = kept \cup {n} /\ clock' = clock
        /\ e.created = at /\ at = since[h]
        /\ seen' = seen /\ checkpoint' = checkpoint
    BY <1>1, <2>2 DEF Records, Says, feedVars
  <2>4. n = Len(log) + 1 /\ Len(log) \in Nat /\ n \in Nat
    BY <2>2, Readings DEF Records, Says
  <2>5. FeedInv'
    BY <2>3 DEF FeedInv
  <2>6. kept \subseteq 1..Len(log) /\ seen \subseteq 1..Len(log)
    BY Readings DEF FeedInv
  <2>7. \A i, j \in 1..Len(log) : Before(i, j)' <=> Before(i, j)
    BY <2>3 DEF Before
  <2>8. ASSUME NEW i \in kept' \ seen', i \notin Ahead'
        PROVE  \E j \in seen' : /\ j < i /\ Before(i, j)'
                                /\ log'[j].created - log'[i].created <= MaxDelay
    <3>0. checkpoint' # 0 /\ checkpoint \in seen
      BY <2>3, <2>8 DEF Ahead, FeedInv
    <3>1. PICK c \in 1..Len(log) : c = checkpoint /\ c \in seen
      BY <2>6, <3>0
    <3>4. c # 0 /\ ~Before(c, i)'
      BY <2>3, <2>8, <3>0, <3>1 DEF Ahead, Before
    <3>2. CASE i \in kept
      <4>1. i \notin Ahead /\ i \in kept \ seen
        BY <2>3, <2>6, <2>7, <3>1, <3>2, <3>4 DEF Ahead
      <4>2. PICK j \in seen : /\ j < i /\ Before(i, j)
                              /\ log[j].created - log[i].created <= MaxDelay
        BY <4>1 DEF MissedOnlyIfOvertaken
      <4>3. log'[j] = log[j] /\ log'[i] = log[i] /\ Before(i, j)'
        BY <2>3, <2>6, <2>7, <3>2, <4>2
      <4> QED
        BY <2>3, <4>2, <4>3
    <3>3. CASE i = n
      <4>1. c < n /\ c # n
        BY <2>4, <3>1
      <4>3. Before(n, c)'
        <5>1. log'[n].created \in Nat /\ log'[c].created \in Nat
          <6>1. at \in 0..MaxTime
            BY <2>2 DEF Records, Says
          <6> QED
            BY <2>3, <3>1, <6>1, Readings, Numbers
        <5>2. ~(log'[c].created < log'[n].created)
          BY <3>3, <3>4 DEF Before
        <5>3. CASE log'[n].created < log'[c].created
          BY <5>3 DEF Before
        <5>4. CASE log'[n].created = log'[c].created
          <6>1. ~(IF NewestFirst THEN c > n ELSE c < n)
            BY <3>3, <3>4, <5>4 DEF Before
          <6>2. NewestFirst /\ n > c
            BY <2>4, <4>1, <6>1
          <6> QED
            BY <5>4, <6>2 DEF Before
        <5> QED
          BY <5>1, <5>2, <5>3, <5>4
      <4>4. log'[c].created <= clock /\ log'[c].created \in Nat
        BY <2>3, <3>1, Readings DEF ClockInv, EntriesInTime
      <4>5. clock - at <= MaxDelay /\ at \in Nat /\ clock \in Nat
        <5>1. at \in 0..MaxTime
          BY <2>2 DEF Records, Says
        <5> QED
          BY <2>1, <2>3, <5>1, Readings, Numbers DEF ClockInv, HandlersInTime
      <4>6. log'[c].created - log'[n].created <= MaxDelay
        <5>1. log'[n].created = at /\ MaxDelay \in Nat
          BY <2>3, Numbers
        <5> QED
          BY <4>4, <4>5, <5>1
      <4> QED
        BY <2>3, <3>1, <3>3, <4>1, <4>3, <4>6
    <3> QED
      BY <2>3, <3>2, <3>3
  <2> QED
    BY <2>5, <2>8 DEF MissedOnlyIfOvertaken
<1>2. ASSUME log' = log, kept' \subseteq kept, UNCHANGED feedVars
      PROVE  FeedInv' /\ MissedOnlyIfOvertaken'
  BY <1>2 DEF FeedInv, feedVars, MissedOnlyIfOvertaken, Ahead, Before
<1>3. ASSUME NEW h \in Handlers, NEW r \in Requests, NEW silenced \in BOOLEAN,
             Commit(h, r, silenced), Known(r)
      PROVE  log' = log /\ kept' = kept
  BY <1>3 DEF Commit
<1>4. ASSUME NEW h \in Handlers, Begin(h) \/ Refuse(h)
      PROVE  log' = log /\ kept' = kept
  BY <1>4 DEF Begin, Refuse
<1>5. ASSUME NEW unfinished \in SUBSET kept, Prune(unfinished)
      PROVE  log' = log /\ kept' \subseteq kept
  BY <1>5 DEF Prune
<1>6. ASSUME Tick \/ UNCHANGED vars
      PROVE  log' = log /\ kept' = kept
  BY <1>6 DEF Tick, vars
<1>7. ASSUME NEW page \in SUBSET kept, QueryAlerts(page)
      PROVE  FeedInv' /\ MissedOnlyIfOvertaken'
  <2>1. /\ page \subseteq Ahead /\ IsPage(page)
        /\ seen' = seen \cup page /\ checkpoint' = LastOf(page)
        /\ log' = log /\ kept' = kept
    BY <1>7 DEF QueryAlerts, LastReturned, vars
  <2>2. checkpoint' \in page
    BY <2>1, LastExists DEF IsPage
  <2>3. kept \subseteq 1..Len(log)
    BY Readings
  <2>4. FeedInv'
    BY <2>1, <2>2, <2>3 DEF FeedInv
  <2>5. \A i, j : Before(i, j)' <=> Before(i, j)
    BY <2>1 DEF Before
  <2>6. ASSUME NEW i \in kept' \ seen', i \notin Ahead'
        PROVE  \E j \in seen' : /\ j < i /\ Before(i, j)'
                                /\ log'[j].created - log'[i].created <= MaxDelay
    <3>1. i \in kept \ seen /\ i \notin page /\ ~Before(checkpoint', i)
      BY <2>1, <2>5, <2>6 DEF Ahead
    <3>2. i \notin Ahead
      BY <2>1, <2>2, <3>1 DEF IsPage
    <3>3. PICK j \in seen : /\ j < i /\ Before(i, j)
                            /\ log[j].created - log[i].created <= MaxDelay
      BY <3>1, <3>2 DEF MissedOnlyIfOvertaken
    <3> QED
      BY <2>1, <2>5, <3>3
  <2> QED
    BY <2>4, <2>6 DEF MissedOnlyIfOvertaken
<1>8. CASE UNCHANGED <<vars, feedVars>>
  BY <1>2, <1>6, <1>8
<1> QED
  BY <1>1, <1>2, <1>3, <1>4, <1>5, <1>6, <1>7, <1>8 DEF FeedNext, Next

(* A reader who follows the feed misses an event of the table only if it   *)
(* was committed after one read later that the reader already has, and     *)
(* then by no more than a request takes.                                   *)
THEOREM MissedCorrect == FeedSpec => []MissedOnlyIfOvertaken
<1>1. FeedInit => Init /\ FeedInv /\ MissedOnlyIfOvertaken
  BY DEF FeedInit, Init, FeedInv, MissedOnlyIfOvertaken
<1>2. [FeedNext]_<<vars, feedVars>> => [Next]_vars
  BY DEF FeedNext, QueryAlerts
<1> QED
  BY <1>1, <1>2, TypeInit, TypeKept, ClockInit, ClockKept, MissedKept, PTL DEF FeedSpec
=============================================================================
