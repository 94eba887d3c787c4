# A TLA+ model of AlertBridge

AlertBridge is a notification gateway in one process: programs post events over HTTP,
the gateway decides whether anybody is to be told, stores the event with one delivery
per target channel in SQLite, and a single worker sends the deliveries to chat, mail,
push and webhook receivers until they are taken or given up. Administrators change its
configuration while it runs; MCP clients read alerts, and subscribe to them.

This directory holds specifications of it, model-checked with TLC; its safety properties are
proved with TLAPS as well (see [proofs](#proofs)). Paths below are relative to `src/`. `PROJECT.json` maps every definition to
the lines it stands for.

Contents: [the system](#the-system) · [the modules](#the-modules) · [the runs](#the-runs) ·
[bounds](#bounds) · [fairness](#fairness) · [proofs](#proofs) ·
[where the code and its documents disagree](#where-the-code-and-its-documents-disagree) ·
[what is not modelled](#what-is-not-modelled) · [plan](#plan).

## The system

Two facts shape all concurrency. SQLite is opened with **one connection**, so every
transaction is atomic and they run one after the other; but a request reads the clock,
the configuration snapshot and other rows *before* it gets the connection, and an
operation made of several statements gives it up in between. And there is **one worker
goroutine**, next to any number of HTTP handlers.

| component | state | operations | what is hard | what makes it correct |
|---|---|---|---|---|
| delivery queue and worker (`internal/worker`, `internal/store/store.go`) | `deliveries` rows: status, `next_attempt_at`, `lease_until`, `attempts`; the worker's `now` | enqueue, claim, send, complete, retry of a dead row, hourly cleanup | crash between the send and its booking, lost answers, a `now` that ages during the send, leases, deletion by age | nothing owed is lost; duplicates only after a fault; a bounded number of attempts; everything ends sent or dead |
| event intake and incidents (`store.AcceptEvent`, `internal/httpapi`) | `events`, `incidents` | accept an event, suppress it, open, extend or close an incident | clients retry, events arrive out of order, handlers commit out of the order of their clocks, silences meet incidents | an `event_id` counts once; the incident follows the producer, but for an orphaned recovery; the dedupe window swallows old news only and, with handlers in order, passes only escalations |
| runtime configuration (`internal/runtimecfg`, `store/admin_store.go`) | configuration tables; the snapshot behind an atomic pointer | create, update, rotate, delete; `Reload` | overlapping requests without a lock, read-modify-write, a reload that fails after its write | the snapshot is the tables; a rule names channels that exist; a rotated secret stays revoked |
| MCP Events subscriptions (`mcpapi/events.go`, `store/mcp_events.go`) | subscription rows with expiry and generation; jobs in the queue | subscribe with a network challenge, refresh, unsubscribe, send, 410, cleanup | the challenge is between the read and the write; jobs outlive their subscription | a job of a cancelled, expired or revoked subscription is never posted |
| request admission (`internal/auth`, `store.RecordRequest`) | `nonces`, `rate_windows` | verify, record nonce, count | two clock readings per request, boundaries of minutes, retention of nonces | one request per nonce; at most the limit per window |
| MCP OAuth grants (`mcpapi/oauth.go`, `store/oauth.go`) | codes, grants, used refresh tokens | consent, exchange, refresh, revoke | lost answers, reuse of an old token | a code is used once; reuse of a refresh token ends the grant |
| MCP queries and feed (`store/query.go`, `mcpapi`) | none of its own: the position is the client's | pages and checkpoints over `events` | a checkpoint against commits that come late, rows that are deleted behind and ahead of it | a reader misses nothing but what was committed late |
| administrator login (`internal/admin`, `store/admin_store.go`) | sessions and login counters in the database; pending OIDC attempts and the one slot of the password gate in memory | password login, OIDC login and callback, rotation of the old session, logout, expiry | a login is a chain of steps with a mutex, a transaction or a network call at each; a restart keeps half of the state; callbacks arrive together; a browser sends a cookie only where its path allows | at most 10 logins a minute; a state is used once; what was rotated or logged out of stays ended |
| bootstrap (`internal/bootstrap`) | the key file and the database | first start, later starts | a death between the two, several starts on one directory, a lost file | every process that serves can read what any of them encrypted, and checks the same password |
| process (`cmd/alertbridge`, `internal/httpapi`) | the requests under way | start, serve, shut down | a handler or the worker is cut at any step, and the client posts again without knowing what became of its event | an event its client was told is accepted is owed; whoever keeps trying gets an answer, and the event gets settled |

How they interact: the **intake** reads the snapshot (who the client is, which channels an
event goes to, what is silenced) and in one transaction writes the event, its incident and
the pending deliveries, those of **subscriptions** included. The **worker** claims them, asks the snapshot (or
the subscriptions table) for a sender, sends, and books the result. **Administrators** write
the tables and swap the snapshot under both. The **cleanup** runs in the worker's loop and deletes old events
(and with them their deliveries), lapsed subscriptions and sessions. **OAuth grants** decide
whether a subscription is authorized.

## The modules

### `DeliveryContract`: what the queue promises
Five phases (absent, owed, delivered, dead, forgotten) and six actions, with no clock, lease,
worker or counter. `FairSpec` adds that nothing is owed for ever.

### `DeliveryQueue`: how it keeps the promise
| model | code |
|---|---|
| `eventRow`, `age` | `events` rows and `now - created_at` |
| `status`, `wait`, `lease`, `attempts` | the columns of `deliveries`; times are kept relative to the clock |
| `available` | channels with a sender in the current snapshot |
| `pc`, `held`, `attempt`, `lag`, `reply` | the local variables of `ProcessOne`; `lag` is the age of its `now` |
| `accepted`, `faults`, `rescues` | history, read by properties (and by the guards that bound faults) only |
| `Accept` | the inserts at the end of `AcceptEvent` |
| `Claim` | `ClaimDelivery`: one `UPDATE` that takes the first claimable row, increments `attempts` and sets the lease |
| `Resolve`, `BuryUnavailable`, `Send` | the middle of `ProcessOne`; a missing sender buries the row |
| `BookSuccess`, `RecordFailure` | `CompleteSuccess` (fenced by status), `CompleteFailure` (fenced by status and attempt) |
| `Abandon` | a crash, a shutdown, or a booking whose `UPDATE` fails |
| `Prune`, `RetryDead`, `RemoveChannel`, `AddChannel` | the cleanup, the administrator's retry, a new snapshot |

A transaction's `now` may be `MaxStale` ticks old when it runs, chosen anew for each. Ties of the `ORDER BY`
are broken both ways. Timestamps are relative so that the state space is finite without a
last tick, which is what lets liveness be checked.

### `EventIntake`: what the intake decides
All queries of `AcceptEvent` are about one (client, routing key, dedupe key); the module
follows one. `log` is every event ever inserted in commit order, `kept` the part the cleanup
left in the table: decisions (`Known`, `Stale`, `Notified`) read `kept` only, properties may
look at the whole log. `Begin` is the handler's clock reading, `Commit` its transaction;
between them the clock and the other handlers go on. Severities are ranks.

Three properties relate the log to the incident, and each says where it stops. `OnlyOrphansMislead` compares the incident with the event that is last by
the producer's timestamps (`SaidLast`), whatever became of it: they agree, unless that event is a recovery found orphaned and an older firing came after it.
`SwallowedIsOldNews` says what preceded a firing that the window kept back, for handlers in any order: news of the same incident less than a window ago, and a
queued firing at least as severe, which may be of an earlier incident only if this one's opener was overtaken.
`OnlyEscalationsPassWindow` is about events that were committed in the order of their handlers' clocks (`InOrder`).
What lies beyond these limits is described [below](#where-the-code-and-its-documents-disagree).

### `RuntimeConfig`: tables, requests, snapshot
Every SQL statement of an administrator's request is a step: lookup (`Prepare`: credentials, rules, a toggled channel), write
(`WriteCredential`, `WriteRoute`, `WriteChannel`, or a write that depends on nothing read: `SaveChannel`, the deletions,
`ChangeSilence`), the four reads of `Reload` (`Read`), the swap (`Publish`). Secrets are numbered in the order they are
generated. A channel row may be *broken*: stored, but not to be built (`Loads`), which keeps every later snapshot from
being published and the process from starting again (`Restart` to `down`). `Fail` is a query that fails or a connection that goes away, at any of these
points; `Restart` is a new process. `RoutesReferToChannels` rests on the foreign key
(`References`), since `ReplaceRoute` asks the snapshot.

### `EventSubscriptions`: subscriptions and their jobs
One subscription identity, two requests, some jobs. `Subscribe`, `Challenge`, `Authorize`, `Save` are one HTTP request under the
mutex; the worker (`Claim`, `Resolve` twice as in the code, `Answered`, `TryAgain`, `Gone`),
the intake (`Enqueue`), the cleanup and OAuth revocation take no mutex. A request skips the challenge if the row was verified under
its secret within five minutes, or the `cache` in memory says so; a replaced secret goes on signing beside the new one for
five minutes (`Overlap`, `Signers`). `cancelled`, `lapsed` and `overtaken` remember which queued jobs lost their subscription
and how, `proof` when the callback last echoed a challenge under each secret, `replaced` which secret was replaced last: a second replacement within the five
minutes ends the overlap of the first, so the promise is about the last one.

### `Gateway`: from the post to the receiver
Extends `DeliveryQueue` by the handlers in front of it and the clients that post. A handler resolves the targets in the snapshot of that moment
(`Post`), stores the event later (`Persist`, which is `Accept` unless the `event_id` is known), and answers later still
(`Respond`); it may fail (`FailRequest`), and its client may have given up and posted again (`GiveUp`). `Crash` ends the process:
all requests and the worker's registers go at once, where `DeliveryQueue` alone loses only the latter. That the queue still
behaves as `DeliveryQueue` says is `ImplementsQueue`, the step simulation that carries its theorems over.

### `AlertFeed`: a reader that follows
Extends `EventIntake` by one reader of `list_alerts` in ascending order. `Before` is `ORDER BY created_at, id`; ids are random, so both
orders of events of one moment have to be right (`NewestFirst`). `QueryAlerts` is a page of any length, `checkpoint` its last event, which may have
been deleted since.

### `AdminSessions`, `Bootstrap`, and `AdminConsole` that composes them
`AdminSessions` is the login: `Begin` (the counting transaction, in the minute of a clock reading that is up to `MaxDelay` old by then; before it a request
has touched nothing), `EnterGate` (one password at a time), `StartAttempt` (the OIDC attempt, under
the mutex), `Callback` (consumes it), `CreateSession`, `Rotate` or `RotationFails` (the old session could not be deleted, and the
error of deleting the new one instead is ignored: its row may stay), `Logout`. `OldSessionEnds` asks of such a row that nobody holds its token while the old session lives. Counter and sessions are tables; attempts and requests
under way are memory (`LoseMemory`). Clients keep the session cookie and the OIDC cookie apart; `OldSession` is what of the former reaches
`/auth/oidc/login`. `Bootstrap` is `Initialize` step by step for any number of processes: is there an administrator, the key (read, or drawn and linked,
which fails if there is one), the credential (`INSERT OR IGNORE`), its re-reading, the decryption of the tables. `sealed` is what data may
be encrypted with. `AdminConsole` runs both: logins happen while a process serves, its end is `LoseMemory`. A second process goes through all of its start beside one that serves
(`BootStep`), since `main.go` opens the address last: only `ListenAndServe` (`Start`) fails.

### `Admission`: who gets past the door
One HMAC client and one lightweight token. A signed request is its nonce (`Sign`), and may arrive late and any
number of times. `Verify` (first clock reading, timestamp window), `ReadClock` (second reading) and `Record` (the transaction of
`RecordRequest`: expired nonces out, this nonce in, the minute counted) are one request; `Present` and `Count` are a lightweight
one. A repeated nonce rolls the transaction back; a client over its limit keeps its nonce, so its request has had its verdict.
`verdicts` and `passed` are history.

### `OAuthGrants`: what an authorization is worth
Rows of the three tables, one transaction per action: `Consent`, `Exchange` (code for grant and token pair), `Rotate`, `Reuse` (a
retired refresh token ends the grant), `RevokeToken`, `RevokeAll`, and `NewPolicy`, a restart with another address or other
routes. Token pairs are numbered in the order they are issued; any of them may be presented at any time, which is what a
client does whose answer was lost. `KeepGrants` is a deletion with the `ON DELETE CASCADE` it causes.

`MC*` modules give the constants their values and symmetry. They EXTEND the module they instantiate, and no cfg replaces a definition.

## The runs

| run | shows |
|---|---|
| `delivery_queue` | two events for one channel, stale clocks, a fault per delivery, expired leases, a rescue, the cleanup: `HeldRowIsOurs`, `SentWasAccepted`, `DuplicatesNeedAFault`, `AttemptsBounded`, the refinement `ImplementsContract`; under fairness nothing is owed for ever (`ImplementsFairContract`) and the deliveries of a deleted channel die (`RemovedChannelDeadLetters`) |
| `gateway` | two requests for one event at a time, clients that give up and post again, crashes, channels that leave and come back: `AcknowledgedIsOwed`, the refinement `ImplementsQueue`, and under fairness `PostsAreSettled` |
| `event_intake` | two handlers, events delayed and reordered, the cleanup: `OnlyOrphansMislead`, `RecordedOnce`, `SwallowedIsOldNews`, `OnlyEscalationsPassWindow` |
| `alert_feed` | two handlers, the cleanup and a reader: `MissedOnlyIfOvertaken` |
| `runtime_config` | two administrators, broken channels and a fault: `RoutesReferToChannels`, `LoneChangeIsPublished` |
| `runtime_config_stale` | `SnapshotIsCurrent` is **violated** |
| `runtime_config_revived` | `RotatedStaysRevoked` is **violated** |
| `event_subscriptions` | refreshes with and without challenge, three secrets: `CancelledStaysSilent`, `LapsedStaysSilent`, `SavedIsVerified`, `OldSecretStillSigns` |
| `event_subscriptions_revived` | `OvertakenStaysSilent` is **violated** |
| `admission` | two handlers, late and repeated requests, handlers that are slow, minutes that end: `OneVerdict`, `WithinLimit` |
| `oauth_grants` | two codes, two grants, tokens presented again, expiry, revocation, a changed policy: `CodeUsedOnce`, `ReuseEndsGrant`, `AccessEnds`, `GrantFollowsConsent` |
| `admin_console` | two starts, beside a serving process too, two logins at a time whose clock readings are late, a browser and a script, failing deletions, restarts: `LoginsWithinLimit`, `PendingWithinLimit`, `StateUsedOnce`, `OldSessionEnds`, `StartsAgree` |

Each passing run but `alert_feed` (whose type invariant is that of `EventIntake`) also checks its module's one type invariant, which says more than the shapes where
there is something to say: waits stay within the backoff table, the incident is never in state `test`,
a request has a draft exactly while it is about to write, a subscription never outlives the day it was
granted for.

What `AttemptsBounded` says is weaker than "at most `MaxAttempts` attempts", and on purpose: `attempts` counts claims, and
a claim whose result was lost is never compared with the limit, so each fault may add one.
The same faults are what duplicates cost (`DuplicatesNeedAFault`).

## Bounds

- *Queue.* `Lease = 1`, one backoff entry of 2 ticks, `MaxAttempts = 3`, an iteration of the
  worker up to `MaxLag = 1` tick, clocks up to `MaxStale = 1` tick late: long enough for the lease to run out while it sends, for part of
  the wait to be used up by the send, and for the event to become older than `Retention = 1` meanwhile.
  `MaxFaults = 1` per delivery allows a duplicate; `MaxLate` is where rows
  that are overdue stop being told apart. Two deliveries compete for the worker, and their events share the cleanup.
- *Gateway.* One event for one channel, two handlers: the statements name one event, the race is between two requests for it, and the
  competition of deliveries is the queue's run. Two faults and one rescue.
- *Intake.* Three events are enough for: one that opens, one that is compared with it, one that
  the wrong comparison lets through. Only the last case of `SwallowedIsOldNews`, a queued firing of an earlier incident, takes four (firing, recovery, firing, and the one that is
  swallowed), which is too much for the run; the theorem covers it. Two severities, two producer times and a window of two ticks tell
  the cases of the decision apart; handlers may be a tick late. `MaxDelay <= Retention` says that no handler is under way
  longer than the retention (30 days in the code). `WindowAssumption` says that the cleanup takes nothing a request under way may still
  have in its window (30 minutes, `config.go:71`); the run meets it with equality, and one more tick of window would let a repetition pass.
- *Feed.* Three events of one severity: one on the page, one behind it, one that comes late; what distinguishes events otherwise is `EventIntake`'s.
- *Configuration.* Two requests at a time, one channel, two secrets, one fault. Two requests
  are what a race takes; the properties name at most one channel and one credential. Six changes are long enough for a race, a fault,
  and the change that repairs what they left.
- *Subscriptions.* Two generations, two requests, three secrets, so that a secret can be replaced twice; subscriptions and the five minutes take two ticks, requests at most one.
  There is one job, since jobs do not touch one another, except by the 410 of one that removes the row of another: that case is in the theorems, and in the run only for the job that was answered.
  The violated run has two jobs, three generations and two secrets.
- *Admission.* A window of one tick, a tolerance of one and a retention of three, with skew and delay of up to one: the
  smallest numbers with which the assumption `Tolerance + MaxSkew + MaxDelay <= Retention` is tight, so that one tick less
  lets a request be decided on twice. With a limit of one, two handlers race for the last place in a window, and five ticks let every
  nonce and counter expire and be used again.
- *OAuth grants.* Codes live 2 ticks, access 1, grants 3; a `now` is at most one tick old. Five token pairs let one grant
  be refreshed twice and more next to another; five ticks are longer than the life of a grant that was asked for late.
- *Console.* Two processes, two handlers, a client that obeys cookie paths and one that does not. `Limit = 1` makes every
  second login of a minute one too many. `Cap = 4` is never reached, and that is the point: `PendingWithinLimit` says that the limit of 10 a minute
  keeps the attempts at 80, below the cap of 256, as long as they are cleaned up. A `now` is at most `MaxDelay` old, one minute in the
  run and at most two in the proofs, when it is counted and when it is used after. Nobody logs in while another process is between its first and its last step (`Quiet`),
  and once somebody has tried to, no second process starts beside the one that serves (it does before): a login writes nothing
  that a start reads.

`CHECK_DEADLOCK FALSE` is given where a bound stops the model: the clock of `EventIntake`, `AlertFeed`, `Admission`, `OAuthGrants` and `AdminConsole`, the
log of `EventIntake`, the number of changes of `RuntimeConfig`. The other models never stop.

## Fairness

`DeliveryQueue!FairSpec` assumes weak fairness of `Worker` (all of its own steps) and of `Tick`. The
worker's loop waits for nothing but its ticker: every sender runs under a request timeout
(`worker.go`, `Run` and `ProcessOne`), so an iteration ends and the next begins; after a crash the
supervisor starts the process again and the row comes back through its lease. Nothing is assumed
about faults, rescues, configuration changes or the cleanup: they may happen or not. Faults are
bounded per delivery: were every single result lost, a delivery would never end in the code either.

`Gateway!FairGatewaySpec` assumes the same of worker and clock, weak fairness of the answer of a handler that has stored (`Finish`),
and strong fairness of `RetryPost` and `StoreEvent`: a client that does not know what became of its event posts it again (`docs/api.md` asks it to, with the same `event_id`), and the
database does not fail every attempt. Strong, because crashes and failing requests take the chance away again and again. Nothing is assumed
about `GiveUp`, `Crash` or `FailRequest`.

## Proofs

`DeliveryQueueProofs` proves, for every set of deliveries, events and channels, every backoff table, lease, retention
and bound allowed by `QueueAssumption`:

| theorem | property |
|---|---|
| `TypeCorrect` | `TypeOK` |
| `HoldCorrect` | `HeldRowIsOurs` |
| `SentCorrect` | `SentWasAccepted` |
| `DuplicatesCorrect` | `DuplicatesNeedAFault` |
| `AttemptsCorrect` | `AttemptsBounded` |
| `Refinement` | `ImplementsContract` |

The assumption says that the tables of constants are what their names say, that leases and
attempt limits are positive, and that a stale clock is no staler than an iteration is long.

The argument goes in layers, each inductive given those before it.

1. `TypeInv`: types and ranges, and that a worker under way holds a delivery at an attempt of at least 1.
2. `HoldInv` = `HeldRowIsOurs` + `RowsHaveEvents` (a row that was inserted and not deleted has its event).
   The single worker makes it inductive: `Claim` needs an idle worker, the rescue takes dead rows only, the cleanup
   spares events with unfinished rows. The second half is the strengthening: without it a new event could be
   thought to touch the held row.
3. `ReachInv` relates what the receiver got to what the row says. `accepted[d] <= 1 + faults[d]` is not inductive by itself: a
   row that may still be sent must be strictly below, so the invariant says `accepted[d] <= faults[d]` as long as the row is neither sent nor
   about to be booked as sent. `SentWasAccepted` and `DuplicatesNeedAFault` follow.
4. `AttemptInv` does the same for `attempts`: a row that may still be claimed is strictly below the bound.
5. `ContractStep`: each action maps to a step of the contract or to a stutter under `Phase`; it needs the held row to be owed and a
   positive answer to be counted, which layers 2 and 3 give.

`AdmissionProofs` proves, for any numbers of handlers and requests and any tolerances, windows and limits that `AdmissionAssumption`
allows: `AdmissionTypeCorrect` (`TypeOK`), `VerdictCorrect` (`OneVerdict`), `LimitCorrect` (`WithinLimit`). The
assumption is what makes the code right, and it is a real condition: with the constants of the code (5 and 10 minutes) a
request is decided on once as long as the client's clock is ahead by less than 5 minutes, less the time a handler takes; and a window's
counter survives its handlers as long as none takes more than two minutes.

1. `HandlersInv`: what a handler has in hand was read from the clock in order, and its request was inside the timestamp window when it started.
2. `NonceInv`: a nonce that had its verdict is either in the table, until later than any handler could come with it, or so old that
   no handler holds it and none passes `Verify` with it. `OneVerdict` follows: the transaction finds the nonce.
3. `RateInv`: the counter of a window that a handler may still count in equals what was let through in that window. It rests on the lemma
   `Windows` about `\div`: a cleanup spares every window a handler on its way may need.

`OAuthGrantsProofs` proves, for any codes, grants, policies, lifetimes and staleness of the clock: `GrantTypeCorrect`
(`TypeOK`), `CodeCorrect` (`CodeUsedOnce`), `ReuseCorrect` (`ReuseEndsGrant`), `ConsentCorrect` (`GrantFollowsConsent`)
and `DeadlinesCorrect` (`AccessEnds`).

1. `RowsInv`: types of tables and history.
2. `PairsInv`: a grant in the table has the last pair issued for it, and all others issued for it are known as retired. `Deletion` shows
   once, for every action that deletes, that the cascade keeps this. The id of a grant that is gone stays
   used (`origin`), so a grant ended by reuse does not come back.
3. `CodesInv`: a code in the table has no grant yet, and codes and grants carry the policy of their consent and the number of purges then.
   The properties speak of grants only; the part about codes is what makes them inductive.
4. `DeadlinesInv`: deadlines count from the issue of the current pair and of the first. That every pair was issued no later than now is what
   carries the second part over a rotation.

`GatewayProofs` proves, for any handlers, clients' retries, crashes and events: `QueueRefinement` (`ImplementsQueue`), by which each theorem of
`DeliveryQueueProofs` holds of the gateway, `GatewayTypeCorrect` (`GatewayTypeOK`), and `AcknowledgedCorrect` (`AcknowledgedIsOwed`).

1. `RequestInv`: a request under way carries an event, and targets of that event, at least one. This is what makes `Persist` an `Accept`.
2. `StoredInv`: an event that was stored has a row, and it was stored when a handler is about to say so or a client was told. `RowsStay` says why
   the queue cannot take that back; it uses the queue's `TypeInv`, which the refinement provides.

`AdminConsoleProofs` proves, for any processes, handlers, clients, limits and lifetimes: `ConsoleTypeCorrect` (`TypeOK`), `StartsCorrect` (`StartsAgree`),
`LoginLimitCorrect` (`LoginsWithinLimit`), `PendingCorrect` (`PendingWithinLimit`), `StateCorrect` (`StateUsedOnce`) and
`OldSessionCorrect` (`OldSessionEnds`).

1. `BootInv`: whoever has a key has the one in the file, since the file cannot go while anybody runs; where a key is yet to be drawn, nothing is encrypted. The
   latter needs that encrypted data has an administrator next to it, which is what the start looks for first.
2. `LimitInv`: the counter of a minute in which a request under way may have read the clock is there, and at least what was let through: the clean-up spares two minutes, and a
   reading is no older than that (`MinutesAgo`).
3. `StateInv`: a state is pending, in the hands of one callback, or has made its session.
4. `RotationInv`: a token in use anywhere was made before, so that no new session is mistaken for one that ended, nor for one that somebody holds: the token of a session whose rotation failed is in no cookie, attempt or request.

5. `TicketInv` and `PaceInv`, for `PendingWithinLimit`, which bounds how many attempts are pending at once. The bound is a count, and counting needs
   induction; the invariant does without. It says that every login let through, and every attempt stored by one, can be given a
   ticket (a minute, and a number up to what was let through in it) so that no two have the same. `Begin` draws the next number, `StartAttempt` hands it on, and
   everything else only gives tickets back. `PaceInv` says that the attempts started within a lifetime and a delay of the last clean-up, and the lemma `Spread` how many
   minutes that is. The attempts are then injected into the tickets of those minutes.

`RuntimeConfigProofs` proves, for any administrators, channels, secrets and bounds: `TypeCorrect` (`TypeOK`), `RoutesCorrect`
(`RoutesReferToChannels`) and `LoneChangeCorrect` (`LoneChangeIsPublished`).

1. `Steps`, with `WriteEffect` and `PrepareEffect`, puts the many kinds of request into four: one that looks something up, one that writes, one that
   reads, one that swaps. The types follow, and so does the foreign key: whatever the snapshot said, a rule is written with channels that are in the table.
2. `LoneInv`: as long as a change counts as one that no other reload overlapped (`sole`), no other reload is under way, what its own has
   read so far is what the tables hold, and the snapshot is the tables once it is done, if they can be built.

`EventSubscriptionsProofs` proves, for any jobs, requests, secrets and lifetimes: `TypeCorrect` (`TypeOK`), and of the steps `CancelledSilent`
(`CancelledStaysSilent`), `LapsedSilent` (`LapsedStaysSilent`), `SavedVerified` (`SavedIsVerified`) and `OldSecretSigns` (`OldSecretStillSigns`).

1. `BaseInv`: the types, and what the mutex gives (`MutexInv`): one request at most is under way, only it has a draft, and generations in use were drawn.
2. `SilenceInv`: a cancelled job's generation is in no row and no draft; a lapsed one's is in no draft, and at most in a row that is over, as long as the grant stands. This is where it matters
   that the request under way has read its generation before: `OvertakenStaysSilent`, which leaves that out, is violated.
3. `VerifiedInv`: what is remembered of a challenge (cache, row, draft) never makes it younger than it is.
4. `SecretsInv`: the secret replaced last is the old secret of the row for at least as long as is left of its five minutes, and a draft under way that extends
   the row will keep it so.

`EventIntakeProofs` proves, for any handlers, event ids, severities, windows, retentions and delays that the assumptions allow: `TypeCorrect` (`TypeOK`),
`RecordedOnceCorrect` (`RecordedOnce`), `MisledCorrect` (`OnlyOrphansMislead`), `SwallowedCorrect` (`SwallowedIsOldNews`),
`WindowCorrect` (`OnlyEscalationsPassWindow`), and of `AlertFeed` `MissedCorrect` (`MissedOnlyIfOvertaken`).

1. `CommitRecords` says once what a transaction that records adds. With it `RecordedOnce` is inductive, and so is `FollowsCounted`: the incident has the status of the latest of
   the events that opened, extended or closed it, or were swallowed, since a new one is either stale, and then another is the latest, or at least as late as all of them. `OnlyOrphansMislead`
   is about every event, and needs `UncountedInv` for the others: a stale one was compared with one that counts; an orphan was followed by news, if the incident is active.
2. `ClockInv`: no handler is under way for longer than `MaxDelay`, no entry is from the future, and one that was deleted was older than the retention.
3. `IncidentInv` connects the incident's row with the log: it says "firing" as long as some firing decided as news (queued, or kept back by a silence only) has had no
   recovery since, and its two times are those of entries `f` and `m` with all such firings between them. Neither `SwallowedIsOldNews` nor `OnlyEscalationsPassWindow` is inductive without. In `NewSwallowed`, `m` is the
   news within the window, and the queued firing that was as severe was created no earlier than `f`, which opened the incident. In `NewEntryPasses`,
   for the other, a firing that is queued is either outside the window of `m`, which is no earlier than any firing before, or it is an escalation; one that was as
   severe is then no longer in the table, and by `ClockInv` and `WindowAssumption` too old to be in the window.
4. `FeedInv`: the checkpoint is an event the reader was given. An entry that a handler commits behind the checkpoint was overtaken by the checkpoint's own; a page leaves nothing
   behind, because it has a last row (`LastExists`, by well-foundedness).

Only model-checked: liveness (`RemovedChannelDeadLetters`, `ImplementsFairContract`, `PostsAreSettled`), since fairness and
`ENABLED` are beyond the prover. Every invariant and every action property that a passing run checks is proved.

## Where the code and its documents disagree

Shown by a run:

1. **Overlapping changes can leave the snapshot behind the tables** (`manager.go:207`): the reload that read first may
   store last. `docs/admin.md:35` says the new snapshot is made at once. The next change repairs it,
   which is what `LoneChangeIsPublished` shows.
2. **An update can bring back a rotated secret** (`manager.go:372`): it writes back the whole
   record it read. `docs/admin.md:78` says rotation revokes the old one at once.
3. **A refresh can revive the jobs of a deleted subscription** (`events.go:304`): it saves the generation it
   read before the challenge, even when the row has gone meanwhile. `docs/mcp.md:149` says recreating a
   subscription revives nothing.

Noticed while modelling, and why no run is spent on them:

- *The dedupe window compares clock readings* (`store.go:287`): a handler that read the clock first and commits second leaves a notification that is
  never counted, so that a repetition may pass, which `docs/api.md:202` excludes. It takes two handlers out of order within one request's time;
  `OnlyEscalationsPassWindow` states exactly what holds.
- *It can swallow an escalation* (`store.go:287`), although `docs/api.md:202` has one queued at once when it is more severe than what this incident was notified of. What was notified is looked for among
  events with `created_at >= first_fired_at`, two readings of different handlers: a firing of the incident before counts as one of this if the opener read the clock no later, a tie included.
  That is the second case of `SwallowedIsOldNews`, and the theorem says that there is no other. Besides, a firing that a silence kept back moves `last_notified_at`, so the window may count from a notification nobody
  got (the first half of the property).
- *A firing from before an orphaned recovery opens the incident* (`store.go:279`, `store.go:309`): resolved at 1 arrives first and is recorded as `orphan_resolved`, which the comparison leaves out; firing at 0
  follows and stays firing. `docs/api.md:202` says that an event that arrives after a saved lifecycle event and happened before it is kept as `stale_event` and changes nothing. `OnlyOrphansMislead`
  states that nothing else does this.
- *A second replacement of a secret within five minutes ends the overlap of the first* (`events.go:331`): the row has one place for an old secret. `docs/mcp.md:141` says that after a replacement both sign for five minutes.
  `OldSecretStillSigns` is about the secret replaced last, and its run replaces twice.
- *The error of undoing a login is ignored* (`oidc.go:245`): when the old session could not be deleted, for a cancelled request or a database that fails, the same is likely to happen to the new one. Its row stays until it
  expires, good but in nobody's hands.
- *A channel whose recipients are no addresses is stored* (`mergeChannelInput`), and `buildChannel` refuses it: the save reports an error but the row is there, and until it is
  repaired no change of anything is published and the process does not start. `LoneChangeIsPublished` states it with `Loads`.
- *The session cookie has the path `/admin`* (`admin.go`), so a browser never presents it to `/auth/oidc/login`, and the old session is not rotated away there, as
  ADR-013:17 and `oidc_test.go:162` describe it; with a client that sends it, it is. `OldSession` models both.
- *`createSilence` parses times in the zone of the process*, the pages show them in the display zone. Nothing of the state depends on it.
- *A 410 removes the subscription whatever its generation* (`events.go:428`), a renewed one included. No document promises otherwise.

## What is not modelled

- *Senders* (`internal/channel`): network I/O; their result is a choice of four outcomes. "Lost" is one
  the receiver took and the sender reports as failed.
- *Several rows where one stands for all*: credentials, rules and silences of the configuration; keys of the intake; subscriptions.
  The statements name one row each and rows do not influence one another, except through limits (100 subscriptions per owner and 1,000 in all,
  1,000 cached challenges), which appear as a request that may be refused, and a challenge that may not be remembered.
- *The clock going backwards.* A reading may be late, never early.
- *Cryptography, validation, rendering, parsing*: no state, and unit tests reach them.
- *Vendored code* (`third_party`), scripts, the site and the end-to-end mocks.
- *Bodies, signatures, redirect addresses, PKCE verifiers and resource names*: requests of `Admission` and `OAuthGrants` are those
  that passed these checks; one that is refused changes nothing.
- *Views*: descending pages, `get_alert`, `list_active_incidents`, the JSON-RPC envelope, the pages of the console. They read, and keep no position.
- *The test message of a channel* (`QueueChannelTest`): an event like any other for `AcceptEvent`.
- *Configuration from the environment*, read once, before anything runs.
- *Crashes of the operating system that lose what SQLite or the file system reported as stored.*

## Plan

1. Composition of OAuth grants with `EventSubscriptions`, whose `Revoke` stands for them now.
2. An abstract grant (consented, live, ended) that `OAuthGrants` implements, with the step simulation proved as for the queue.

A composition takes over the runs of the modules it composes where it asks the same questions, so that every run keeps a question
of its own.
