-------------------------- MODULE EventSubscriptions --------------------------
(***************************************************************************)
(* A webhook subscription of MCP Events and the jobs queued for it: the    *)
(* subscribe and unsubscribe requests, which hold a mutex from the first   *)
(* query to the last, the network challenge between them included; the     *)
(* intake, the worker and the cleanup, which do not.  Every job carries    *)
(* the generation the subscription had when it was queued.                 *)
(*                                                                         *)
(* The module follows one subscription identity (owner, policy, callback   *)
(* and filters: the primary key).  Times are kept relative to the clock:   *)
(* row.ttl and row.overlap are what is left until expires and RotateUntil, *)
(* row.age is the age of verified, cache[s] what is left of the entry of   *)
(* secret s, lag[h] the age of the `now` request h took under the mutex.   *)
(***************************************************************************)
EXTENDS Integers, FiniteSets

CONSTANTS
    Requests,  \* subscribe requests that may be under way at the same time
    Jobs,      \* deliveries that may be queued for the subscription
    NoJob,     \* the worker holds none
    Secrets,   \* signing secrets
    NoSecret,
    Five,      \* the five minutes of a challenge and of a replaced secret
    MaxTTL,    \* the longest subscription (24 hours), in ticks
    MaxGen,    \* bound: generations drawn
    MaxLag     \* bound: the longest a request, or an intake, takes

ASSUME SubscriptionAssumption ==
    /\ NoJob \notin Jobs /\ NoSecret \notin Secrets /\ Five \in Nat \ {0}
    /\ MaxTTL \in Nat \ {0} /\ MaxGen \in Nat /\ MaxLag \in Nat

VARIABLES
    row,       \* the row of mcp_event_subscriptions
    grant,     \* is the owner's grant there
    pc,        \* where each request is
    draft,     \* the row it will save
    lag,       \* how old its `now` is
    drawn,     \* generations drawn so far
    cache,     \* verificationCache, in memory
    job,       \* generation of each job, 0 before it is queued
    done,      \* jobs sent or dead
    worker,    \* where the worker is
    current,   \* the job it works on
    cancelled, \* history: jobs queued when an unsubscribe removed the row
    lapsed,    \* history: jobs queued when it ended otherwise, no subscribe under way
    overtaken, \* history: jobs queued when the row was deleted during a subscribe
    proof,     \* history: age of the last challenge answered under each secret
    replaced   \* history: the secret replaced last, and what is left of its five minutes

requests == <<pc, draft, lag, drawn, cache>>
sending  == <<job, done, worker, current>>
silenced == <<cancelled, lapsed, overtaken>>
history  == <<silenced, proof, replaced>>
vars     == <<row, grant, requests, sending, history>>

NoRow == [gen |-> 0, ttl |-> 0, secret |-> NoSecret, old |-> NoSecret, overlap |-> 0, age |-> 0]
Rows  == [gen : 0..MaxGen, ttl : -MaxLag..MaxTTL, secret : Secrets \cup {NoSecret},
          old : Secrets \cup {NoSecret}, overlap : 0..Five, age : 0..Five]
Never == [secret |-> NoSecret, left |-> 0]

(* What is left of n ticks after d, and what n ticks grow to, up to limit. *)
Less(n, d)        == IF n > d THEN n - d ELSE 0
More(n, d, limit) == IF n + d < limit THEN n + d ELSE limit

(* The row d ticks later.  A secret whose overlap is over is never used.   *)
Later(r, d) == [r EXCEPT !.ttl = @ - d, !.overlap = Less(@, d), !.age = More(@, d, Five),
                         !.old = IF r.overlap > d THEN @ ELSE NoSecret]

Queued == {j \in Jobs : job[j] # 0 /\ j \notin done}
Busy   == {h \in Requests : pc[h] # "idle"}

(* The row is deleted, but not by an unsubscribe.                          *)
Deleted ==
    /\ lapsed' = IF Busy = {} THEN lapsed \cup Queued ELSE lapsed
    /\ overtaken' = IF Busy = {} THEN overtaken ELSE overtaken \cup Queued
    /\ replaced' = Never
    /\ UNCHANGED <<cancelled, proof>>

Init ==
    /\ row = NoRow /\ grant = TRUE
    /\ pc = [h \in Requests |-> "idle"] /\ draft = [h \in Requests |-> NoRow]
    /\ lag = [h \in Requests |-> 0] /\ drawn = 0
    /\ job = [j \in Jobs |-> 0] /\ done = {}
    /\ worker = "idle" /\ current = NoJob
    /\ cache = [s \in Secrets |-> 0]
    /\ cancelled = {} /\ lapsed = {} /\ overtaken = {}
    /\ proof = [s \in Secrets |-> Five + MaxLag] /\ replaced = Never

-----------------------------------------------------------------------------
\* Mutant: the requests take no mutex.
NoMutex == TRUE

Unlocked == Busy = {}

\* Mutant: the generation of an expired row is kept.
KeepsExpired == row # NoRow /\ grant

(* The previous subscription is still authorized: this is a refresh.       *)
Keeps == row # NoRow /\ row.ttl > 0 /\ grant

\* Mutant: a longer life than a day is granted when it is asked for.
Uncapped(ttl) == ttl

Granted(ttl) == IF ttl < MaxTTL THEN ttl ELSE MaxTTL

\* Mutant: a refresh under the new secret forgets the old one.
OnlyWhenReplaced(secret) ==
    IF Keeps /\ row.secret # secret THEN [old |-> row.secret, overlap |-> Five]
    ELSE [old |-> NoSecret, overlap |-> 0]

(* The secret that signs beside the new one, and for how long.             *)
Overlap(secret) ==
    IF Keeps /\ row.secret # secret THEN [old |-> row.secret, overlap |-> Five]
    ELSE IF Keeps /\ row.overlap > 0 THEN [old |-> row.old, overlap |-> row.overlap]
    ELSE [old |-> NoSecret, overlap |-> 0]

\* Mutant: what was verified before counts as verified now.
Extended(secret) == 0

(* The age of the challenge a request goes by without asking again: the    *)
(* row's, or the cached one's.                                             *)
VerifiedAge(secret) ==
    IF Keeps /\ row.secret = secret /\ row.age < Five THEN row.age ELSE Five - cache[secret]

MustChallenge(secret) ==
    ~(Keeps /\ row.secret = secret /\ row.age < Five) /\ cache[secret] = 0

(* events/subscribe up to the challenge: a refresh keeps the generation of *)
(* the row it finds, anything else draws one.                              *)
Subscribe(h, ttl, secret) ==
    /\ pc[h] = "idle" /\ Unlocked
    /\ IF Keeps THEN UNCHANGED drawn ELSE drawn < MaxGen /\ drawn' = drawn + 1
    /\ draft' = [draft EXCEPT ![h] =
          [gen |-> IF Keeps THEN row.gen ELSE drawn', ttl |-> Granted(ttl), secret |-> secret,
           old |-> Overlap(secret).old, overlap |-> Overlap(secret).overlap,
           age |-> IF MustChallenge(secret) THEN 0 ELSE VerifiedAge(secret)]]
    /\ pc' = [pc EXCEPT ![h] = IF MustChallenge(secret) THEN "challenge" ELSE "authorize"]
    /\ UNCHANGED <<row, grant, lag, cache, sending, history>>

(* The callback answers the challenge.  It is remembered if the cache, of  *)
(* a thousand entries of all subscriptions, has room.                      *)
Challenge(h) ==
    /\ pc[h] = "challenge"
    /\ pc' = [pc EXCEPT ![h] = "authorize"]
    /\ \/ cache' = [cache EXCEPT ![draft[h].secret] = Less(Five, lag[h])]
       \/ UNCHANGED cache
    /\ proof' = [proof EXCEPT ![draft[h].secret] = 0]
    /\ UNCHANGED <<row, grant, draft, lag, drawn, sending, silenced, replaced>>

(* The new subscription is authorized at a fresh clock reading.            *)
Authorize(h) ==
    /\ pc[h] = "authorize"
    /\ draft[h].ttl > lag[h] /\ grant
    /\ pc' = [pc EXCEPT ![h] = "save"]
    /\ UNCHANGED <<row, grant, draft, lag, drawn, cache, sending, history>>

Return(h) ==
    /\ pc' = [pc EXCEPT ![h] = "idle"]
    /\ draft' = [draft EXCEPT ![h] = NoRow]
    /\ lag' = [lag EXCEPT ![h] = 0]

(* The transaction of SaveEventSubscription: whatever row is there is      *)
(* replaced, and a row that is not there any more is inserted.             *)
Save(h) ==
    /\ pc[h] = "save"
    /\ row' = Later(draft[h], lag[h])
    /\ replaced' = IF row.gen # draft[h].gen THEN Never
                   ELSE IF row.secret = draft[h].secret THEN replaced
                   ELSE [secret |-> row.secret, left |-> Less(Five, lag[h])]
    /\ Return(h)
    /\ UNCHANGED <<grant, drawn, cache, sending, silenced, proof>>

(* The challenge, the authorization, a limit or a query fails.             *)
Refuse(h) ==
    /\ pc[h] # "idle"
    /\ Return(h)
    /\ UNCHANGED <<row, grant, drawn, cache, sending, history>>

Unsubscribe ==
    /\ Unlocked /\ row # NoRow
    /\ row' = NoRow
    /\ cancelled' = cancelled \cup Queued
    /\ replaced' = Never
    /\ UNCHANGED <<grant, requests, sending, lapsed, overtaken, proof>>

(* The grant is revoked, or its reuse detected; its id never comes back.   *)
Revoke ==
    /\ grant /\ grant' = FALSE
    /\ lapsed' = lapsed \cup Queued
    /\ UNCHANGED <<row, requests, sending, cancelled, overtaken, proof, replaced>>

-----------------------------------------------------------------------------
(* The intake queues a job in its own transaction, at a `now` that is      *)
(* stale ticks old by then.                                                *)
Enqueue(j, stale) ==
    /\ job[j] = 0
    /\ row # NoRow /\ row.ttl + stale > 0 /\ grant
    /\ job' = [job EXCEPT ![j] = row.gen]
    /\ UNCHANGED <<row, grant, requests, done, worker, current, history>>

(* Events.Sender: the row is there, of the job's generation, authorized.   *)
Live(j) == row # NoRow /\ row.gen = job[j] /\ row.ttl > 0 /\ grant

Finish == /\ worker' = "idle" /\ current' = NoJob
          /\ done' = done \cup {current}

Claim(j) ==
    /\ worker = "idle" /\ j \in Queued
    /\ worker' = "claimed" /\ current' = j
    /\ UNCHANGED <<row, grant, requests, job, done, history>>

(* Sender is asked when the job is claimed and again as Send begins.       *)
Resolve ==
    /\ worker \in {"claimed", "resolved"}
    /\ IF Live(current)
       THEN /\ worker' = IF worker = "claimed" THEN "resolved" ELSE "posting"
            /\ UNCHANGED <<done, current>>
       ELSE Finish
    /\ UNCHANGED <<row, grant, requests, job, history>>

(* The secrets whose signatures a post carries.                            *)
Signers == {row.secret} \cup (IF row.overlap > 0 THEN {row.old} ELSE {})

(* The callback answers, or does not; a failure that may pass leaves the   *)
(* job in the queue, as long as it has attempts left.                      *)
Answered ==
    /\ worker = "posting"
    /\ Finish
    /\ UNCHANGED <<row, grant, requests, job, history>>

TryAgain ==
    /\ worker = "posting"
    /\ worker' = "idle" /\ current' = NoJob
    /\ UNCHANGED <<row, grant, requests, job, done, history>>

(* 410: the subscription is removed, without the mutex and whatever its    *)
(* generation is by now.                                                   *)
Gone ==
    /\ worker = "posting"
    /\ row' = NoRow
    /\ Finish
    /\ Deleted
    /\ UNCHANGED <<grant, requests, job>>

(* The hourly cleanup, between two deliveries.                             *)
Prune ==
    /\ worker = "idle"
    /\ row # NoRow /\ (row.ttl <= 0 \/ ~grant)
    /\ row' = NoRow
    /\ Deleted
    /\ UNCHANGED <<grant, requests, sending>>

(* The process restarts and forgets the challenges; the job it held comes  *)
(* back when its lease ends.                                               *)
Crash ==
    /\ worker' = "idle" /\ current' = NoJob
    /\ pc' = [h \in Requests |-> "idle"] /\ draft' = [h \in Requests |-> NoRow]
    /\ lag' = [h \in Requests |-> 0] /\ cache' = [s \in Secrets |-> 0]
    /\ UNCHANGED <<row, grant, drawn, job, done, history>>

(* The tick that expires a row ends it, unless a request that found it     *)
(* alive is about to extend it.                                            *)
Tick ==
    /\ \A h \in Busy : lag[h] < MaxLag
    /\ lag' = [h \in Requests |-> IF h \in Busy THEN lag[h] + 1 ELSE 0]
    /\ row' = IF row = NoRow \/ row.ttl = -MaxLag THEN row ELSE Later(row, 1)
    /\ cache' = [s \in Secrets |-> Less(cache[s], 1)]
    /\ proof' = [s \in Secrets |-> More(proof[s], 1, Five + MaxLag)]
    /\ replaced' = IF replaced.left > 1 THEN [replaced EXCEPT !.left = @ - 1] ELSE Never
    /\ lapsed' = IF row # NoRow /\ row.ttl = 1 /\ Busy = {} THEN lapsed \cup Queued ELSE lapsed
    /\ UNCHANGED <<grant, pc, draft, drawn, sending, cancelled, overtaken>>

Next ==
    \/ \E h \in Requests, ttl \in 1..(MaxTTL + 1), s \in Secrets : Subscribe(h, ttl, s)
    \/ \E h \in Requests : Challenge(h) \/ Authorize(h) \/ Save(h) \/ Refuse(h)
    \/ Unsubscribe \/ Revoke
    \/ \E j \in Jobs, stale \in 0..MaxLag : Enqueue(j, stale)
    \/ \E j \in Jobs : Claim(j)
    \/ Resolve \/ Answered \/ TryAgain \/ Gone
    \/ Prune \/ Crash \/ Tick

Spec == Init /\ [][Next]_vars

-----------------------------------------------------------------------------
TypeOK ==
    /\ row \in Rows /\ grant \in BOOLEAN
    /\ pc \in [Requests -> {"idle", "challenge", "authorize", "save"}]
    /\ draft \in [Requests -> Rows] /\ lag \in [Requests -> 0..MaxLag]
    /\ drawn \in 0..MaxGen
    /\ job \in [Jobs -> 0..MaxGen] /\ done \subseteq Jobs
    /\ worker \in {"idle", "claimed", "resolved", "posting"}
    /\ current \in Jobs \cup {NoJob}
    /\ cache \in [Secrets -> 0..Five] /\ proof \in [Secrets -> 0..(Five + MaxLag)]
    /\ replaced \in [secret : Secrets \cup {NoSecret}, left : 0..Five]
    /\ cancelled \cup lapsed \cup overtaken \subseteq Jobs

Posts(j) == worker' = "posting" /\ worker # "posting" /\ current' = j

(* A job that was waiting when the subscriber cancelled is never posted,   *)
(* whatever refresh was under way and however often it subscribes again.   *)
CancelledStaysSilent == [][\A j \in cancelled : ~Posts(j)]_vars

(* Nor is one that was waiting when the subscription expired, was revoked  *)
(* or was answered 410 with no subscribe request under way.                *)
LapsedStaysSilent == [][\A j \in lapsed : ~Posts(j)]_vars

(* Recreating a subscription revives no old job (docs/mcp.md:149), also    *)
(* when a subscribe request was under way as its row was deleted.          *)
OvertakenStaysSilent == [][\A j \in overtaken : ~Posts(j)]_vars

(* However refreshes, cached challenges and restarts follow each other, a  *)
(* subscription is only saved if its callback echoed a challenge under the *)
(* same secret within the five minutes before the request.                 *)
SavedIsVerified ==
    [][\A h \in Requests : pc[h] = "save" /\ row' # row /\ pc'[h] = "idle"
          => proof[draft[h].secret] < Five + MaxLag]_vars

(* For five minutes after the last request that replaced the secret, what  *)
(* is posted is signed with the secret it replaced too, whatever refreshes *)
(* under the new one come between.  Of two replacements within the five    *)
(* minutes only the later one counts: it ends the overlap of the first.    *)
OldSecretStillSigns ==
    [][\A j \in Jobs : Posts(j) /\ replaced # Never /\ replaced.left > 0
          => replaced.secret \in Signers]_vars
=============================================================================
