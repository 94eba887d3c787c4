------------------------ MODULE EventSubscriptionsProofs ------------------------
(***************************************************************************)
(* Theorems about EventSubscriptions, for any number of requests, jobs and *)
(* secrets and any lifetimes: jobs that were waiting when a subscription   *)
(* ended stay silent, only what was verified is saved, and a replaced      *)
(* secret goes on signing for its five minutes.                            *)
(*                                                                         *)
(* Everything rests on the mutex: one request at a time has a draft, and   *)
(* what else happens to the row meanwhile can only shorten its life.       *)
(***************************************************************************)
EXTENDS EventSubscriptions, TLAPS

Stages == {"idle", "challenge", "authorize", "save"}

-----------------------------------------------------------------------------
(* Ticks that pass.                                                        *)
LEMMA LessBounds == ASSUME NEW n \in Nat, NEW d \in Nat
                    PROVE  Less(n, d) \in 0..n /\ (d = 0 => Less(n, d) = n)
  BY DEF Less

LEMMA LessAdds == ASSUME NEW n \in Nat, NEW d \in Nat
                  PROVE  Less(Less(n, d), 1) = Less(n, d + 1)
  BY DEF Less

LEMMA MoreBounds == ASSUME NEW n \in Nat, NEW d \in Nat, NEW limit \in Nat
                    PROVE  /\ More(n, d, limit) \in 0..limit
                           /\ More(n, d, limit) <= n + d
                           /\ More(n, d, limit) < limit => More(n, d, limit) = n + d
  BY DEF More

(* The row some ticks later has the same generation and the same secret.   *)
LEMMA LaterRow ==
  ASSUME NEW r \in Rows, NEW d \in Nat
  PROVE  /\ Later(r, d).gen = r.gen /\ Later(r, d).secret = r.secret
         /\ Later(r, d).ttl = r.ttl - d
         /\ Later(r, d).overlap = Less(r.overlap, d)
         /\ Later(r, d).age = More(r.age, d, Five)
         /\ Later(r, d).old = IF r.overlap > d THEN r.old ELSE NoSecret
         /\ r.ttl - d >= -MaxLag => Later(r, d) \in Rows
<1> DEFINE t == r.ttl - d
           o == IF r.overlap > d THEN r.old ELSE NoSecret
           l == Less(r.overlap, d)
           m == More(r.age, d, Five)
           new == Later(r, d)
<1>1. /\ r.ttl \in -MaxLag..MaxTTL /\ r.old \in Secrets \cup {NoSecret}
      /\ r.overlap \in 0..Five /\ r.age \in 0..Five
  BY DEF Rows
<1>2. new = [r EXCEPT !.ttl = t, !.overlap = l, !.age = m, !.old = o]
  BY DEF Later
<1>3. t <= MaxTTL /\ t \in Int /\ o \in Secrets \cup {NoSecret}
  BY <1>1, SubscriptionAssumption
<1>4. l \in 0..Five /\ m \in 0..Five
  <2>1. r.overlap \in Nat /\ r.age \in Nat /\ Five \in Nat /\ r.overlap <= Five
    BY <1>1, SubscriptionAssumption
  <2>2. l \in 0..r.overlap /\ m \in 0..Five
    BY <2>1, LessBounds, MoreBounds
  <2> QED
    BY <2>1, <2>2
<1>5. t >= -MaxLag => t \in -MaxLag..MaxTTL
  BY <1>3, SubscriptionAssumption
<1> HIDE DEF t, o, l, m, new
<1>6. /\ new.gen = r.gen /\ new.secret = r.secret
      /\ new.ttl = t /\ new.overlap = l /\ new.age = m /\ new.old = o
      /\ t >= -MaxLag => new \in Rows
  BY <1>2, <1>3, <1>4, <1>5 DEF Rows
<1> QED
  BY <1>6 DEF t, o, l, m, new

(* There may be no row.                                                    *)
LEMMA NoRowTyped == /\ NoRow \in Rows /\ NoRow.gen = 0 /\ NoRow.ttl = 0 /\ NoRow.overlap = 0
                    /\ Never.left = 0
                    /\ Never \in [secret : Secrets \cup {NoSecret}, left : 0..Five]
  BY SubscriptionAssumption DEF NoRow, Rows, Never

-----------------------------------------------------------------------------
(* The mutex: one request at most is under way, and only it has a draft.   *)
(* No generation is in use that was not drawn; a worker that is not idle   *)
(* has a job.                                                              *)
MutexInv ==
    /\ row # NoRow => row.gen \in 1..drawn /\ row.secret \in Secrets
    /\ \A h \in Requests :
          /\ pc[h] = "idle" => draft[h] = NoRow /\ lag[h] = 0
          /\ pc[h] # "idle" => /\ draft[h].gen \in 1..drawn /\ draft[h].secret \in Secrets
                               /\ draft[h].ttl >= 1
    /\ \A g, h \in Requests : pc[g] # "idle" /\ pc[h] # "idle" => g = h
    /\ \A j \in Jobs : job[j] <= drawn
    /\ worker # "idle" => current \in Jobs

BaseInv == TypeOK /\ MutexInv

(* What the types say of the numbers.                                      *)
LEMMA Numbers ==
  /\ Five \in Nat /\ Five >= 1 /\ MaxTTL \in Nat /\ MaxTTL >= 1 /\ MaxGen \in Nat /\ MaxLag \in Nat
  /\ NoSecret \notin Secrets /\ NoJob \notin Jobs
  BY SubscriptionAssumption

LEMMA RowFields ==
  ASSUME NEW r \in Rows
  PROVE  /\ r.gen \in Nat /\ r.gen <= MaxGen /\ r.ttl \in Int /\ r.ttl <= MaxTTL /\ r.ttl >= -MaxLag
         /\ r.secret \in Secrets \cup {NoSecret} /\ r.old \in Secrets \cup {NoSecret}
         /\ r.overlap \in Nat /\ r.overlap <= Five /\ r.age \in Nat /\ r.age <= Five
  BY Numbers DEF Rows

(* Nobody has subscribed.                                                  *)
LEMMA BaseInit == Init => BaseInv
  BY NoRowTyped, Numbers DEF Init, BaseInv, TypeOK, MutexInv

(* A request that draws up a row finds nobody else under way; it keeps the *)
(* generation of a row it may extend, or draws the next.                   *)
LEMMA SubscribeEffect ==
  ASSUME BaseInv, NEW h \in Requests, NEW ttl \in 1..(MaxTTL + 1), NEW s \in Secrets,
         Subscribe(h, ttl, s)
  PROVE  /\ \A g \in Requests : pc[g] = "idle" /\ draft[g] = NoRow /\ lag[g] = 0
         /\ pc' \in [Requests -> Stages] /\ pc'[h] \in {"challenge", "authorize"}
         /\ pc'[h] = "challenge" <=> MustChallenge(s)
         /\ \A g \in Requests \ {h} : pc'[g] = "idle"
         /\ draft' \in [Requests -> Rows] /\ \A g \in Requests \ {h} : draft'[g] = NoRow
         /\ drawn' \in 0..MaxGen /\ drawn' >= drawn
         /\ IF Keeps THEN draft'[h].gen = row.gen ELSE draft'[h].gen = drawn + 1 /\ drawn' = drawn + 1
         /\ draft'[h].gen \in 1..drawn'
         /\ draft'[h].secret = s /\ draft'[h].ttl >= 1
         /\ draft'[h].old = Overlap(s).old /\ draft'[h].overlap = Overlap(s).overlap
         /\ draft'[h].age = IF MustChallenge(s) THEN 0 ELSE VerifiedAge(s)
<1>0. /\ row \in Rows /\ pc \in [Requests -> Stages] /\ draft \in [Requests -> Rows] /\ drawn \in 0..MaxGen
      /\ cache[s] \in 0..Five
  BY DEF BaseInv, TypeOK, Stages
<1>1. \A g \in Requests : pc[g] = "idle" /\ draft[g] = NoRow /\ lag[g] = 0
  BY DEF Subscribe, Unlocked, Busy, BaseInv, MutexInv
<1>2. drawn' \in 0..MaxGen /\ drawn' >= drawn
  BY <1>0, Numbers DEF Subscribe
<1> DEFINE G == IF Keeps THEN row.gen ELSE drawn'
           T == Granted(ttl)
           O == Overlap(s).old
           L == Overlap(s).overlap
           A == IF MustChallenge(s) THEN 0 ELSE VerifiedAge(s)
           new == [gen |-> G, ttl |-> T, secret |-> s, old |-> O, overlap |-> L, age |-> A]
<1>3. /\ G \in 1..drawn' /\ G \in 0..MaxGen
      /\ IF Keeps THEN G = row.gen ELSE G = drawn + 1 /\ drawn' = drawn + 1
  <2>1. CASE Keeps
    <3>1. drawn' = drawn /\ row # NoRow
      BY <2>1 DEF Subscribe, Keeps
    <3>2. row.gen \in 1..drawn
      BY <3>1 DEF BaseInv, MutexInv
    <3> QED
      BY <2>1, <3>1, <3>2, <1>0, Numbers
  <2>2. CASE ~Keeps
    <3>1. drawn' = drawn + 1
      BY <2>2 DEF Subscribe
    <3> QED
      BY <2>2, <3>1, <1>0, <1>2, Numbers
  <2> QED
    BY <2>1, <2>2
<1>4. T \in 1..MaxTTL
  BY Numbers DEF Granted
<1>5. O \in Secrets \cup {NoSecret} /\ L \in 0..Five
  BY <1>0, Numbers DEF Overlap, Rows
<1>6. A \in 0..Five
  BY <1>0, Numbers, RowFields DEF VerifiedAge
<1>7. draft' = [draft EXCEPT ![h] = new]
  BY DEF Subscribe
<1> HIDE DEF G, T, O, L, A
<1>8. new \in Rows
  BY <1>3, <1>4, <1>5, <1>6, Numbers DEF Rows
<1>9. /\ new.gen = G /\ new.ttl = T /\ new.secret = s /\ new.old = O /\ new.overlap = L /\ new.age = A
  OBVIOUS
<1> HIDE DEF new
<1>10. draft' \in [Requests -> Rows] /\ draft'[h] = new /\ \A g \in Requests \ {h} : draft'[g] = NoRow
  BY <1>0, <1>1, <1>7, <1>8
<1>11. pc' \in [Requests -> Stages] /\ pc'[h] \in {"challenge", "authorize"}
       /\ (pc'[h] = "challenge" <=> MustChallenge(s)) /\ \A g \in Requests \ {h} : pc'[g] = "idle"
  BY <1>0, <1>1 DEF Subscribe, Stages
<1>12. draft'[h].ttl >= 1
  BY <1>4, <1>9, <1>10, Numbers
<1> QED
  BY <1>1, <1>2, <1>3, <1>9, <1>10, <1>11, <1>12 DEF G, O, L, A

(* A request that ends leaves no draft; the others are as they were.       *)
LEMMA ReturnEffect ==
  ASSUME BaseInv, NEW h \in Requests, Return(h)
  PROVE  /\ pc' \in [Requests -> Stages] /\ draft' \in [Requests -> Rows]
         /\ lag' \in [Requests -> 0..MaxLag]
         /\ pc'[h] = "idle" /\ draft'[h] = NoRow /\ lag'[h] = 0
         /\ \A g \in Requests \ {h} : pc'[g] = pc[g] /\ draft'[g] = draft[g] /\ lag'[g] = lag[g]
<1>1. /\ pc \in [Requests -> Stages] /\ draft \in [Requests -> Rows]
      /\ lag \in [Requests -> 0..MaxLag] /\ 0 \in 0..MaxLag
  BY Numbers DEF BaseInv, TypeOK, Stages
<1> QED
  BY <1>1, NoRowTyped DEF Return, Stages

(* A request that goes on keeps its draft.                                 *)
LEMMA GoesOn ==
  ASSUME BaseInv, NEW h \in Requests, NEW stage \in Stages \ {"idle"}, pc[h] # "idle",
         pc' = [pc EXCEPT ![h] = stage]
  PROVE  /\ pc' \in [Requests -> Stages] /\ pc'[h] = stage
         /\ \A g \in Requests \ {h} : pc'[g] = pc[g]
         /\ \A g \in Requests : pc'[g] # "idle" <=> pc[g] # "idle"
  BY DEF BaseInv, TypeOK, Stages

(* The row that is saved is the draft, aged by what the request took.      *)
LEMMA SaveEffect ==
  ASSUME BaseInv, NEW h \in Requests, Save(h)
  PROVE  /\ draft[h] \in Rows /\ lag[h] \in 0..MaxLag
         /\ row' \in Rows /\ row'.gen = draft[h].gen /\ row'.secret = draft[h].secret
         /\ row'.ttl = draft[h].ttl - lag[h]
         /\ row'.overlap = Less(draft[h].overlap, lag[h])
         /\ row'.age = More(draft[h].age, lag[h], Five)
         /\ row'.old = IF draft[h].overlap > lag[h] THEN draft[h].old ELSE NoSecret
         /\ draft[h].gen \in 1..drawn /\ draft[h].secret \in Secrets
<1>1. /\ draft[h] \in Rows /\ lag[h] \in 0..MaxLag /\ draft[h].ttl >= 1
      /\ draft[h].gen \in 1..drawn /\ draft[h].secret \in Secrets
  BY DEF Save, BaseInv, TypeOK, MutexInv
<1>2. lag[h] \in Nat /\ draft[h].ttl \in Int
  BY <1>1, Numbers, RowFields
<1>3. draft[h].ttl - lag[h] >= -MaxLag
  BY <1>1, <1>2, Numbers
<1>4. row' = Later(draft[h], lag[h])
  BY DEF Save
<1> QED
  BY <1>1, <1>2, <1>3, <1>4, LaterRow

(* The clock shortens the life of the row, and gives none.                 *)
LEMMA TickEffect ==
  ASSUME BaseInv, Tick
  PROVE  /\ row' \in Rows /\ row'.gen = row.gen /\ row'.secret = row.secret
         /\ row = NoRow => row' = NoRow
         /\ row'.ttl <= row.ttl /\ row'.ttl >= row.ttl - 1
         /\ row.ttl > 0 => row' = Later(row, 1) /\ row'.ttl = row.ttl - 1
         /\ row # NoRow /\ row.ttl > -MaxLag => row' = Later(row, 1) /\ row'.ttl = row.ttl - 1
         /\ row' = row \/ (row' = Later(row, 1) /\ row'.ttl = row.ttl - 1)
<1>1. row \in Rows /\ row.ttl \in Int /\ row.ttl >= -MaxLag
  BY RowFields DEF BaseInv, TypeOK
<1>2. CASE row = NoRow \/ row.ttl = -MaxLag
  BY <1>1, <1>2, NoRowTyped, Numbers DEF Tick
<1>3. CASE row # NoRow /\ row.ttl # -MaxLag
  <2>1. row' = Later(row, 1)
    BY <1>3 DEF Tick
  <2>2. row.ttl - 1 >= -MaxLag /\ 1 \in Nat
    BY <1>1, <1>3, Numbers
  <2>3. row' \in Rows /\ row'.gen = row.gen /\ row'.secret = row.secret /\ row'.ttl = row.ttl - 1
    BY <1>1, <2>1, <2>2, LaterRow
  <2> QED
    BY <1>1, <1>3, <2>1, <2>3
<1> QED
  BY <1>2, <1>3

(* Steps of a request, of the sending side and of the cleanup, as far as   *)
(* the mutex is concerned.                                                 *)
LEMMA BaseStep == BaseInv /\ [Next]_vars => BaseInv'
<1> SUFFICES ASSUME BaseInv, [Next]_vars PROVE BaseInv'
  OBVIOUS
<1>0. /\ row \in Rows /\ grant \in BOOLEAN /\ pc \in [Requests -> Stages]
      /\ draft \in [Requests -> Rows] /\ lag \in [Requests -> 0..MaxLag] /\ drawn \in 0..MaxGen
      /\ job \in [Jobs -> 0..MaxGen] /\ done \subseteq Jobs
      /\ worker \in {"idle", "claimed", "resolved", "posting"} /\ current \in Jobs \cup {NoJob}
      /\ cache \in [Secrets -> 0..Five] /\ proof \in [Secrets -> 0..(Five + MaxLag)]
      /\ replaced \in [secret : Secrets \cup {NoSecret}, left : 0..Five]
      /\ cancelled \cup lapsed \cup overtaken \subseteq Jobs
  BY DEF BaseInv, TypeOK, Stages
<1>00. MutexInv /\ Queued \subseteq Jobs
  BY DEF BaseInv, Queued
<1>1. ASSUME NEW h \in Requests, NEW ttl \in 1..(MaxTTL + 1), NEW s \in Secrets, Subscribe(h, ttl, s)
      PROVE  BaseInv'
  <2>1. /\ \A g \in Requests : pc[g] = "idle" /\ draft[g] = NoRow /\ lag[g] = 0
        /\ pc' \in [Requests -> Stages] /\ pc'[h] \in {"challenge", "authorize"}
        /\ \A g \in Requests \ {h} : pc'[g] = "idle"
        /\ draft' \in [Requests -> Rows] /\ \A g \in Requests \ {h} : draft'[g] = NoRow
        /\ drawn' \in 0..MaxGen /\ drawn' >= drawn /\ draft'[h].gen \in 1..drawn'
        /\ draft'[h].secret = s /\ draft'[h].ttl >= 1
    BY <1>1, SubscribeEffect
  <2>2. UNCHANGED <<row, grant, lag, cache, job, done, worker, current, cancelled, lapsed, overtaken, proof, replaced>>
    BY <1>1 DEF Subscribe, sending, history, silenced
  <2>3. TypeOK'
    BY <1>0, <2>1, <2>2 DEF TypeOK, Stages
  <2>4. MutexInv'
    <3>1. row' # NoRow => row'.gen \in 1..drawn' /\ row'.secret \in Secrets
      BY <1>0, <1>00, <2>1, <2>2, Numbers DEF MutexInv
    <3>2. \A j \in Jobs : job'[j] <= drawn'
      BY <1>0, <1>00, <2>1, <2>2, Numbers DEF MutexInv
    <3>3. \A g \in Requests :
             /\ pc'[g] = "idle" => draft'[g] = NoRow /\ lag'[g] = 0
             /\ pc'[g] # "idle" => /\ draft'[g].gen \in 1..drawn' /\ draft'[g].secret \in Secrets
                                   /\ draft'[g].ttl >= 1
      BY <2>1, <2>2
    <3>4. \A f, g \in Requests : pc'[f] # "idle" /\ pc'[g] # "idle" => f = g
      BY <2>1
    <3> QED
      BY <1>00, <2>2, <3>1, <3>2, <3>3, <3>4 DEF MutexInv
  <2> QED
    BY <2>3, <2>4 DEF BaseInv
<1>2. ASSUME NEW h \in Requests, Challenge(h) PROVE BaseInv'
  <2>1. /\ pc' \in [Requests -> Stages] /\ \A g \in Requests : pc'[g] # "idle" <=> pc[g] # "idle"
    BY <1>2, GoesOn DEF Challenge, Stages
  <2>2. UNCHANGED <<row, grant, draft, lag, drawn, job, done, worker, current, cancelled, lapsed, overtaken, replaced>>
    BY <1>2 DEF Challenge, sending, silenced
  <2>3. Less(Five, lag[h]) \in 0..Five /\ 0 \in 0..(Five + MaxLag)
    BY <1>0, Numbers, LessBounds
  <2>4. cache' \in [Secrets -> 0..Five] /\ proof' \in [Secrets -> 0..(Five + MaxLag)]
    BY <1>0, <1>2, <2>3 DEF Challenge
  <2> QED
    BY <1>0, <1>00, <2>1, <2>2, <2>4 DEF BaseInv, TypeOK, MutexInv, Stages
<1>3. ASSUME NEW h \in Requests, Authorize(h) PROVE BaseInv'
  <2>1. /\ pc' \in [Requests -> Stages] /\ \A g \in Requests : pc'[g] # "idle" <=> pc[g] # "idle"
    BY <1>3, GoesOn DEF Authorize, Stages
  <2>2. UNCHANGED <<row, grant, draft, lag, drawn, cache, sending, history>>
    BY <1>3 DEF Authorize
  <2> QED
    BY <1>0, <1>00, <2>1, <2>2 DEF BaseInv, TypeOK, MutexInv, Stages, sending, history, silenced
<1>4. ASSUME NEW h \in Requests, Save(h) PROVE BaseInv'
  <2>1. /\ pc' \in [Requests -> Stages] /\ draft' \in [Requests -> Rows]
        /\ lag' \in [Requests -> 0..MaxLag]
        /\ pc'[h] = "idle" /\ draft'[h] = NoRow /\ lag'[h] = 0
        /\ \A g \in Requests \ {h} : pc'[g] = pc[g] /\ draft'[g] = draft[g] /\ lag'[g] = lag[g]
    BY <1>4, ReturnEffect DEF Save
  <2>2. UNCHANGED <<grant, drawn, cache, job, done, worker, current, cancelled, lapsed, overtaken, proof>>
    BY <1>4 DEF Save, sending, silenced
  <2>3. /\ row' \in Rows /\ row'.gen = draft[h].gen /\ row'.secret = draft[h].secret
        /\ draft[h].gen \in 1..drawn /\ draft[h].secret \in Secrets
    BY <1>4, SaveEffect
  <2>4. replaced' \in [secret : Secrets \cup {NoSecret}, left : 0..Five]
    <3>1. Less(Five, lag[h]) \in 0..Five /\ row.secret \in Secrets \cup {NoSecret}
      BY <1>0, Numbers, LessBounds, RowFields
    <3> QED
      BY <1>0, <1>4, <3>1, NoRowTyped DEF Save
  <2> QED
    BY <1>0, <1>00, <2>1, <2>2, <2>3, <2>4 DEF BaseInv, TypeOK, MutexInv, Stages
<1>5. ASSUME NEW h \in Requests, Refuse(h) PROVE BaseInv'
  <2>1. /\ pc' \in [Requests -> Stages] /\ draft' \in [Requests -> Rows]
        /\ lag' \in [Requests -> 0..MaxLag]
        /\ pc'[h] = "idle" /\ draft'[h] = NoRow /\ lag'[h] = 0
        /\ \A g \in Requests \ {h} : pc'[g] = pc[g] /\ draft'[g] = draft[g] /\ lag'[g] = lag[g]
    BY <1>5, ReturnEffect DEF Refuse
  <2>2. UNCHANGED <<row, grant, drawn, cache, sending, history>>
    BY <1>5 DEF Refuse
  <2> QED
    BY <1>0, <1>00, <2>1, <2>2 DEF BaseInv, TypeOK, MutexInv, Stages, sending, history, silenced
<1>6. CASE Unsubscribe
  BY <1>0, <1>00, <1>6, NoRowTyped DEF Unsubscribe, BaseInv, TypeOK, MutexInv, Stages, requests, sending
<1>7. CASE Revoke
  BY <1>0, <1>00, <1>7 DEF Revoke, BaseInv, TypeOK, MutexInv, Stages, requests, sending
<1>8. ASSUME NEW j \in Jobs, NEW stale \in 0..MaxLag, Enqueue(j, stale) PROVE BaseInv'
  <2>1. job' = [job EXCEPT ![j] = row.gen] /\ row.gen \in 0..MaxGen /\ row.gen <= drawn
    BY <1>0, <1>00, <1>8, RowFields, Numbers DEF Enqueue, MutexInv
  <2>2. job' \in [Jobs -> 0..MaxGen] /\ \A k \in Jobs : job'[k] = IF k = j THEN row.gen ELSE job[k]
    BY <1>0, <2>1
  <2>3. UNCHANGED <<row, grant, requests, done, worker, current, history>>
    BY <1>8 DEF Enqueue
  <2> QED
    BY <1>0, <1>00, <2>1, <2>2, <2>3 DEF BaseInv, TypeOK, MutexInv, Stages, requests, history, silenced
<1>9. ASSUME NEW j \in Jobs, Claim(j) PROVE BaseInv'
  BY <1>0, <1>00, <1>9 DEF Claim, BaseInv, TypeOK, MutexInv, Stages, requests, history, silenced
<1>10. CASE Resolve \/ Answered \/ TryAgain
  BY <1>0, <1>00, <1>10 DEF Resolve, Answered, TryAgain, Finish, BaseInv, TypeOK, MutexInv, Stages, requests, history, silenced
<1>11. CASE Gone
  BY <1>0, <1>00, <1>11, NoRowTyped DEF Gone, Finish, Deleted, BaseInv, TypeOK, MutexInv, Stages, requests
<1>12. CASE Prune
  BY <1>0, <1>00, <1>12, NoRowTyped DEF Prune, Deleted, BaseInv, TypeOK, MutexInv, Stages, requests, sending
<1>13. CASE Crash
  BY <1>0, <1>00, <1>13, NoRowTyped, Numbers DEF Crash, BaseInv, TypeOK, MutexInv, Stages, history, silenced
<1>14. CASE Tick
  <2>1. row' \in Rows /\ (row' # NoRow => row'.gen \in 1..drawn /\ row'.secret \in Secrets)
    BY <1>0, <1>00, <1>14, TickEffect DEF MutexInv
  <2>2. /\ lag' \in [Requests -> 0..MaxLag]
        /\ \A h \in Requests : pc[h] = "idle" => lag'[h] = 0
    BY <1>0, <1>14, Numbers DEF Tick, Busy
  <2>3. cache' \in [Secrets -> 0..Five]
    <3>1. \A s \in Secrets : Less(cache[s], 1) \in 0..Five
      BY <1>0, Numbers DEF Less
    <3> QED
      BY <1>14, <3>1 DEF Tick
  <2>4. proof' \in [Secrets -> 0..(Five + MaxLag)]
    <3>1. \A s \in Secrets : More(proof[s], 1, Five + MaxLag) \in 0..(Five + MaxLag)
      BY <1>0, Numbers DEF More
    <3> QED
      BY <1>14, <3>1 DEF Tick
  <2>5. replaced' \in [secret : Secrets \cup {NoSecret}, left : 0..Five]
    BY <1>0, <1>14, NoRowTyped, Numbers DEF Tick
  <2>6. UNCHANGED <<grant, pc, draft, drawn, job, done, worker, current, cancelled, overtaken>>
    BY <1>14 DEF Tick, sending
  <2>7. cancelled' \cup lapsed' \cup overtaken' \subseteq Jobs
    BY <1>0, <1>00, <1>14 DEF Tick
  <2> QED
    BY <1>0, <1>00, <2>1, <2>2, <2>3, <2>4, <2>5, <2>6, <2>7 DEF BaseInv, TypeOK, MutexInv, Stages
<1>15. CASE UNCHANGED vars
  BY <1>15 DEF vars, requests, sending, history, silenced, BaseInv, TypeOK, MutexInv
<1> QED
  BY <1>1, <1>2, <1>3, <1>4, <1>5, <1>6, <1>7, <1>8, <1>9, <1>10, <1>11, <1>12, <1>13, <1>14, <1>15 DEF Next

(* Types of the subscription.                                              *)
THEOREM TypeCorrect == Spec => []TypeOK
<1>1. BaseInv => TypeOK
  BY DEF BaseInv
<1> QED
  BY <1>1, BaseInit, BaseStep, PTL DEF Spec

-----------------------------------------------------------------------------
(* Only Resolve posts, after Sender found the subscription live.           *)
LEMMA OnlyLivePosts ==
  ASSUME [Next]_vars, NEW j, Posts(j)
  PROVE  j = current /\ Live(j) /\ UNCHANGED <<row, grant>>
  BY DEF Next, Posts, Subscribe, Challenge, Authorize, Save, Refuse, Return, Unsubscribe, Revoke, Enqueue,
         Claim, Resolve, Answered, TryAgain, Gone, Finish, Deleted, Prune, Crash, Tick, vars, sending

(* The generation of the job is that of no row to come.                    *)
Retired(j) ==
    /\ job[j] # 0 /\ row.gen # job[j]
    /\ \A h \in Requests : draft[h].gen # job[j]

(* The same of a job whose row has expired and may still be there: no      *)
(* request has it in its draft, and none will extend it.                   *)
Dormant(j) ==
    /\ job[j] # 0 /\ (row.gen = job[j] => row.ttl <= 0)
    /\ \A h \in Requests : draft[h].gen # job[j]

SilenceInv ==
    /\ \A j \in cancelled : Retired(j)
    /\ grant => \A j \in lapsed : Dormant(j)

LEMMA SilenceStep == BaseInv /\ SilenceInv /\ [Next]_vars => SilenceInv'
<1> SUFFICES ASSUME BaseInv, SilenceInv, [Next]_vars PROVE SilenceInv'
  OBVIOUS
<1>0. /\ row \in Rows /\ drawn \in 0..MaxGen /\ job \in [Jobs -> 0..MaxGen]
      /\ draft \in [Requests -> Rows]
      /\ cancelled \subseteq Jobs /\ lapsed \subseteq Jobs /\ overtaken \subseteq Jobs
      /\ \A j \in Jobs : job[j] <= drawn
      /\ Queued \subseteq Jobs /\ \A j \in Queued : job[j] # 0
      /\ \A h \in Requests : pc[h] = "idle" => draft[h] = NoRow
  BY DEF BaseInv, TypeOK, MutexInv, Queued
(* Drafts that are given up, and rows that go, bring no job back.          *)
<1>1. ASSUME UNCHANGED <<job, cancelled, lapsed>>, grant' => grant,
             row' = row \/ row' = NoRow,
             \A h \in Requests : draft'[h] = draft[h] \/ draft'[h] = NoRow
      PROVE  SilenceInv'
  BY <1>0, <1>1, NoRowTyped DEF SilenceInv, Retired, Dormant
<1>2. ASSUME NEW h \in Requests, NEW ttl \in 1..(MaxTTL + 1), NEW s \in Secrets, Subscribe(h, ttl, s)
      PROVE  SilenceInv'
  <2>1. /\ \A g \in Requests \ {h} : draft'[g] = NoRow
        /\ IF Keeps THEN draft'[h].gen = row.gen ELSE draft'[h].gen = drawn + 1
    BY <1>2, SubscribeEffect
  <2>2. UNCHANGED <<row, grant, job, cancelled, lapsed>>
    BY <1>2 DEF Subscribe, sending, history, silenced
  <2>3. ASSUME NEW j \in Jobs, job[j] # 0, Keeps => row.gen # job[j], NEW g \in Requests
        PROVE  draft'[g].gen # job[j]
    <3>1. job[j] \in Nat /\ job[j] <= drawn /\ drawn \in Nat
      BY <1>0, Numbers
    <3> QED
      BY <2>1, <2>3, <3>1, NoRowTyped
  <2>4. \A j \in cancelled : Retired(j)'
    BY <1>0, <2>2, <2>3 DEF SilenceInv, Retired
  <2>5. grant => \A j \in lapsed : Dormant(j)'
    <3> SUFFICES ASSUME grant, NEW j \in lapsed PROVE Dormant(j)'
      OBVIOUS
    <3>1. job[j] # 0 /\ (row.gen = job[j] => row.ttl <= 0) /\ j \in Jobs
      BY <1>0 DEF SilenceInv, Dormant
    <3>2. row.ttl <= 0 => ~Keeps
      BY <1>0, RowFields DEF Keeps
    <3> QED
      BY <2>2, <2>3, <3>1, <3>2 DEF Dormant
  <2> QED
    BY <2>2, <2>4, <2>5 DEF SilenceInv
<1>3. ASSUME NEW h \in Requests, Save(h) PROVE SilenceInv'
  <2>1. row'.gen = draft[h].gen /\ UNCHANGED <<grant, job, cancelled, lapsed>>
    BY <1>3, SaveEffect DEF Save, sending, silenced
  <2>2. \A g \in Requests : draft'[g] = draft[g] \/ draft'[g] = NoRow
    BY <1>3, ReturnEffect DEF Save
  <2> QED
    BY <1>0, <2>1, <2>2, NoRowTyped DEF SilenceInv, Retired, Dormant
<1>4. ASSUME NEW h \in Requests, Challenge(h) \/ Authorize(h) PROVE SilenceInv'
  BY <1>1, <1>4 DEF Challenge, Authorize, sending, history, silenced
<1>5. ASSUME NEW h \in Requests, Refuse(h) PROVE SilenceInv'
  <2>1. \A g \in Requests : draft'[g] = draft[g] \/ draft'[g] = NoRow
    BY <1>5, ReturnEffect DEF Refuse
  <2> QED
    BY <1>1, <1>5, <2>1 DEF Refuse, sending, history, silenced
<1>6. CASE Unsubscribe
  <2>1. /\ row' = NoRow /\ cancelled' = cancelled \cup Queued
        /\ UNCHANGED <<grant, draft, job, lapsed>>
    BY <1>6 DEF Unsubscribe, requests, sending
  <2>2. \A h \in Requests : draft[h].gen = 0
    BY <1>0, <1>6, NoRowTyped DEF Unsubscribe, Unlocked, Busy
  <2> QED
    BY <1>0, <2>1, <2>2, NoRowTyped DEF SilenceInv, Retired, Dormant
<1>7. CASE Revoke
  BY <1>7 DEF Revoke, requests, sending, SilenceInv, Retired
<1>8. ASSUME NEW j \in Jobs, NEW stale \in 0..MaxLag, Enqueue(j, stale) PROVE SilenceInv'
  <2>1. job[j] = 0 /\ \A k \in Jobs \ {j} : job'[k] = job[k]
    BY <1>0, <1>8 DEF Enqueue
  <2>2. UNCHANGED <<row, grant, draft, cancelled, lapsed>>
    BY <1>8 DEF Enqueue, requests, history, silenced
  <2>3. \A k \in cancelled : k # j /\ job'[k] = job[k]
    BY <1>0, <2>1 DEF SilenceInv, Retired
  <2>4. grant => \A k \in lapsed : k # j /\ job'[k] = job[k]
    BY <1>0, <2>1 DEF SilenceInv, Dormant
  <2> QED
    BY <2>2, <2>3, <2>4 DEF SilenceInv, Retired, Dormant
<1>9. ASSUME NEW j \in Jobs, Claim(j) PROVE SilenceInv'
  BY <1>1, <1>9 DEF Claim, requests, history, silenced
<1>10. CASE Resolve \/ Answered \/ TryAgain
  BY <1>1, <1>10 DEF Resolve, Answered, TryAgain, requests, history, silenced
<1>11. CASE Gone \/ Prune
  <2>1. /\ row' = NoRow /\ UNCHANGED <<grant, draft, job, cancelled>>
        /\ lapsed' = IF Busy = {} THEN lapsed \cup Queued ELSE lapsed
    BY <1>11 DEF Gone, Prune, Deleted, requests, sending
  <2>2. \A j \in cancelled : Retired(j)'
    BY <1>0, <2>1, NoRowTyped DEF SilenceInv, Retired
  <2>3. CASE Busy = {}
    <3>1. \A h \in Requests : draft[h].gen = 0
      BY <1>0, <2>3, NoRowTyped DEF Busy
    <3> QED
      BY <1>0, <2>1, <2>2, <2>3, <3>1, NoRowTyped DEF SilenceInv, Dormant
  <2>4. CASE Busy # {}
    BY <1>0, <2>1, <2>2, <2>4, NoRowTyped DEF SilenceInv, Dormant
  <2> QED
    BY <2>3, <2>4
<1>12. CASE Crash
  BY <1>1, <1>12 DEF Crash, history, silenced
<1>13. CASE Tick
  <2>1. /\ row'.gen = row.gen /\ row'.ttl <= row.ttl /\ row.ttl \in Int /\ row'.ttl \in Int
        /\ row.ttl = 1 => row'.ttl = 0
    BY <1>0, <1>13, TickEffect, RowFields
  <2>2. /\ UNCHANGED <<grant, draft, job, cancelled>>
        /\ lapsed' = lapsed \/ (row.ttl = 1 /\ Busy = {} /\ lapsed' = lapsed \cup Queued)
    BY <1>13 DEF Tick, sending
  <2>3. \A j \in cancelled : Retired(j)'
    BY <2>1, <2>2 DEF SilenceInv, Retired
  <2>4. grant => \A j \in lapsed : Dormant(j)'
    BY <2>1, <2>2 DEF SilenceInv, Dormant
  <2>5. ASSUME row.ttl = 1, Busy = {}, NEW j \in Queued PROVE Dormant(j)'
    <3>1. \A h \in Requests : draft[h].gen = 0
      BY <1>0, <2>5, NoRowTyped DEF Busy
    <3> QED
      BY <1>0, <2>1, <2>2, <2>5, <3>1 DEF Dormant
  <2> QED
    BY <2>2, <2>3, <2>4, <2>5 DEF SilenceInv
<1>14. CASE UNCHANGED vars
  BY <1>1, <1>14 DEF vars, requests, sending, history, silenced
<1> QED
  BY <1>2, <1>3, <1>4, <1>5, <1>6, <1>7, <1>8, <1>9, <1>10, <1>11, <1>12, <1>13, <1>14 DEF Next

LEMMA SilenceInit == Init => SilenceInv
  BY DEF Init, SilenceInv

(* A job that was waiting when the subscriber cancelled is never posted.   *)
THEOREM CancelledSilent == Spec => CancelledStaysSilent
<1>1. BaseInv /\ SilenceInv /\ [Next]_vars => [\A j \in cancelled : ~Posts(j)]_vars
  BY OnlyLivePosts DEF SilenceInv, Retired, Live
<1> QED
  BY <1>1, BaseInit, BaseStep, SilenceInit, SilenceStep, PTL DEF Spec, CancelledStaysSilent

(* Nor one that was waiting when the subscription expired, was revoked or  *)
(* was answered 410 with no subscribe request under way.                   *)
THEOREM LapsedSilent == Spec => LapsedStaysSilent
<1>1. BaseInv /\ SilenceInv /\ [Next]_vars => [\A j \in lapsed : ~Posts(j)]_vars
  <2> SUFFICES ASSUME BaseInv, SilenceInv, [Next]_vars, NEW j \in lapsed, Posts(j) PROVE FALSE
    OBVIOUS
  <2>1. Live(j)
    BY OnlyLivePosts
  <2>2. row.gen = job[j] => row.ttl <= 0
    BY <2>1 DEF SilenceInv, Dormant, Live
  <2>3. row.ttl \in Int
    BY RowFields DEF BaseInv, TypeOK
  <2> QED
    BY <2>1, <2>2, <2>3 DEF Live
<1> QED
  BY <1>1, BaseInit, BaseStep, SilenceInit, SilenceStep, PTL DEF Spec, LapsedStaysSilent

-----------------------------------------------------------------------------
(* What is cached, stored with the row or noted in a draft about a         *)
(* challenge never makes it younger than it is.                            *)
VerifiedInv ==
    /\ \A s \in Secrets : cache[s] > 0 => proof[s] <= Five - cache[s]
    /\ row.ttl > 0 /\ row.age < Five => proof[row.secret] <= row.age
    /\ \A h \in Requests :
          /\ pc[h] # "idle" => draft[h].age < Five
          /\ pc[h] \in {"authorize", "save"} => proof[draft[h].secret] <= draft[h].age + lag[h]

LEMMA VerifiedStep == BaseInv /\ VerifiedInv /\ [Next]_vars => VerifiedInv'
<1> SUFFICES ASSUME BaseInv, VerifiedInv, [Next]_vars PROVE VerifiedInv'
  OBVIOUS
<1>0. /\ row \in Rows /\ pc \in [Requests -> Stages] /\ draft \in [Requests -> Rows]
      /\ lag \in [Requests -> 0..MaxLag]
      /\ cache \in [Secrets -> 0..Five] /\ proof \in [Secrets -> 0..(Five + MaxLag)]
      /\ row.ttl > 0 => row.secret \in Secrets
      /\ \A h \in Requests : pc[h] # "idle" => draft[h].secret \in Secrets
  BY NoRowTyped DEF BaseInv, TypeOK, MutexInv, Stages
(* A request that ends, or a row that goes, claims nothing.                *)
<1>1. ASSUME proof' = proof, row' = row \/ row' = NoRow, cache' = cache \/ \A s \in Secrets : cache'[s] = 0,
             \A h \in Requests : \/ pc'[h] = "idle"
                                 \/ pc'[h] = pc[h] /\ draft'[h] = draft[h] /\ lag'[h] = lag[h]
      PROVE  VerifiedInv'
  <2>1. \A s \in Secrets : cache'[s] > 0 => proof'[s] <= Five - cache'[s]
    BY <1>0, <1>1 DEF VerifiedInv
  <2>2. row'.ttl > 0 /\ row'.age < Five => proof'[row'.secret] <= row'.age
    BY <1>0, <1>1, NoRowTyped DEF VerifiedInv
  <2>3. \A h \in Requests :
          /\ pc'[h] # "idle" => draft'[h].age < Five
          /\ pc'[h] \in {"authorize", "save"} => proof'[draft'[h].secret] <= draft'[h].age + lag'[h]
    BY <1>0, <1>1 DEF VerifiedInv
  <2> QED
    BY <2>1, <2>2, <2>3 DEF VerifiedInv
<1>2. ASSUME NEW h \in Requests, NEW ttl \in 1..(MaxTTL + 1), NEW s \in Secrets, Subscribe(h, ttl, s)
      PROVE  VerifiedInv'
  <2>1. /\ \A g \in Requests : pc[g] = "idle" /\ lag[g] = 0
        /\ pc'[h] \in {"challenge", "authorize"} /\ (pc'[h] = "challenge" <=> MustChallenge(s))
        /\ \A g \in Requests \ {h} : pc'[g] = "idle"
        /\ draft'[h].secret = s
        /\ draft'[h].age = IF MustChallenge(s) THEN 0 ELSE VerifiedAge(s)
    BY <1>2, SubscribeEffect
  <2>2. UNCHANGED <<row, lag, cache, proof>>
    BY <1>2 DEF Subscribe, history
  <2>3. ~MustChallenge(s) => VerifiedAge(s) < Five /\ proof[s] <= VerifiedAge(s)
    <3>1. CASE Keeps /\ row.secret = s /\ row.age < Five
      BY <3>1 DEF Keeps, VerifiedAge, VerifiedInv
    <3>2. CASE ~(Keeps /\ row.secret = s /\ row.age < Five)
      <4>1. cache[s] \in 0..Five
        BY <1>0
      <4>2. ~MustChallenge(s) => cache[s] > 0
        BY <3>2, <4>1, Numbers DEF MustChallenge
      <4>3. VerifiedAge(s) = Five - cache[s]
        BY <3>2 DEF VerifiedAge
      <4> QED
        BY <4>1, <4>2, <4>3, Numbers DEF VerifiedInv
    <3> QED
      BY <3>1, <3>2
  <2>4. draft'[h].age < Five /\ (pc'[h] = "authorize" => proof'[draft'[h].secret] <= draft'[h].age + lag'[h])
    <3>1. lag'[h] = 0 /\ proof'[s] = proof[s] /\ proof[s] \in Int
      BY <1>0, <2>1, <2>2, Numbers
    <3>2. CASE MustChallenge(s)
      BY <2>1, <3>2, Numbers
    <3>3. CASE ~MustChallenge(s)
      <4>1. VerifiedAge(s) \in Int
        BY <1>0, RowFields, Numbers DEF VerifiedAge
      <4> QED
        BY <2>1, <2>3, <3>1, <3>3, <4>1
    <3> QED
      BY <3>2, <3>3
  <2>5. /\ \A t \in Secrets : cache'[t] > 0 => proof'[t] <= Five - cache'[t]
        /\ row'.ttl > 0 /\ row'.age < Five => proof'[row'.secret] <= row'.age
    BY <2>2 DEF VerifiedInv
  <2>6. ASSUME NEW g \in Requests
        PROVE  /\ pc'[g] # "idle" => draft'[g].age < Five
               /\ pc'[g] \in {"authorize", "save"} => proof'[draft'[g].secret] <= draft'[g].age + lag'[g]
    <3>1. CASE g = h
      BY <2>1, <2>4, <3>1
    <3>2. CASE g # h
      BY <2>1, <3>2
    <3> QED
      BY <3>1, <3>2
  <2> QED
    BY <2>5, <2>6 DEF VerifiedInv
<1>3. ASSUME NEW h \in Requests, Challenge(h) PROVE VerifiedInv'
  <2> DEFINE s == draft[h].secret
  <2>1. /\ pc'[h] = "authorize" /\ \A g \in Requests \ {h} : pc'[g] = "idle"
        /\ s \in Secrets /\ draft[h].age < Five /\ draft[h].age \in Nat /\ lag[h] \in Nat
        /\ UNCHANGED <<row, draft, lag>>
    <3>1. pc'[h] = "authorize" /\ \A g \in Requests \ {h} : pc'[g] = pc[g]
      BY <1>3, GoesOn DEF Challenge, Stages
    <3>2. \A g \in Requests \ {h} : pc[g] = "idle"
      BY <1>3 DEF Challenge, BaseInv, MutexInv
    <3> QED
      BY <1>0, <1>3, <3>1, <3>2, RowFields, Numbers DEF Challenge, VerifiedInv
  <2>2. proof' = [proof EXCEPT ![s] = 0] /\ (cache' = cache \/ cache' = [cache EXCEPT ![s] = Less(Five, lag[h])])
    BY <1>3 DEF Challenge
  <2>3. Less(Five, lag[h]) \in 0..Five
    BY <2>1, Numbers, LessBounds
  <2> HIDE DEF s
  <2>4. proof'[s] = 0 /\ \A t \in Secrets \ {s} : proof'[t] = proof[t] /\ cache'[t] = cache[t]
    BY <1>0, <2>1, <2>2
  <2>5. cache'[s] \in 0..Five
    BY <1>0, <2>1, <2>2, <2>3
  <2>6. \A t \in Secrets : cache'[t] > 0 => proof'[t] <= Five - cache'[t]
    BY <2>4, <2>5, Numbers DEF VerifiedInv
  <2>7. row'.ttl > 0 /\ row'.age < Five => proof'[row'.secret] <= row'.age
    BY <1>0, <2>1, <2>4, RowFields DEF VerifiedInv
  <2>8. ASSUME NEW g \in Requests
        PROVE  /\ pc'[g] # "idle" => draft'[g].age < Five
               /\ pc'[g] \in {"authorize", "save"} => proof'[draft'[g].secret] <= draft'[g].age + lag'[g]
    BY <2>1, <2>4 DEF s
  <2> QED
    BY <2>6, <2>7, <2>8 DEF VerifiedInv
<1>4. ASSUME NEW h \in Requests, Authorize(h) PROVE VerifiedInv'
  <2>1. /\ pc[h] = "authorize" /\ pc'[h] = "save" /\ \A g \in Requests \ {h} : pc'[g] = pc[g]
        /\ UNCHANGED <<row, draft, lag, cache, proof>>
    BY <1>0, <1>4 DEF Authorize, history
  <2> QED
    BY <2>1 DEF VerifiedInv
<1>5. ASSUME NEW h \in Requests, Save(h) PROVE VerifiedInv'
  <2>1. /\ pc'[h] = "idle" /\ \A g \in Requests \ {h} : pc'[g] = "idle"
    BY <1>5, ReturnEffect DEF Save, BaseInv, MutexInv
  <2>2. UNCHANGED <<cache, proof>>
    BY <1>5 DEF Save
  <2>3. row'.age < Five => proof'[row'.secret] <= row'.age
    <3>1. /\ row'.age = More(draft[h].age, lag[h], Five) /\ row'.secret = draft[h].secret
          /\ draft[h].age \in Nat /\ lag[h] \in Nat
      BY <1>5, SaveEffect, RowFields, Numbers
    <3>2. row'.age < Five => row'.age = draft[h].age + lag[h]
      BY <3>1, Numbers DEF More
    <3> QED
      BY <1>5, <2>2, <3>1, <3>2 DEF Save, VerifiedInv
  <2> QED
    BY <2>1, <2>2, <2>3 DEF VerifiedInv
<1>6. ASSUME NEW h \in Requests, Refuse(h) PROVE VerifiedInv'
  <2>1. \A g \in Requests : \/ pc'[g] = "idle"
                            \/ pc'[g] = pc[g] /\ draft'[g] = draft[g] /\ lag'[g] = lag[g]
    BY <1>6, ReturnEffect DEF Refuse
  <2> QED
    BY <1>1, <1>6, <2>1 DEF Refuse, history
<1>7. CASE Unsubscribe \/ Revoke
  BY <1>1, <1>7 DEF Unsubscribe, Revoke, requests
<1>8. ASSUME NEW j \in Jobs, NEW stale \in 0..MaxLag, Enqueue(j, stale) PROVE VerifiedInv'
  BY <1>1, <1>8 DEF Enqueue, requests, history
<1>9. ASSUME NEW j \in Jobs, Claim(j) PROVE VerifiedInv'
  BY <1>1, <1>9 DEF Claim, requests, history
<1>10. CASE Resolve \/ Answered \/ TryAgain
  BY <1>1, <1>10 DEF Resolve, Answered, TryAgain, requests, history
<1>11. CASE Gone \/ Prune
  BY <1>1, <1>11 DEF Gone, Prune, Deleted, requests
<1>12. CASE Crash
  <2>1. /\ \A h \in Requests : pc'[h] = "idle"
        /\ \A s \in Secrets : cache'[s] = 0
        /\ UNCHANGED <<row, proof>>
    BY <1>12 DEF Crash, history
  <2> QED
    BY <1>1, <2>1
<1>13. CASE Tick
  <2>1. ASSUME NEW s \in Secrets
        PROVE  /\ proof'[s] \in Nat /\ proof'[s] <= proof[s] + 1
               /\ cache'[s] > 0 => proof'[s] <= Five - cache'[s]
    <3>1. proof'[s] = More(proof[s], 1, Five + MaxLag) /\ cache'[s] = Less(cache[s], 1)
      BY <1>13 DEF Tick
    <3>2. proof[s] \in Nat /\ cache[s] \in Nat
      BY <1>0, Numbers
    <3>3. proof'[s] \in Nat /\ proof'[s] <= proof[s] + 1
      BY <3>1, <3>2, Numbers DEF More
    <3>4. cache'[s] > 0 => cache[s] > 0 /\ cache'[s] = cache[s] - 1
      BY <3>1, <3>2 DEF Less
    <3> QED
      BY <3>2, <3>3, <3>4, Numbers DEF VerifiedInv
  <2>2. row'.ttl > 0 /\ row'.age < Five => proof'[row'.secret] <= row'.age
    <3> SUFFICES ASSUME row'.ttl > 0, row'.age < Five PROVE proof'[row'.secret] <= row'.age
      OBVIOUS
    <3>1. row'.ttl <= row.ttl /\ row.ttl \in Int /\ row'.ttl \in Int /\ row'.secret = row.secret
      BY <1>0, <1>13, TickEffect, RowFields
    <3>2. row.ttl > 0 /\ row' = Later(row, 1) /\ row.age \in Nat
      BY <1>0, <1>13, <3>1, TickEffect, RowFields
    <3>3. row'.age = More(row.age, 1, Five)
      BY <1>0, <3>2, LaterRow
    <3>4. row'.age = row.age + 1 /\ row.age < Five
      BY <3>2, <3>3, Numbers DEF More
    <3>5. proof[row.secret] <= row.age /\ row.secret \in Secrets
      BY <1>0, <3>2, <3>4 DEF VerifiedInv
    <3>6. proof[row.secret] \in Nat
      BY <1>0, <3>5, Numbers
    <3> QED
      BY <2>1, <3>1, <3>2, <3>4, <3>5, <3>6
  <2>3. ASSUME NEW h \in Requests
        PROVE  /\ pc'[h] # "idle" => draft'[h].age < Five
               /\ pc'[h] \in {"authorize", "save"} => proof'[draft'[h].secret] <= draft'[h].age + lag'[h]
    <3>1. pc' = pc /\ draft' = draft
      BY <1>13 DEF Tick
    <3>2. pc[h] # "idle" => lag'[h] = lag[h] + 1
      BY <1>13 DEF Tick, Busy
    <3>3. lag[h] \in Nat /\ draft[h].age \in Nat
      BY <1>0, RowFields, Numbers
    <3>4. pc[h] # "idle" => draft[h].secret \in Secrets /\ proof[draft[h].secret] \in Nat
      BY <1>0, Numbers
    <3>5. pc[h] \in {"authorize", "save"} => proof'[draft[h].secret] <= draft[h].age + (lag[h] + 1)
      BY <2>1, <3>3, <3>4 DEF VerifiedInv
    <3> QED
      BY <3>1, <3>2, <3>5 DEF VerifiedInv
  <2> QED
    BY <2>1, <2>2, <2>3 DEF VerifiedInv
<1>14. CASE UNCHANGED vars
  BY <1>1, <1>14 DEF vars, requests, sending, history, silenced
<1> QED
  BY <1>2, <1>3, <1>4, <1>5, <1>6, <1>7, <1>8, <1>9, <1>10, <1>11, <1>12, <1>13, <1>14 DEF Next

LEMMA VerifiedInit == Init => VerifiedInv
  BY NoRowTyped, Numbers DEF Init, VerifiedInv

(* A row only changes through the request at the end of its way, and then  *)
(* its callback echoed a challenge in the five minutes before it began.    *)
THEOREM SavedVerified == Spec => SavedIsVerified
<1> DEFINE Saves(h) == pc[h] = "save" /\ row' # row /\ pc'[h] = "idle"
<1>1. BaseInv /\ VerifiedInv /\ [Next]_vars =>
         [\A h \in Requests : Saves(h) => proof[draft[h].secret] < Five + MaxLag]_vars
  <2> SUFFICES ASSUME BaseInv, VerifiedInv, NEW h \in Requests, pc[h] = "save"
               PROVE  proof[draft[h].secret] < Five + MaxLag
    OBVIOUS
  <2>1. /\ draft[h].age < Five /\ proof[draft[h].secret] <= draft[h].age + lag[h]
        /\ draft[h].secret \in Secrets
    BY DEF VerifiedInv, BaseInv, MutexInv
  <2>2. /\ draft[h].age \in Nat /\ lag[h] \in 0..MaxLag
        /\ proof[draft[h].secret] \in 0..(Five + MaxLag)
    BY <2>1, RowFields DEF BaseInv, TypeOK
  <2> QED
    BY <2>1, <2>2, Numbers
<1> QED
  BY <1>1, BaseInit, BaseStep, VerifiedInit, VerifiedStep, PTL DEF Spec, SavedIsVerified

-----------------------------------------------------------------------------
(* A request that extends the row, which is still of the generation it     *)
(* found.                                                                  *)
Extends(h) == pc[h] # "idle" /\ row.gen = draft[h].gen

(* Its draft knows the secret the row has, or the one the row replaced and *)
(* for how long: aged by what the request takes, it is what the row says.  *)
Remembers(h) ==
    IF row.secret = draft[h].secret
    THEN /\ row.overlap = Less(draft[h].overlap, lag[h])
         /\ row.overlap > 0 => row.old = draft[h].old
    ELSE draft[h].overlap = Five /\ draft[h].old = row.secret

(* The secret that was replaced last, if its five minutes are not over, is *)
(* the row's old secret for at least as long.                              *)
ReplacedInv == replaced.left > 0 => replaced.left <= row.overlap /\ replaced.secret = row.old

SecretsInv ==
    /\ ReplacedInv
    /\ \A h \in Requests : Extends(h) => row.ttl >= 1 - lag[h] /\ Remembers(h)

LEMMA SecretsStep == BaseInv /\ SecretsInv /\ [Next]_vars => SecretsInv'
<1> SUFFICES ASSUME BaseInv, SecretsInv, [Next]_vars PROVE SecretsInv'
  OBVIOUS
<1>0. /\ row \in Rows /\ pc \in [Requests -> Stages] /\ draft \in [Requests -> Rows]
      /\ lag \in [Requests -> 0..MaxLag] /\ drawn \in 0..MaxGen
      /\ replaced \in [secret : Secrets \cup {NoSecret}, left : 0..Five]
      /\ \A h \in Requests : pc[h] # "idle" => draft[h].gen \in 1..drawn
  BY DEF BaseInv, TypeOK, MutexInv, Stages
(* A row that nobody touches, under requests that end or keep their draft. *)
<1>1. ASSUME UNCHANGED <<row, replaced>>,
             \A h \in Requests : \/ pc'[h] = "idle"
                                 \/ pc[h] # "idle" /\ draft'[h] = draft[h] /\ lag'[h] = lag[h]
      PROVE  SecretsInv'
  BY <1>1 DEF SecretsInv, ReplacedInv, Extends, Remembers
(* A row that goes: no draft has its generation.                           *)
<1>2. ASSUME row' = NoRow, replaced' = Never, UNCHANGED <<pc, draft, lag>> PROVE SecretsInv'
  <2>1. \A h \in Requests : ~Extends(h)'
    BY <1>0, <1>2, NoRowTyped, Numbers DEF Extends
  <2> QED
    BY <1>2, <2>1, NoRowTyped DEF SecretsInv, ReplacedInv
<1>3. ASSUME NEW h \in Requests, NEW ttl \in 1..(MaxTTL + 1), NEW s \in Secrets, Subscribe(h, ttl, s)
      PROVE  SecretsInv'
  <2>1. /\ lag[h] = 0 /\ \A g \in Requests \ {h} : pc'[g] = "idle"
        /\ IF Keeps THEN draft'[h].gen = row.gen ELSE draft'[h].gen = drawn + 1
        /\ draft'[h].secret = s
        /\ draft'[h].old = Overlap(s).old /\ draft'[h].overlap = Overlap(s).overlap
    BY <1>3, SubscribeEffect
  <2>2. UNCHANGED <<row, lag, replaced>>
    BY <1>3 DEF Subscribe, history
  <2>3. ~Keeps => row.gen # draft'[h].gen
    <3>1. row.gen \in Nat /\ row.gen <= drawn /\ drawn \in Nat
      BY <1>0, NoRowTyped, Numbers DEF BaseInv, MutexInv
    <3> QED
      BY <2>1, <3>1
  <2>4. Keeps => row.ttl >= 1 - lag'[h]
    BY <1>0, <2>1, <2>2, RowFields DEF Keeps
  <2>5. Keeps => Remembers(h)'
    <3> SUFFICES ASSUME Keeps PROVE Remembers(h)'
      OBVIOUS
    <3>1. CASE row.secret # s
      BY <2>1, <2>2, <3>1 DEF Overlap, Remembers
    <3>2. CASE row.secret = s
      <4>1. row.overlap \in Nat /\ lag'[h] = 0
        BY <1>0, <2>1, <2>2, RowFields
      <4>2. /\ draft'[h].overlap = row.overlap
            /\ row.overlap > 0 => draft'[h].old = row.old
        BY <2>1, <3>2, <4>1 DEF Overlap
      <4>3. Less(draft'[h].overlap, lag'[h]) = row.overlap
        BY <4>1, <4>2 DEF Less
      <4> QED
        BY <2>1, <2>2, <3>2, <4>2, <4>3 DEF Remembers
    <3> QED
      BY <3>1, <3>2
  <2>6. \A g \in Requests : Extends(g)' => g = h
    BY <2>1 DEF Extends
  <2>7. Extends(h)' => Keeps
    BY <2>2, <2>3 DEF Extends
  <2> QED
    BY <2>2, <2>4, <2>5, <2>6, <2>7 DEF SecretsInv, ReplacedInv
<1>4. ASSUME NEW h \in Requests, Challenge(h) \/ Authorize(h) PROVE SecretsInv'
  <2>1. \A g \in Requests : pc'[g] # "idle" <=> pc[g] # "idle"
    BY <1>4, GoesOn DEF Challenge, Authorize, Stages
  <2> QED
    BY <1>1, <1>4, <2>1 DEF Challenge, Authorize, history
<1>5. ASSUME NEW h \in Requests, Save(h) PROVE SecretsInv'
  <2>1. \A g \in Requests : pc'[g] = "idle"
    BY <1>5, ReturnEffect DEF Save, BaseInv, MutexInv
  <2>2. /\ row'.overlap = Less(draft[h].overlap, lag[h])
        /\ row'.old = IF draft[h].overlap > lag[h] THEN draft[h].old ELSE NoSecret
        /\ draft[h].overlap \in Nat /\ lag[h] \in Nat
    BY <1>5, SaveEffect, RowFields, Numbers
  <2>3. ASSUME row.gen # draft[h].gen PROVE ReplacedInv'
    BY <1>5, <2>3, NoRowTyped DEF Save, ReplacedInv
  <2>4. ASSUME row.gen = draft[h].gen /\ row.secret = draft[h].secret PROVE ReplacedInv'
    <3>1. replaced' = replaced /\ row'.overlap = row.overlap /\ (row.overlap > 0 => row.old = draft[h].old)
      BY <1>5, <2>2, <2>4 DEF Save, SecretsInv, Extends, Remembers
    <3>2. row'.overlap > 0 => row'.old = draft[h].old
      BY <2>2 DEF Less
    <3>3. replaced.left \in Nat /\ row.overlap \in Nat
      BY <1>0, RowFields, Numbers
    <3> QED
      BY <3>1, <3>2, <3>3 DEF SecretsInv, ReplacedInv
  <2>5. ASSUME row.gen = draft[h].gen /\ row.secret # draft[h].secret PROVE ReplacedInv'
    <3>1. draft[h].overlap = Five /\ draft[h].old = row.secret
      BY <1>5, <2>5 DEF Save, SecretsInv, Extends, Remembers
    <3>2. replaced'.secret = row.secret /\ replaced'.left = Less(Five, lag[h])
      BY <1>5, <2>5 DEF Save
    <3> QED
      BY <2>2, <3>1, <3>2, Numbers DEF ReplacedInv, Less
  <2> QED
    BY <2>1, <2>3, <2>4, <2>5 DEF SecretsInv, Extends
<1>6. ASSUME NEW h \in Requests, Refuse(h) PROVE SecretsInv'
  <2>1. \A g \in Requests : \/ pc'[g] = "idle"
                            \/ pc'[g] = pc[g] /\ draft'[g] = draft[g] /\ lag'[g] = lag[g]
    BY <1>6, ReturnEffect DEF Refuse
  <2> QED
    BY <1>1, <1>6, <2>1 DEF Refuse, history
<1>7. CASE Unsubscribe
  BY <1>2, <1>7 DEF Unsubscribe, requests
<1>8. CASE Revoke
  BY <1>1, <1>8 DEF Revoke, requests
<1>9. ASSUME NEW j \in Jobs, NEW stale \in 0..MaxLag, Enqueue(j, stale) PROVE SecretsInv'
  BY <1>1, <1>9 DEF Enqueue, requests, history
<1>10. ASSUME NEW j \in Jobs, Claim(j) PROVE SecretsInv'
  BY <1>1, <1>10 DEF Claim, requests, history
<1>11. CASE Resolve \/ Answered \/ TryAgain
  BY <1>1, <1>11 DEF Resolve, Answered, TryAgain, requests, history
<1>12. CASE Gone \/ Prune
  BY <1>2, <1>12 DEF Gone, Prune, Deleted, requests
<1>13. CASE Crash
  BY <1>1, <1>13 DEF Crash, history
<1>14. CASE Tick
  <2>1. /\ row'.gen = row.gen /\ row'.secret = row.secret /\ pc' = pc /\ draft' = draft
        /\ row.ttl \in Int /\ row.overlap \in Nat
    BY <1>0, <1>14, TickEffect, RowFields DEF Tick
  <2>2. /\ row' = Later(row, 1) => row'.overlap = Less(row.overlap, 1)
        /\ row' = Later(row, 1) /\ row.overlap > 1 => row'.old = row.old
    BY <1>0, LaterRow
  <2>3. ReplacedInv'
    <3> SUFFICES ASSUME replaced'.left > 0
                 PROVE  replaced'.left <= row'.overlap /\ replaced'.secret = row'.old
      BY DEF ReplacedInv
    <3>1. replaced.left \in Nat
      BY <1>0, Numbers
    <3>2. replaced.left > 1
      BY <1>14, NoRowTyped DEF Tick
    <3>3. replaced'.left = replaced.left - 1 /\ replaced'.secret = replaced.secret
      BY <1>0, <1>14, <3>2 DEF Tick
    <3>4. replaced.left <= row.overlap /\ replaced.secret = row.old /\ row.overlap > 1
      BY <2>1, <3>1, <3>2 DEF SecretsInv, ReplacedInv
    <3>5. row' = row \/ row' = Later(row, 1)
      BY <1>14, TickEffect
    <3> QED
      BY <2>1, <2>2, <3>1, <3>2, <3>3, <3>4, <3>5 DEF Less
  <2>4. ASSUME NEW h \in Requests, Extends(h)' PROVE row'.ttl >= 1 - lag'[h] /\ Remembers(h)'
    <3>1. Extends(h) /\ lag[h] < MaxLag /\ lag'[h] = lag[h] + 1 /\ lag[h] \in Nat
      BY <1>0, <1>14, <2>1, <2>4, Numbers DEF Tick, Extends, Busy
    <3>2. row.ttl >= 1 - lag[h] /\ Remembers(h) /\ row # NoRow
      BY <1>0, <3>1, NoRowTyped DEF SecretsInv, Extends
    <3>3. row.ttl > -MaxLag
      BY <2>1, <3>1, <3>2, Numbers
    <3>4. row' = Later(row, 1) /\ row'.ttl = row.ttl - 1
      BY <1>14, <3>2, <3>3, TickEffect
    <3>5. draft[h].overlap \in Nat
      BY <1>0, RowFields
    <3>6. CASE row.secret = draft[h].secret
      <4>1. row.overlap = Less(draft[h].overlap, lag[h]) /\ (row.overlap > 0 => row.old = draft[h].old)
        BY <3>2, <3>6 DEF Remembers
      <4>2. row'.overlap = Less(draft[h].overlap, lag'[h])
        BY <2>2, <3>1, <3>4, <3>5, <4>1, LessAdds
      <4>3. row'.overlap > 0 => row.overlap > 1
        BY <2>1, <2>2, <3>4 DEF Less
      <4>4. row'.overlap > 0 => row'.old = draft[h].old
        BY <2>1, <2>2, <3>4, <4>1, <4>3
      <4> QED
        BY <2>1, <3>1, <3>2, <3>4, <3>6, <4>2, <4>4 DEF Remembers
    <3>7. CASE row.secret # draft[h].secret
      BY <2>1, <3>1, <3>2, <3>4, <3>7 DEF Remembers
    <3> QED
      BY <3>6, <3>7
  <2> QED
    BY <2>3, <2>4 DEF SecretsInv
<1>15. CASE UNCHANGED vars
  BY <1>1, <1>15 DEF vars, requests, history
<1> QED
  BY <1>3, <1>4, <1>5, <1>6, <1>7, <1>8, <1>9, <1>10, <1>11, <1>12, <1>13, <1>14, <1>15 DEF Next

LEMMA SecretsInit == Init => SecretsInv
  BY NoRowTyped DEF Init, SecretsInv, ReplacedInv, Extends

(* For five minutes after the last request that replaced the secret, what  *)
(* is posted is signed with the one it replaced too, whatever refreshes    *)
(* under the new one come between.                                         *)
THEOREM OldSecretSigns == Spec => OldSecretStillSigns
<1>1. BaseInv /\ SecretsInv =>
         \A j \in Jobs : Posts(j) /\ replaced # Never /\ replaced.left > 0 => replaced.secret \in Signers
  <2> SUFFICES ASSUME BaseInv, SecretsInv, replaced.left > 0 PROVE replaced.secret \in Signers
    OBVIOUS
  <2>1. row.overlap \in Nat /\ replaced.left \in 0..Five
    BY RowFields DEF BaseInv, TypeOK
  <2>2. row.overlap > 0 /\ replaced.secret = row.old
    BY <2>1, Numbers DEF SecretsInv, ReplacedInv
  <2> QED
    BY <2>2 DEF Signers
<1> QED
  BY <1>1, BaseInit, BaseStep, SecretsInit, SecretsStep, PTL DEF Spec, OldSecretStillSigns
=============================================================================
