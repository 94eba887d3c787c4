-------------------------- MODULE RuntimeConfigProofs --------------------------
(***************************************************************************)
(* Theorems about RuntimeConfig, for any number of administrators,         *)
(* channels, secrets, changes and failures: the tables stay consistent,    *)
(* and a change nobody's reload overlapped is what the gateway runs on.    *)
(***************************************************************************)
EXTENDS RuntimeConfig, TLAPS

Stages == {"idle", "write", "publish", "down"} \cup Queries

(* The foreign key of the rules, of any tables.                            *)
RoutesRefer(config) == config.routes \subseteq Existing(config)

-----------------------------------------------------------------------------
(* The tables after a change of one part are tables again.                 *)
LEMMA Tables ==
  ASSUME NEW config \in Configs
  PROVE  /\ config.credential \in Credentials
         /\ config.channels \in [Channels -> {"absent", "off", "on", "broken"}]
         /\ config.routes \subseteq Channels
         /\ config.silences \in BOOLEAN
         /\ \A x \in Credentials : [config EXCEPT !.credential = x] \in Configs
         /\ \A x \in SUBSET Channels : [config EXCEPT !.routes = x] \in Configs
         /\ [config EXCEPT !.silences = ~@] \in Configs
  BY DEF Configs

(* A record without a secret is one, and the part a query reads of the     *)
(* tables is what a snapshot may have in its place.                        *)
LEMMA QueryReads ==
  ASSUME NEW config \in Configs, NEW tables \in Configs, NEW q \in Queries,
         NEW new, new = [config EXCEPT ![q] = tables[q]]
  PROVE  /\ new \in Configs
         /\ new[q] = tables[q]
         /\ \A p \in Queries \ {q} : new[p] = config[p]
  BY DEF Configs, Queries

(* Tables that read the same are the same.                                 *)
LEMMA SameTables ==
  ASSUME NEW one \in Configs, NEW other \in Configs, \A q \in Queries : one[q] = other[q]
  PROVE  one = other
  BY DEF Configs, Queries

(* A write of whatever kind leaves tables, whose rules refer to channels   *)
(* that are there if they did before.                                      *)
Writes(a) ==
    \/ WriteCredential(a) \/ DeleteCredential(a) \/ WriteChannel(a) \/ WriteRoute(a)
    \/ DeleteRoute(a) \/ ChangeSilence(a)
    \/ \E c \in Channels, setting \in Saves : SaveChannel(a, c, setting)
    \/ \E c \in Channels : DeleteChannel(a, c)

Rewrites(a, new) ==
    /\ new \in Configs /\ RoutesRefer(db) => RoutesRefer(new)
    /\ Write(a, new) /\ retired' \subseteq 1..MaxSecrets

(* Or a rule refers to a channel that is gone, and the request ends there. *)
RefusesRoute(a) ==
    /\ pc[a] = "write"
    /\ pc' = [pc EXCEPT ![a] = "idle"] /\ draft' = [draft EXCEPT ![a] = Nothing]
    /\ UNCHANGED <<db, snapshot, view, issued, faults, sole, changes, retired>>

(* The kinds of drafts.                                                    *)
LEMMA DraftKinds ==
  ASSUME NEW d \in Drafts
  PROVE  /\ d.kind \in {"create", "update", "rotate"} => d.record \in Credentials
         /\ d.kind = "route" => d.targets \subseteq Channels
         /\ d.kind = "toggle" => d.channel \in Channels /\ d.setting \in {"off", "on", "broken"}
  BY DEF Drafts, Nothing

LEMMA WriteEffect ==
  ASSUME TypeOK, NEW a \in Admins, Writes(a)
  PROVE  RefusesRoute(a) \/ \E new \in Configs : Rewrites(a, new)
<1>0. /\ db \in Configs /\ draft[a] \in Drafts /\ retired \subseteq 1..MaxSecrets
      /\ db.credential.secret \in 0..MaxSecrets
      /\ draft[a].kind \in {"create", "update", "rotate"} => draft[a].record \in Credentials
      /\ draft[a].kind = "route" => draft[a].targets \subseteq Channels
      /\ draft[a].kind = "toggle" => /\ draft[a].channel \in Channels
                                     /\ draft[a].setting \in {"off", "on", "broken"}
  BY DraftKinds, Tables DEF TypeOK, Credentials
<1>1. CASE WriteCredential(a)
  <2> DEFINE new == [db EXCEPT !.credential = draft[a].record]
  <2>1. new \in Configs /\ new.routes = db.routes /\ new.channels = db.channels
    BY <1>0, <1>1, Tables DEF WriteCredential, Configs
  <2>2. retired' \subseteq 1..MaxSecrets
    <3>1. {db.credential.secret} \ {0} \subseteq 1..MaxSecrets
      BY <1>0, ConfigAssumption
    <3> QED
      BY <1>0, <1>1, <3>1 DEF WriteCredential
  <2> QED
    BY <1>1, <2>1, <2>2 DEF WriteCredential, Rewrites, RoutesRefer, Existing
<1>2. CASE DeleteCredential(a)
  <2> DEFINE new == [db EXCEPT !.credential = Absent]
  <2>1. new \in Configs /\ new.routes = db.routes /\ new.channels = db.channels
    <3>1. Absent \in Credentials
      BY ConfigAssumption DEF Absent, Credentials
    <3> QED
      BY <1>0, <3>1, Tables DEF Configs
  <2> QED
    BY <1>0, <1>2, <2>1 DEF DeleteCredential, Rewrites, RoutesRefer, Existing
<1>3. ASSUME NEW c \in Channels, NEW setting \in {"off", "on", "broken"}
      PROVE  /\ [db EXCEPT !.channels[c] = setting] \in Configs
             /\ RoutesRefer(db) => RoutesRefer([db EXCEPT !.channels[c] = setting])
  BY <1>0, Tables DEF Configs, RoutesRefer, Existing
<1>4. CASE WriteChannel(a)
  BY <1>0, <1>3, <1>4 DEF WriteChannel, Rewrites
<1>5. ASSUME NEW c \in Channels, NEW setting \in Saves, SaveChannel(a, c, setting)
      PROVE  \E new \in Configs : Rewrites(a, new)
  BY <1>0, <1>3, <1>5, ConfigAssumption DEF SaveChannel, Rewrites
<1>6. ASSUME NEW c \in Channels, DeleteChannel(a, c)
      PROVE  \E new \in Configs : Rewrites(a, new)
  <2> DEFINE new == [db EXCEPT !.channels[c] = "absent", !.routes = @ \ {c}]
  <2>1. new \in Configs /\ (RoutesRefer(db) => RoutesRefer(new))
    BY <1>0, Tables DEF Configs, RoutesRefer, Existing
  <2> QED
    BY <1>0, <1>6, <2>1 DEF DeleteChannel, Rewrites
<1>7. CASE WriteRoute(a)
  <2>1. CASE References(draft[a].targets)
    <3> DEFINE new == [db EXCEPT !.routes = draft[a].targets]
    <3>1. new \in Configs /\ RoutesRefer(new)
      BY <1>0, <1>7, <2>1, Tables DEF WriteRoute, References, RoutesRefer, Existing, Configs
    <3> QED
      BY <1>0, <1>7, <2>1, <3>1 DEF WriteRoute, Rewrites
  <2>2. CASE ~References(draft[a].targets)
    BY <1>0, <1>7, <2>2 DEF WriteRoute, RefusesRoute
  <2> QED
    BY <2>1, <2>2
<1>8. CASE DeleteRoute(a)
  <2> DEFINE new == [db EXCEPT !.routes = {}]
  <2>1. new \in Configs /\ RoutesRefer(new)
    BY <1>0, Tables DEF Configs, RoutesRefer
  <2> QED
    BY <1>0, <1>8, <2>1 DEF DeleteRoute, Rewrites
<1>9. CASE ChangeSilence(a)
  <2> DEFINE new == [db EXCEPT !.silences = ~@]
  <2>1. new \in Configs /\ new.routes = db.routes /\ new.channels = db.channels
    BY <1>0, Tables DEF Configs
  <2> QED
    BY <1>0, <1>9, <2>1 DEF ChangeSilence, Rewrites, RoutesRefer, Existing
<1> QED
  BY <1>1, <1>2, <1>4, <1>5, <1>6, <1>7, <1>8, <1>9 DEF Writes

(* A request that looks something up first keeps what it will write.       *)
Prepares(a) ==
    \/ CreateCredential(a) \/ RotateCredential(a)
    \/ \E enabled \in BOOLEAN : UpdateCredential(a, enabled)
    \/ \E c \in Channels : ToggleChannel(a, c)
    \/ \E targets \in SUBSET Channels : ReplaceRoute(a, targets)

LEMMA PrepareEffect ==
  ASSUME TypeOK, NEW a \in Admins, Prepares(a)
  PROVE  /\ issued' \in 0..MaxSecrets
         /\ \E d \in Drafts \ {Nothing} : Prepare(a, d)
<1>0. /\ db \in Configs /\ issued \in 0..MaxSecrets
      /\ db.credential \in Credentials
      /\ \A e \in BOOLEAN : [db.credential EXCEPT !.enabled = e] \in Credentials
      /\ \A n \in 0..MaxSecrets : [db.credential EXCEPT !.secret = n] \in Credentials
  <2>1. db \in Configs /\ issued \in 0..MaxSecrets
    BY DEF TypeOK
  <2>2. db.credential \in Credentials
    BY <2>1, Tables
  <2> QED
    BY <2>1, <2>2 DEF Credentials
<1>1. ASSUME NEW k \in {"create", "update", "rotate"}, NEW x \in Credentials
      PROVE  [kind |-> k, record |-> x] \in Drafts \ {Nothing}
  BY DEF Drafts, Nothing
<1>2. CASE CreateCredential(a)
  <2>1. issued' \in 0..MaxSecrets
    BY <1>0, <1>2, ConfigAssumption DEF CreateCredential
  <2>2. [secret |-> issued', enabled |-> TRUE] \in Credentials
    BY <2>1 DEF Credentials
  <2> QED
    BY <1>1, <1>2, <2>1, <2>2 DEF CreateCredential
<1>3. CASE RotateCredential(a)
  <2>1. issued' \in 0..MaxSecrets
    BY <1>0, <1>3, ConfigAssumption DEF RotateCredential
  <2>2. [db.credential EXCEPT !.secret = issued'] \in Credentials
    BY <1>0, <2>1
  <2> QED
    BY <1>1, <1>3, <2>1, <2>2 DEF RotateCredential
<1>4. ASSUME NEW e \in BOOLEAN, UpdateCredential(a, e)
      PROVE  issued' \in 0..MaxSecrets /\ \E d \in Drafts \ {Nothing} : Prepare(a, d)
  BY <1>0, <1>1, <1>4 DEF UpdateCredential
<1>5. ASSUME NEW c \in Channels, ToggleChannel(a, c)
      PROVE  issued' \in 0..MaxSecrets /\ \E d \in Drafts \ {Nothing} : Prepare(a, d)
  <2>1. [kind |-> "toggle", channel |-> c, setting |-> Toggled(c)] \in Drafts \ {Nothing}
    BY DEF Drafts, Nothing, Toggled
  <2> QED
    BY <1>0, <1>5, <2>1 DEF ToggleChannel
<1>6. ASSUME NEW targets \in SUBSET Channels, ReplaceRoute(a, targets)
      PROVE  issued' \in 0..MaxSecrets /\ \E d \in Drafts \ {Nothing} : Prepare(a, d)
  <2>1. [kind |-> "route", targets |-> targets] \in Drafts \ {Nothing}
    BY DEF Drafts, Nothing
  <2> QED
    BY <1>0, <1>6, <2>1 DEF ReplaceRoute
<1> QED
  BY <1>2, <1>3, <1>4, <1>5, <1>6 DEF Prepares

(* Every step of the configuration is one of these.                        *)
LEMMA Steps ==
  ASSUME [Next]_vars
  PROVE  \/ \E a \in Admins : Prepares(a) \/ Writes(a) \/ Read(a) \/ Publish(a) \/ Fail(a)
         \/ Restart \/ UNCHANGED vars
  BY DEF Next, Change, Prepares, Writes

-----------------------------------------------------------------------------
(* A query is followed by another one, or by the swap.                     *)
LEMMA NextStage ==
  ASSUME NEW q \in Queries
  PROVE  After(q) \in {"channels", "routes", "silences", "publish"}
  BY DEF Queries, After

(* What a request starts with, and is left with when it ends: an empty     *)
(* snapshot to build on and nothing to write.                              *)
LEMMA Blank == Empty \in Configs /\ Nothing \in Drafts
  BY ConfigAssumption DEF Empty, Absent, Configs, Credentials, Drafts

(* Nothing is configured yet.                                              *)
LEMMA TypesInit == Init => TypeOK
  BY Blank, ConfigAssumption DEF Init, TypeOK

(* One more change is one of those the bound allows.                       *)
LEMMA Counted == TypeOK /\ Asked => changes' \in 0..MaxChanges
  BY ConfigAssumption DEF TypeOK, Asked

(* A request at another stage, with another draft.                         *)
LEMMA Moves ==
  ASSUME TypeOK, NEW a \in Admins, NEW stage \in Stages, NEW d \in Drafts,
         stage = "write" <=> d # Nothing,
         pc' = [pc EXCEPT ![a] = stage], draft' = [draft EXCEPT ![a] = d]
  PROVE  /\ pc' \in [Admins -> Stages] /\ draft' \in [Admins -> Drafts]
         /\ \A b \in Admins : pc'[b] = "write" <=> draft'[b] # Nothing
  BY DEF TypeOK, Stages

(* Every step keeps the types.                                             *)
LEMMA TypesStep == TypeOK /\ [Next]_vars => TypeOK'
<1> SUFFICES ASSUME TypeOK, [Next]_vars PROVE TypeOK'
  OBVIOUS
<1>1. ASSUME NEW a \in Admins, Prepares(a) PROVE TypeOK'
  <2>1. PICK d \in Drafts \ {Nothing} : Prepare(a, d)
    BY <1>1, PrepareEffect
  <2>2. /\ pc' \in [Admins -> Stages] /\ draft' \in [Admins -> Drafts]
        /\ \A b \in Admins : pc'[b] = "write" <=> draft'[b] # Nothing
    BY <2>1, Moves DEF Prepare, Stages
  <2>3. changes' \in 0..MaxChanges /\ issued' \in 0..MaxSecrets
    BY <1>1, <2>1, PrepareEffect, Counted DEF Prepare
  <2> QED
    BY <2>1, <2>2, <2>3 DEF Prepare, TypeOK, Stages
<1>2. ASSUME NEW a \in Admins, Writes(a) PROVE TypeOK'
  <2>1. CASE RefusesRoute(a)
    <3>1. /\ pc' \in [Admins -> Stages] /\ draft' \in [Admins -> Drafts]
          /\ \A b \in Admins : pc'[b] = "write" <=> draft'[b] # Nothing
      BY <2>1, Moves, Blank DEF RefusesRoute, Stages
    <3> QED
      BY <2>1, <3>1 DEF RefusesRoute, TypeOK, Stages
  <2>2. ASSUME NEW new \in Configs, Rewrites(a, new) PROVE TypeOK'
    <3>1. /\ pc' \in [Admins -> Stages] /\ draft' \in [Admins -> Drafts]
          /\ \A b \in Admins : pc'[b] = "write" <=> draft'[b] # Nothing
      BY <2>2, Moves, Blank DEF Rewrites, Write, AfterWrite, Stages, Queries
    <3>2. changes' \in 0..MaxChanges
      BY <2>2, Counted DEF Rewrites, Write, TypeOK
    <3>3. db' \in Configs /\ sole' \in Admins \cup {NoOne} /\ retired' \subseteq 1..MaxSecrets
      BY <2>2 DEF Rewrites, Write
    <3> QED
      BY <2>2, <3>1, <3>2, <3>3 DEF Rewrites, Write, TypeOK, Stages
  <2> QED
    BY <1>2, <2>1, <2>2, WriteEffect
<1>3. ASSUME NEW a \in Admins, Read(a) PROVE TypeOK'
  <2> DEFINE q == pc[a]
             new == [view[a] EXCEPT ![q] = db[q]]
  <2>1. q \in Queries /\ view[a] \in Configs /\ db \in Configs
    BY <1>3 DEF Read, TypeOK
  <2>2. view' = [view EXCEPT ![a] = new] /\ pc' = [pc EXCEPT ![a] = After(q)]
    BY <1>3 DEF Read, TypeOK
  <2>3. view' \in [Admins -> Configs]
    BY <2>1, <2>2, QueryReads DEF TypeOK
  <2>4. After(q) \in Stages /\ After(q) # "write" /\ q # "write"
    BY <2>1, NextStage DEF Stages, Queries
  <2>5. pc' \in [Admins -> Stages] /\ \A b \in Admins : pc'[b] = "write" <=> draft[b] # Nothing
    BY <2>2, <2>4 DEF TypeOK, Stages
  <2> QED
    BY <1>3, <2>3, <2>5 DEF Read, TypeOK, Stages, history
<1>4. ASSUME NEW a \in Admins, Publish(a) PROVE TypeOK'
  <2>1. view' \in [Admins -> Configs] /\ snapshot' \in Configs
    BY <1>4, Blank DEF Publish, TypeOK
  <2>2. pc' \in [Admins -> Stages] /\ \A b \in Admins : pc'[b] = "write" <=> draft[b] # Nothing
    BY <1>4 DEF Publish, TypeOK, Stages
  <2> QED
    BY <1>4, <2>1, <2>2 DEF Publish, TypeOK, Stages, history
<1>5. ASSUME NEW a \in Admins, Fail(a) PROVE TypeOK'
  <2>1. /\ pc' \in [Admins -> Stages] /\ draft' \in [Admins -> Drafts]
        /\ \A b \in Admins : pc'[b] = "write" <=> draft'[b] # Nothing
    BY <1>5, Moves, Blank DEF Fail, Stages
  <2>2. view' \in [Admins -> Configs] /\ faults' \in 0..MaxFaults
    BY <1>5, Blank, ConfigAssumption DEF Fail, TypeOK
  <2> QED
    BY <1>5, <2>1, <2>2 DEF Fail, TypeOK, Stages
<1>6. CASE Restart
  <2>1. faults' \in 0..MaxFaults
    BY <1>6, ConfigAssumption DEF Restart, TypeOK
  <2>2. snapshot' \in Configs /\ view' \in [Admins -> Configs] /\ draft' \in [Admins -> Drafts]
    BY <1>6, Blank DEF Restart, TypeOK
  <2>3. pc' \in [Admins -> Stages] /\ \A b \in Admins : pc'[b] = "write" <=> draft'[b] # Nothing
    BY <1>6 DEF Restart, Stages
  <2> QED
    BY <1>6, <2>1, <2>2, <2>3 DEF Restart, TypeOK, Stages
<1>7. CASE UNCHANGED vars
  BY <1>7 DEF vars, requests, history, TypeOK
<1> QED
  BY <1>1, <1>2, <1>3, <1>4, <1>5, <1>6, <1>7, Steps

(* Types of the configuration.                                             *)
THEOREM TypeCorrect == Spec => []TypeOK
  BY TypesInit, TypesStep, PTL DEF Spec

-----------------------------------------------------------------------------
(* The rules: the writes keep what the foreign key promises, and nothing   *)
(* else touches the tables.                                                *)
LEMMA RoutesStep == TypeOK /\ RoutesReferToChannels /\ [Next]_vars => RoutesReferToChannels'
<1> SUFFICES ASSUME TypeOK, RoutesReferToChannels, [Next]_vars PROVE RoutesReferToChannels'
  OBVIOUS
<1>1. ASSUME NEW a \in Admins, Writes(a), ~RefusesRoute(a) PROVE RoutesReferToChannels'
  <2>1. PICK new \in Configs : Rewrites(a, new)
    BY <1>1, WriteEffect
  <2> QED
    BY <2>1 DEF Rewrites, Write, RoutesRefer, RoutesReferToChannels, Existing
<1>2. ASSUME NEW a \in Admins, RefusesRoute(a) \/ Prepares(a) PROVE UNCHANGED db
  BY <1>2, PrepareEffect DEF RefusesRoute, Prepare
<1>3. ASSUME NEW a \in Admins, Read(a) \/ Publish(a) \/ Fail(a) PROVE UNCHANGED db
  BY <1>3 DEF Read, Publish, Fail
<1>4. Restart \/ UNCHANGED vars => UNCHANGED db
  BY DEF Restart, vars
<1> QED
  BY <1>1, <1>2, <1>3, <1>4, Steps DEF RoutesReferToChannels, Existing

(* No rule ever refers to a channel that is not there, although the        *)
(* channels of a rule are looked up in a snapshot that may be behind.      *)
THEOREM RoutesCorrect == Spec => []RoutesReferToChannels
<1>1. Init => RoutesReferToChannels
  BY DEF Init, RoutesReferToChannels, Existing, Empty
<1> QED
  BY <1>1, TypesInit, TypesStep, RoutesStep, PTL DEF Spec

-----------------------------------------------------------------------------
(* The queries a request has had answered.                                 *)
ReadBefore(stage) ==
    CASE stage = "channels" -> {"credential"}
      [] stage = "routes"   -> {"credential", "channels"}
      [] stage = "silences" -> {"credential", "channels", "routes"}
      [] stage = "publish"  -> Queries
      [] OTHER              -> {}

(* As long as a change counts as one that no other reload overlapped, none *)
(* is under way, and what its own reload has read is what the tables hold. *)
LoneInv ==
    sole # NoOne =>
        /\ \A b \in Admins \ {sole} : ~Reloading(b)
        /\ \A q \in ReadBefore(pc[sole]) : view[sole][q] = db[q]
        /\ ~Reloading(sole) /\ Loads(db) => snapshot = db

LEMMA LoneStep == TypeOK /\ LoneInv /\ [Next]_vars => LoneInv'
<1> SUFFICES ASSUME TypeOK, LoneInv, [Next]_vars, sole' # NoOne PROVE LoneInv'
  BY DEF LoneInv
<1>0. /\ pc \in [Admins -> Stages] /\ view \in [Admins -> Configs] /\ db \in Configs
      /\ sole \in Admins \cup {NoOne}
  BY DEF TypeOK, Stages
<1>1. ASSUME NEW a \in Admins, Prepares(a) PROVE LoneInv'
  <2>1. /\ pc[a] = "idle" /\ pc' = [pc EXCEPT ![a] = "write"]
        /\ UNCHANGED <<db, snapshot, view, sole>>
    BY <1>1, PrepareEffect DEF Prepare
  <2>2. \A b \in Admins : Reloading(b)' <=> Reloading(b)
    BY <1>0, <2>1 DEF Reloading, Queries, Stages
  <2>3. sole \in Admins => ReadBefore(pc'[sole]) = ReadBefore(pc[sole])
    BY <1>0, <2>1 DEF ReadBefore
  <2> QED
    BY <1>0, <2>1, <2>2, <2>3 DEF LoneInv, Loads
<1>2. ASSUME NEW a \in Admins, RefusesRoute(a) PROVE LoneInv'
  <2>1. /\ pc[a] = "write" /\ pc' = [pc EXCEPT ![a] = "idle"]
        /\ UNCHANGED <<db, snapshot, view, sole>>
    BY <1>2 DEF RefusesRoute
  <2>2. \A b \in Admins : Reloading(b)' <=> Reloading(b)
    BY <1>0, <2>1 DEF Reloading, Queries, Stages
  <2>3. sole \in Admins => ReadBefore(pc'[sole]) = ReadBefore(pc[sole])
    BY <1>0, <2>1 DEF ReadBefore
  <2> QED
    BY <1>0, <2>1, <2>2, <2>3 DEF LoneInv, Loads
<1>3. ASSUME NEW a \in Admins, NEW new \in Configs, Rewrites(a, new) PROVE LoneInv'
  <2>1. /\ sole' = a /\ \A b \in Admins \ {a} : ~Reloading(b)
        /\ pc' = [pc EXCEPT ![a] = "credential"]
    BY <1>3 DEF Rewrites, Write, AfterWrite
  <2>2. pc'[a] = "credential" /\ \A b \in Admins \ {a} : pc'[b] = pc[b]
    BY <1>0, <2>1
  <2>3. ReadBefore(pc'[a]) = {}
    BY <2>2 DEF ReadBefore
  <2> QED
    BY <2>1, <2>2, <2>3 DEF LoneInv, Reloading, Queries
<1>4. ASSUME NEW a \in Admins, Read(a) PROVE LoneInv'
  <2>1. sole = a /\ sole' = sole /\ db' = db /\ pc[a] \in Queries
    BY <1>0, <1>4 DEF Read, LoneInv, Reloading, history
  <2> DEFINE q == pc[a]
             new == [view[a] EXCEPT ![q] = db[q]]
  <2>2. view' = [view EXCEPT ![a] = new] /\ pc' = [pc EXCEPT ![a] = After(q)]
    BY <1>0, <1>4 DEF Read
  <2>3. new = [view[a] EXCEPT ![q] = db[q]] /\ view[a] \in Configs
    BY <1>0
  <2> HIDE DEF new
  <2>5. new[q] = db[q] /\ \A p \in Queries \ {q} : new[p] = view[a][p]
    BY <1>0, <2>1, <2>3, QueryReads
  <2>4. view'[a] = new /\ pc'[a] = After(q) /\ \A b \in Admins \ {a} : pc'[b] = pc[b]
    BY <1>0, <2>2
  <2>6. ReadBefore(After(q)) \subseteq ReadBefore(q) \cup {q} /\ ReadBefore(q) \subseteq Queries
    BY <2>1 DEF ReadBefore, After, Queries
  <2>7. \A p \in ReadBefore(pc'[a]) : view'[a][p] = db'[p]
    BY <2>1, <2>4, <2>5, <2>6 DEF LoneInv
  <2>8. Reloading(a)' /\ \A b \in Admins \ {a} : ~Reloading(b)'
    BY <1>0, <2>1, <2>4, NextStage DEF LoneInv, Reloading, Queries
  <2> QED
    BY <2>1, <2>7, <2>8 DEF LoneInv
<1>5. ASSUME NEW a \in Admins, Publish(a) PROVE LoneInv'
  <2>1. sole = a /\ sole' = sole /\ db' = db /\ pc[a] = "publish"
    BY <1>0, <1>5 DEF Publish, LoneInv, Reloading, history
  <2>2. view[a] = db
    BY <1>0, <2>1, SameTables DEF LoneInv, ReadBefore
  <2>3. pc'[a] = "idle" /\ \A b \in Admins \ {a} : pc'[b] = pc[b]
    BY <1>0, <1>5 DEF Publish
  <2>4. ReadBefore(pc'[a]) = {}
    BY <2>3 DEF ReadBefore
  <2>5. Loads(db') => snapshot' = db'
    BY <1>5, <2>1, <2>2 DEF Publish
  <2> QED
    BY <2>1, <2>3, <2>4, <2>5 DEF LoneInv, Reloading, Queries, Loads
<1>6. ASSUME NEW a \in Admins, Fail(a) PROVE LoneInv'
  <2>1. sole # a /\ sole' = sole /\ UNCHANGED <<db, snapshot>>
    BY <1>0, <1>6 DEF Fail
  <2>2. /\ pc'[a] = "idle" /\ \A b \in Admins \ {a} : pc'[b] = pc[b]
        /\ \A b \in Admins \ {a} : view'[b] = view[b]
    BY <1>0, <1>6 DEF Fail
  <2> QED
    BY <1>0, <2>1, <2>2 DEF LoneInv, Reloading, Queries, Loads
<1>7. CASE Restart
  BY <1>7 DEF Restart
<1>8. CASE UNCHANGED vars
  BY <1>8 DEF vars, requests, history, LoneInv, Reloading, Loads
<1> QED
  BY <1>1, <1>2, <1>3, <1>4, <1>5, <1>6, <1>7, <1>8, Steps, WriteEffect

(* A change whose write and reload no other reload overlapped is in force  *)
(* when it returns, whatever races and failures went before it.            *)
THEOREM LoneChangeCorrect == Spec => []LoneChangeIsPublished
<1>1. Init => LoneInv
  BY DEF Init, LoneInv
<1>2. LoneInv => LoneChangeIsPublished
  BY DEF LoneInv, LoneChangeIsPublished
<1> QED
  BY <1>1, <1>2, TypesInit, TypesStep, LoneStep, PTL DEF Spec
=============================================================================
