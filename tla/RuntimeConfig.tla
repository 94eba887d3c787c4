---------------------------- MODULE RuntimeConfig ----------------------------
(***************************************************************************)
(* The configuration the gateway runs on: the tables administrators        *)
(* change, and the read-only snapshot that Manager.Reload builds from them *)
(* and swaps in.  The requests of several administrators run at the same   *)
(* time and hold no lock: every query is a step of its own.                *)
(*                                                                         *)
(* One credential stands for an HMAC client or a lightweight token, which  *)
(* go through the same steps, one rule for the routes and one silence for  *)
(* the silences; the parts of a snapshot have the names of the queries     *)
(* that read them.                                                         *)
(***************************************************************************)
EXTENDS Integers, FiniteSets

CONSTANTS
    Admins,     \* requests of administrators that may run at the same time
    Channels,   \* channel ids
    NoOne,      \* not an administrator
    Saves,      \* what a channel may be saved as, among "off", "on" and "broken"
    MaxSecrets, \* bound: secrets generated
    MaxChanges, \* bound: changes asked for
    MaxFaults   \* bound: requests that fail on the way, and restarts

ASSUME ConfigAssumption ==
    /\ NoOne \notin Admins /\ Saves \subseteq {"off", "on", "broken"}
    /\ MaxSecrets \in Nat /\ MaxChanges \in Nat /\ MaxFaults \in Nat

VARIABLES
    db,        \* the tables
    snapshot,  \* what the gateway runs on (Manager.state)
    pc,        \* the next query of each request
    draft,     \* what it is about to write
    view,      \* the snapshot it is building
    changes,   \* history: changes asked for so far
    issued,    \* history: secrets generated so far
    faults,    \* history: failed requests and restarts so far
    retired,   \* history: secrets a rotation replaced
    sole       \* history: who wrote last, if no other reload ran since and it did not fail

requests == <<pc, draft, view>>
history  == <<changes, issued, faults, retired, sole>>
vars     == <<db, snapshot, requests, history>>

Absent      == [secret |-> 0, enabled |-> FALSE]
Credentials == [secret : 0..MaxSecrets, enabled : BOOLEAN]
Configs     == [credential : Credentials, channels : [Channels -> {"absent", "off", "on", "broken"}],
                routes : SUBSET Channels, silences : BOOLEAN]
Empty       == [credential |-> Absent, channels |-> [c \in Channels |-> "absent"],
                routes |-> {}, silences |-> FALSE]

Nothing == [kind |-> "none"]
Drafts  == {Nothing} \cup [kind : {"create", "update", "rotate"}, record : Credentials]
                     \cup [kind : {"route"}, targets : SUBSET Channels]
                     \cup [kind : {"toggle"}, channel : Channels, setting : {"off", "on", "broken"}]

(* The queries of a reload, in their order.                                *)
Queries  == {"credential", "channels", "routes", "silences"}
After(q) == CASE q = "credential" -> "channels"
              [] q = "channels"   -> "routes"
              [] q = "routes"     -> "silences"
              [] q = "silences"   -> "publish"

Reloading(a) == pc[a] \in Queries \cup {"publish"}
Existing(config) == {c \in Channels : config.channels[c] # "absent"}

Init ==
    /\ db = Empty /\ snapshot = Empty
    /\ pc = [a \in Admins |-> "idle"]
    /\ draft = [a \in Admins |-> Nothing]
    /\ view = [a \in Admins |-> Empty]
    /\ changes = 0 /\ issued = 0 /\ faults = 0 /\ retired = {} /\ sole = NoOne

-----------------------------------------------------------------------------
\* Mutant: a change forgets to reload.
NoReload == "idle"

(* What follows a write that went through.                                 *)
AfterWrite == "credential"

(* One more change is asked for.                                           *)
Asked == changes < MaxChanges /\ changes' = changes + 1

\* Mutant: the request goes on with what it has just written.
LeavesDraft(a, new) ==
    /\ db' = new
    /\ pc' = [pc EXCEPT ![a] = AfterWrite]
    /\ sole' = IF \E b \in Admins \ {a} : Reloading(b) THEN NoOne ELSE a
    /\ IF pc[a] = "idle" THEN Asked ELSE UNCHANGED changes
    /\ UNCHANGED <<snapshot, draft, view, issued, faults>>

(* A statement of request a that leaves the tables as `new`.               *)
Write(a, new) ==
    /\ db' = new
    /\ pc' = [pc EXCEPT ![a] = AfterWrite]
    /\ draft' = [draft EXCEPT ![a] = Nothing]
    /\ sole' = IF \E b \in Admins \ {a} : Reloading(b) THEN NoOne ELSE a
    /\ UNCHANGED <<snapshot, view, issued, faults>>
    /\ IF pc[a] = "idle" THEN Asked ELSE UNCHANGED changes

Prepare(a, d) ==
    /\ pc[a] = "idle"
    /\ pc' = [pc EXCEPT ![a] = "write"]
    /\ draft' = [draft EXCEPT ![a] = d]
    /\ Asked
    /\ UNCHANGED <<db, snapshot, view, faults, retired, sole>>

(* The record is looked up, a secret generated where the operation calls   *)
(* for one, and the whole record written back by a later statement.        *)
CreateCredential(a) ==
    /\ db.credential = Absent
    /\ issued < MaxSecrets /\ issued' = issued + 1
    /\ Prepare(a, [kind |-> "create", record |-> [secret |-> issued', enabled |-> TRUE]])

UpdateCredential(a, enabled) ==
    /\ db.credential # Absent
    /\ Prepare(a, [kind |-> "update", record |-> [db.credential EXCEPT !.enabled = enabled]])
    /\ UNCHANGED issued

RotateCredential(a) ==
    /\ db.credential # Absent
    /\ issued < MaxSecrets /\ issued' = issued + 1
    /\ Prepare(a, [kind |-> "rotate", record |-> [db.credential EXCEPT !.secret = issued']])

WriteCredential(a) ==
    /\ pc[a] = "write" /\ draft[a].kind \in {"create", "update", "rotate"}
    /\ Write(a, [db EXCEPT !.credential = draft[a].record])
    /\ retired' = IF draft[a].kind = "rotate"
                  THEN retired \cup ({db.credential.secret} \ {0}) ELSE retired

DeleteCredential(a) ==
    /\ pc[a] = "idle" /\ db.credential # Absent
    /\ Write(a, [db EXCEPT !.credential = Absent])
    /\ UNCHANGED retired

(* UpsertChannel, of a form: merged with what is stored of the channel, so *)
(* that what it leaves empty stays, and written back.  mergeChannelInput   *)
(* takes recipients that are no addresses, which buildChannel refuses:     *)
(* such a row is broken, on or off.  Nothing the model keeps of the row    *)
(* depends on what was read.                                               *)
SaveChannel(a, c, setting) ==
    /\ pc[a] = "idle" /\ setting \in Saves
    /\ Write(a, [db EXCEPT !.channels[c] = setting])
    /\ UNCHANGED retired

(* The other of on and off, as the snapshot shows it, with the             *)
(* configuration that is stored.                                           *)
Toggled(c) == IF db.channels[c] = "broken" THEN "broken"
              ELSE IF snapshot.channels[c] = "on" THEN "off" ELSE "on"

ToggleChannel(a, c) ==
    /\ c \in Existing(snapshot) /\ c \in Existing(db)
    /\ Prepare(a, [kind |-> "toggle", channel |-> c, setting |-> Toggled(c)])
    /\ UNCHANGED issued

(* UpsertChannel, of a toggle: the row read before is written back.        *)
WriteChannel(a) ==
    /\ pc[a] = "write" /\ draft[a].kind = "toggle"
    /\ Write(a, [db EXCEPT !.channels[draft[a].channel] = draft[a].setting])
    /\ UNCHANGED retired

(* The rules for the channel go with it (ON DELETE CASCADE).               *)
DeleteChannel(a, c) ==
    /\ pc[a] = "idle" /\ c \in Existing(db)
    /\ Write(a, [db EXCEPT !.channels[c] = "absent", !.routes = @ \ {c}])
    /\ UNCHANGED retired

(* The channels of a rule are looked up in the snapshot, not in the tables. *)
ReplaceRoute(a, targets) ==
    /\ targets # {} /\ targets \subseteq Existing(snapshot)
    /\ Prepare(a, [kind |-> "route", targets |-> targets])
    /\ UNCHANGED issued

\* Mutant: the tables do not check what a rule refers to.
NoForeignKey(targets) == TRUE

(* The foreign key of route_rules.channel_id.                              *)
References(targets) == targets \subseteq Existing(db)

WriteRoute(a) ==
    /\ pc[a] = "write" /\ draft[a].kind = "route"
    /\ IF References(draft[a].targets)
       THEN Write(a, [db EXCEPT !.routes = draft[a].targets])
       ELSE /\ pc' = [pc EXCEPT ![a] = "idle"]
            /\ draft' = [draft EXCEPT ![a] = Nothing]
            /\ UNCHANGED <<db, snapshot, view, issued, faults, sole, changes>>
    /\ UNCHANGED retired

DeleteRoute(a) ==
    /\ pc[a] = "idle" /\ db.routes # {}
    /\ Write(a, [db EXCEPT !.routes = {}])
    /\ UNCHANGED retired

(* CreateSilence, and DeleteSilence of the one there is.                   *)
ChangeSilence(a) ==
    /\ pc[a] = "idle"
    /\ Write(a, [db EXCEPT !.silences = ~@])
    /\ UNCHANGED retired

-----------------------------------------------------------------------------
(* Reload: one query after the other, then the atomic swap.                *)
Read(a) ==
    /\ pc[a] \in Queries
    /\ view' = [view EXCEPT ![a][pc[a]] = db[pc[a]]]
    /\ pc' = [pc EXCEPT ![a] = After(@)]
    /\ UNCHANGED <<db, snapshot, draft, history>>

(* Every row of the channels can be built, those switched off included.    *)
Loads(config) == \A c \in Channels : config.channels[c] # "broken"

Publish(a) ==
    /\ pc[a] = "publish"
    /\ snapshot' = IF Loads(view[a]) THEN view[a] ELSE snapshot
    /\ pc' = [pc EXCEPT ![a] = "idle"]
    /\ view' = [view EXCEPT ![a] = Empty]
    /\ UNCHANGED <<db, draft, history>>

(* A query fails, or the administrator's connection, whose context every   *)
(* query runs under, goes away.  What was written stays written.           *)
Fail(a) ==
    /\ pc[a] \notin {"idle", "down"}
    /\ faults < MaxFaults /\ faults' = faults + 1
    /\ pc' = [pc EXCEPT ![a] = "idle"]
    /\ draft' = [draft EXCEPT ![a] = Nothing]
    /\ view' = [view EXCEPT ![a] = Empty]
    /\ sole' = IF sole = a THEN NoOne ELSE sole
    /\ UNCHANGED <<db, snapshot, changes, issued, retired>>

(* The process starts again: New loads the tables before it serves, and    *)
(* does not start when they do not load.                                   *)
Restart ==
    /\ faults < MaxFaults /\ faults' = faults + 1
    /\ snapshot' = IF Loads(db) THEN db ELSE Empty
    /\ pc' = [a \in Admins |-> IF Loads(db) THEN "idle" ELSE "down"]
    /\ draft' = [a \in Admins |-> Nothing]
    /\ view' = [a \in Admins |-> Empty]
    /\ sole' = NoOne
    /\ UNCHANGED <<db, changes, issued, retired>>

Change(a) ==
    \/ CreateCredential(a) \/ RotateCredential(a) \/ WriteCredential(a) \/ DeleteCredential(a)
    \/ \E enabled \in BOOLEAN : UpdateCredential(a, enabled)
    \/ \E c \in Channels, setting \in Saves : SaveChannel(a, c, setting)
    \/ \E c \in Channels : ToggleChannel(a, c) \/ DeleteChannel(a, c)
    \/ WriteChannel(a)
    \/ \E targets \in SUBSET Channels : ReplaceRoute(a, targets)
    \/ WriteRoute(a) \/ DeleteRoute(a) \/ ChangeSilence(a)

Next ==
    \/ \E a \in Admins : Change(a) \/ Read(a) \/ Publish(a) \/ Fail(a)
    \/ Restart

Spec == Init /\ [][Next]_vars

-----------------------------------------------------------------------------
TypeOK ==
    /\ db \in Configs /\ snapshot \in Configs
    /\ pc \in [Admins -> {"idle", "write", "publish", "down"} \cup Queries]
    /\ draft \in [Admins -> Drafts] /\ \A a \in Admins : pc[a] = "write" <=> draft[a] # Nothing
    /\ view \in [Admins -> Configs]
    /\ changes \in 0..MaxChanges /\ issued \in 0..MaxSecrets /\ faults \in 0..MaxFaults
    /\ retired \subseteq 1..MaxSecrets
    /\ sole \in Admins \cup {NoOne}

(* A rule only ever names channels that exist, although ReplaceRoute asks  *)
(* a snapshot that may be behind the tables.                               *)
RoutesReferToChannels == db.routes \subseteq Existing(db)

(* A change whose write and reload no other reload overlapped is in force  *)
(* when it returns, and it repairs what races and failed reloads before it *)
(* left behind; unless a broken row keeps every snapshot from being built, *)
(* until the change that repairs or deletes it.                            *)
LoneChangeIsPublished == sole # NoOne /\ ~Reloading(sole) /\ Loads(db) => snapshot = db

Quiet == \A a \in Admins : pc[a] = "idle"

(* With every change done, none of them failed, the snapshot is the        *)
(* tables: a change takes effect immediately (docs/admin.md:35).           *)
SnapshotIsCurrent == Quiet /\ faults = 0 => snapshot = db

(* With every change done, the secret in the tables is none that a         *)
(* rotation replaced: rotation revokes the old one (docs/admin.md:78).     *)
RotatedStaysRevoked == Quiet => db.credential.secret \notin retired
=============================================================================
