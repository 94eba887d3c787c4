---------------------------- MODULE AdminSessions ----------------------------
(***************************************************************************)
(* Administrators' logins, by password or through the identity provider,   *)
(* and the sessions they end in.                                           *)
(*                                                                         *)
(* A login is a chain of steps of one request handler (two requests, for   *)
(* OIDC), with a mutex, a transaction or a network call at each, and a     *)
(* `now` read at its start.  Sessions and the counters of attempts are in  *)
(* the database and survive a restart; handlers and the pending OIDC       *)
(* attempts are memory and do not.  Clients keep cookies: a browser sends  *)
(* one only where its path allows, any other client wherever it likes.     *)
(***************************************************************************)
EXTENDS Integers, FiniteSets

CONSTANTS
    Handlers,     \* requests in progress at the same time
    Clients,      \* who keeps cookies
    Browsers,     \* the clients that obey the Path of a cookie
    Tokens,       \* session tokens, drawn at random
    States,       \* OIDC state parameters, drawn at random
    NoToken, NoState, NoClient,
    PasswordOn,   \* no OIDC, or OIDC with the password as a fallback
    Limit,        \* attempts a minute: 10
    Cap,          \* pending OIDC attempts: 256
    Minute,       \* in ticks
    AttemptLife,  \* 5 minutes
    SessionLife,  \* 12 hours, unless configured
    MaxDelay,     \* bound: how old the `now` of a handler gets
    MaxTime       \* bound: the last tick of the clock

ASSUME AdminAssumption ==
    /\ Browsers \subseteq Clients /\ PasswordOn \in BOOLEAN
    /\ NoToken \notin Tokens /\ NoState \notin States /\ NoClient \notin Clients
    /\ Limit \in Nat \ {0} /\ Cap \in Nat /\ Minute \in Nat \ {0}
    /\ AttemptLife \in Nat \ {0} /\ SessionLife \in Nat \ {0}
    /\ MaxDelay \in 0..(2 * Minute) /\ MaxTime \in Nat

VARIABLES
    time,
    sessions,  \* admin_sessions
    windows,   \* admin_login_windows: minute -> attempts
    attempts,  \* OIDC.attempts, in memory
    hs,        \* what each handler is doing
    jar,       \* the session cookie of each client
    binding,   \* the OIDC cookie of each client, named by its state
    passed,    \* history: attempts let through, by minute
    born,      \* history: who each session was made for, and when
    ended      \* history: sessions logged out of, or rotated away

sessionTables == <<sessions, windows>>
sessionVars   == <<time, sessionTables, attempts, hs, jar, binding, passed, born, ended>>

Minutes  == 0..(MaxTime \div Minute)
Expiries == 0..(MaxTime + AttemptLife + SessionLife)
Stages   == {"idle", "counted", "verifying", "exchanging", "rotating"}
Handling == [at : Stages, kind : {"none", "password", "oidc"}, client : Clients \cup {NoClient},
             now : 0..MaxTime, state : States \cup {NoState},
             old : Tokens \cup {NoToken}, token : Tokens \cup {NoToken}]
Idle     == [at |-> "idle", kind |-> "none", client |-> NoClient, now |-> 0,
             state |-> NoState, old |-> NoToken, token |-> NoToken]

SessionsInit ==
    /\ time = 0 /\ sessions = {} /\ windows = [m \in {} |-> 0] /\ attempts = {}
    /\ hs = [h \in Handlers |-> Idle]
    /\ jar = [c \in Clients |-> NoToken] /\ binding = [c \in Clients |-> NoState]
    /\ passed = [m \in Minutes |-> 0] /\ born = [t \in {} |-> 0] /\ ended = {}

(* The session cookie has the path /admin: a browser never sends it to     *)
(* /auth/oidc.                                                             *)
OldSession(c) == IF c \in Browsers THEN NoToken ELSE jar[c]

Respond(h) == hs' = [hs EXCEPT ![h] = Idle]

Advance(h, stage) == hs' = [hs EXCEPT ![h].at = stage]

-----------------------------------------------------------------------------
(* Windows of the last two minutes are kept.                               *)
Recent(m) == {n \in DOMAIN windows : n >= m - 2}

(* The transaction counts first and decides then, at a `now` in minute m.  *)
(* Counts above Limit + 1 are not told apart.                              *)
RecordAdminLoginAttempt(m) ==
    windows' = [k \in Recent(m) \cup {m} |->
        IF k # m THEN windows[k]
        ELSE IF m \notin DOMAIN windows THEN 1
        ELSE IF windows[m] > Limit THEN windows[m] ELSE windows[m] + 1]

(* A login begins, with POST /admin/login or GET /auth/oidc/login.  It has *)
(* read the clock, waits for the database connection and is counted in the *)
(* minute of its reading, which may be over: until then it has touched     *)
(* nothing, so the step is taken at the count, with a reading that is now  *)
(* up to MaxDelay old.                                                     *)
Begin(h, c, kind, now) ==
    LET m == now \div Minute
    IN  /\ hs[h] = Idle /\ time - now <= MaxDelay
        /\ kind = "password" => PasswordOn
        /\ RecordAdminLoginAttempt(m)
        /\ IF windows'[m] > Limit THEN UNCHANGED <<hs, passed>>
           ELSE /\ hs' = [hs EXCEPT ![h] = [Idle EXCEPT
                             !.at = "counted", !.kind = kind, !.client = c, !.now = now,
                             !.old = IF kind = "oidc" THEN OldSession(c) ELSE NoToken]]
                /\ passed' = [passed EXCEPT ![m] = @ + 1]
        /\ UNCHANGED <<time, sessions, attempts, jar, binding, born, ended>>

(* The password gate has one slot.                                         *)
EnterGate(h) ==
    /\ hs[h].at = "counted" /\ hs[h].kind = "password"
    /\ \A g \in Handlers : hs[g].at # "verifying"
    /\ Advance(h, "verifying")
    /\ UNCHANGED <<time, sessionTables, attempts, jar, binding, passed, born, ended>>

(* The request is cancelled at the gate, the password is wrong, or the     *)
(* provider refuses; only a callback clears the OIDC cookie.               *)
Refuse(h) ==
    /\ \/ hs[h].at \in {"verifying", "exchanging"}
       \/ hs[h].at = "counted" /\ hs[h].kind = "password"
    /\ Respond(h)
    /\ binding' = IF hs[h].at = "exchanging"
                  THEN [binding EXCEPT ![hs[h].client] = NoState] ELSE binding
    /\ UNCHANGED <<time, sessionTables, attempts, jar, passed, born, ended>>

\* Mutant: nothing is cleaned up.
AllPending(now) == attempts

(* What the clean-up under the mutex leaves.                               *)
Pending(now) == {a \in attempts : a.expires > now}

(* GET /auth/oidc/login under the mutex: clean up, then store the attempt  *)
(* if there is room.                                                       *)
StartAttempt(h, s) ==
    LET live == Pending(hs[h].now)
    IN  /\ hs[h].at = "counted" /\ hs[h].kind = "oidc"
        /\ \A a \in attempts : a.state # s
        /\ \A t \in DOMAIN born : born[t].state # s
        /\ \A g \in Handlers : hs[g].state # s
        /\ \A c \in Clients : binding[c] # s
        /\ IF Cardinality(live) >= Cap THEN attempts' = live /\ UNCHANGED binding
           ELSE /\ attempts' = live \cup {[state |-> s, old |-> hs[h].old,
                                           expires |-> hs[h].now + AttemptLife]}
                /\ binding' = [binding EXCEPT ![hs[h].client] = s]
        /\ Respond(h)
        /\ UNCHANGED <<time, sessionTables, jar, passed, born, ended>>

\* Mutant: the attempt leaves the table only when it has expired.
StillThere(a) == Pending(time)

(* A matching attempt is consumed before anything else is looked at.       *)
Consume(a) == attempts \ {a}

(* GET /auth/oidc/callback up to the exchange.  An attempt of another      *)
(* binding is left alone.                                                  *)
Callback(h, c) ==
    \E a \in attempts :
        /\ hs[h] = Idle
        /\ a.state = binding[c]
        /\ attempts' = Consume(a)
        /\ IF a.expires > time
           THEN /\ hs' = [hs EXCEPT ![h] = [Idle EXCEPT
                            !.at = "exchanging", !.kind = "oidc", !.client = c,
                            !.now = time, !.state = a.state, !.old = a.old]]
                /\ UNCHANGED binding
           ELSE binding' = [binding EXCEPT ![c] = NoState] /\ UNCHANGED hs
        /\ UNCHANGED <<time, sessionTables, jar, passed, born, ended>>

(* A callback whose state is not the one of the cookie, or is no longer    *)
(* pending, costs the client its cookie.                                   *)
StrayCallback(c) ==
    /\ binding[c] # NoState
    /\ binding' = [binding EXCEPT ![c] = NoState]
    /\ UNCHANGED <<time, sessionTables, attempts, hs, jar, passed, born, ended>>

(* The cookies of a login that ended well.                                 *)
HandOut(h, t) ==
    /\ Respond(h)
    /\ jar' = [jar EXCEPT ![hs[h].client] = t]
    /\ binding' = IF hs[h].kind = "oidc"
                  THEN [binding EXCEPT ![hs[h].client] = NoState] ELSE binding

\* Mutant: an absent session is rotated like any other.
Always(h) == TRUE

(* Whether a session was presented at the start of the login.              *)
MustRotate(h) == hs[h].old # NoToken

(* A password login uses the clock of its start, a callback reads it again.*)
LoginTime(h) == IF hs[h].kind = "password" THEN hs[h].now ELSE time

(* Deletes what has expired, inserts the new row.                          *)
CreateAdminSession(t, now) ==
    sessions' = {r \in sessions : r.expires >= now} \cup {[token |-> t, expires |-> now + SessionLife]}

(* Password or provider are content: the session is made.                  *)
CreateSession(h, t) ==
    /\ hs[h].at \in {"verifying", "exchanging"}
    /\ t \notin DOMAIN born
    /\ CreateAdminSession(t, LoginTime(h))
    /\ born' = [u \in DOMAIN born \cup {t} |->
                   IF u = t THEN [state |-> hs[h].state, old |-> hs[h].old] ELSE born[u]]
    /\ IF MustRotate(h)
       THEN /\ hs' = [hs EXCEPT ![h].at = "rotating", ![h].token = t]
            /\ UNCHANGED <<jar, binding>>
       ELSE HandOut(h, t)
    /\ UNCHANGED <<time, windows, attempts, passed, ended>>

(* DeleteAdminSession.                                                     *)
Without(t) == {r \in sessions : r.token # t}

(* The session presented at the start of the login is deleted.             *)
Rotate(h) ==
    /\ hs[h].at = "rotating"
    /\ sessions' = Without(hs[h].old)
    /\ ended' = ended \cup {hs[h].old}
    /\ HandOut(h, hs[h].token)
    /\ UNCHANGED <<time, windows, attempts, passed, born>>

\* Mutant: the login succeeds although the old session could not be ended.
KeepBoth(h) == HandOut(h, hs[h].token) /\ UNCHANGED sessions

(* The new session is deleted instead, and nothing handed out.  Nobody     *)
(* looks at whether that delete succeeds.                                  *)
UndoLogin(h) ==
    /\ Respond(h)
    /\ sessions' \in {sessions, Without(hs[h].token)}
    /\ binding' = [binding EXCEPT ![hs[h].client] = NoState]
    /\ UNCHANGED jar

(* The delete of the old session fails.                                    *)
RotationFails(h) ==
    /\ hs[h].at = "rotating"
    /\ UndoLogin(h)
    /\ UNCHANGED <<time, windows, attempts, passed, born, ended>>

(* GetAdminSession finds the session of the cookie.                        *)
Authenticated(c) == \E r \in sessions : r.token = jar[c] /\ r.expires >= time

(* POST /admin/logout with a session that is still good.  Should the       *)
(* delete fail, nobody is told, and the cookie goes all the same.          *)
Logout(c) ==
    /\ Authenticated(c)
    /\ \/ sessions' = Without(jar[c]) /\ ended' = ended \cup {jar[c]}
       \/ UNCHANGED <<sessions, ended>>
    /\ jar' = [jar EXCEPT ![c] = NoToken]
    /\ UNCHANGED <<time, windows, attempts, hs, binding, passed, born>>

(* No `now` gets older than MaxDelay.                                      *)
SessionTick ==
    /\ time < MaxTime
    /\ \A h \in Handlers : hs[h] # Idle => time - hs[h].now < MaxDelay
    /\ time' = time + 1
    /\ UNCHANGED <<sessionTables, attempts, hs, jar, binding, passed, born, ended>>

\* Mutant: the counters are kept in memory, like the attempts.
ForgetWindows == UNCHANGED sessions /\ windows' = [m \in {} |-> 0]

KeepTables == UNCHANGED sessionTables

(* The process ends: requests are cut, attempts forgotten.                 *)
LoseMemory ==
    /\ hs' = [h \in Handlers |-> Idle] /\ attempts' = {}
    /\ KeepTables
    /\ UNCHANGED <<time, jar, binding, passed, born, ended>>

SessionsNext ==
    \/ \E h \in Handlers :
          \/ \E c \in Clients :
                \/ \E kind \in {"password", "oidc"}, now \in 0..time : Begin(h, c, kind, now)
                \/ Callback(h, c)
          \/ EnterGate(h) \/ Refuse(h) \/ Rotate(h) \/ RotationFails(h)
          \/ \E s \in States : StartAttempt(h, s)
          \/ \E t \in Tokens : CreateSession(h, t)
    \/ \E c \in Clients : StrayCallback(c) \/ Logout(c)
    \/ SessionTick

-----------------------------------------------------------------------------
SessionsTypeOK ==
    /\ time \in 0..MaxTime
    /\ sessions \subseteq [token : Tokens, expires : Expiries]
    /\ DOMAIN windows \subseteq Minutes /\ \A m \in DOMAIN windows : windows[m] \in 1..(Limit + 1)
    /\ attempts \subseteq [state : States, old : Tokens \cup {NoToken}, expires : Expiries]
    /\ hs \in [Handlers -> Handling]
    /\ jar \in [Clients -> Tokens \cup {NoToken}]
    /\ binding \in [Clients -> States \cup {NoState}]
    /\ passed \in [Minutes -> Nat]
    /\ DOMAIN born \subseteq Tokens /\ ended \subseteq Tokens

(* However often the process restarts, at most Limit logins of a minute    *)
(* get past the counter that passwords and OIDC share.                     *)
LoginsWithinLimit == \A m \in Minutes : passed[m] <= Limit

(* The rate limit keeps the pending attempts below their cap of 256: each  *)
(* was counted in a minute at most AttemptLife, and the age of a `now`,    *)
(* away from the one that cleaned up last.                                 *)
PendingWithinLimit ==
    Cardinality(attempts) <= Limit * ((AttemptLife + MaxDelay + Minute - 2) \div Minute + 1)

(* A state parameter yields one session: callbacks that arrive together    *)
(* find it consumed, whatever the provider answers to either.              *)
StateUsedOnce ==
    \A t, u \in DOMAIN born : t # u /\ born[t].state = born[u].state => born[t].state = NoState

(* The tokens that somebody presents, or presented with a request under    *)
(* way: a client's cookie, an attempt's, a handler's.                      *)
Held == {jar[c] : c \in Clients} \cup {a.old : a \in attempts} \cup {hs[h].old : h \in Handlers}

(* What a login or logout has ended stays ended, and a login that could    *)
(* not end the session it was to replace is good for nobody: the row of    *)
(* its new session may stay, when the second delete fails too or the       *)
(* process ends, but its token is never in anyone's hands while the old    *)
(* session lives.                                                          *)
OldSessionEnds ==
    \A r \in sessions :
        /\ r.token \notin ended
        /\ \A t \in Held \cap DOMAIN born : born[t].old # r.token

SessionsSpec == SessionsInit /\ [][SessionsNext \/ LoseMemory]_sessionVars
=============================================================================
