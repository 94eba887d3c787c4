-------------------------- MODULE AdminConsoleProofs --------------------------
(***************************************************************************)
(* Theorems about AdminConsole, for any number of starts, handlers and     *)
(* clients and any limits and lifetimes: what a start leaves behind agrees *)
(* with every other start, whatever died in between; and what a login      *)
(* uses up or ends is used up and ended.                                   *)
(*                                                                         *)
(* The starts come first, then the logins, each inductive by itself: the   *)
(* composition only decides when the one lets the other go on.             *)
(***************************************************************************)
EXTENDS AdminConsole, FiniteSetTheorems, TLAPS

-----------------------------------------------------------------------------
(* A step of the console is one of a start, or of nothing, for the tables  *)
(* Bootstrap knows.                                                        *)
LEMMA ConsoleBootStep == [Next]_vars => [BootNext]_bootVars
<1> SUFFICES ASSUME [Next]_vars PROVE BootNext \/ UNCHANGED bootVars
  OBVIOUS
<1>1. ASSUME NEW p \in Processes, BootStep(p) PROVE BootNext
  BY <1>1 DEF BootStep, BootNext
<1>2. ASSUME NEW p \in Processes, Start(p) \/ Stop(p) PROVE BootNext
  BY <1>2 DEF Start, Stop, BootNext
<1>3. CASE LoseKeyFile
  BY <1>3 DEF BootNext
<1>4. CASE Administer
  BY <1>4 DEF Administer
<1>5. CASE UNCHANGED vars
  BY <1>5 DEF vars
<1> QED
  BY <1>1, <1>2, <1>3, <1>4, <1>5 DEF Next

(* Where a process has a key that data may be encrypted with.              *)
Holding == {"password", "reload", "ready", "serving"}

(* Whoever holds a key holds the one in the file: the file cannot be lost  *)
(* meanwhile.  That the data, if there is any, has an administrator next   *)
(* to it is what keeps a start from drawing a second key.                  *)
StartOK(p) ==
    /\ boot[p].at \in Holding => keyFile # NoKey /\ boot[p].key = keyFile
    /\ boot[p].at = "link" => boot[p].key # NoKey /\ ~boot[p].admin
    /\ boot[p].at \in {"key", "link"} /\ ~boot[p].admin /\ keyFile = NoKey => sealed = {}
    /\ boot[p].admin \/ boot[p].at \in {"reload", "ready", "serving"} => credential # Nobody
    /\ boot[p].at \in {"ready", "serving"} => boot[p].credential = credential

BootInv ==
    /\ BootTypeOK
    /\ \A p \in Processes : StartOK(p)
    /\ keyFile # NoKey => sealed \subseteq {keyFile}
    /\ sealed # {} => credential # Nobody

(* Nothing has started, nothing is stored.                                 *)
LEMMA BootStart == Init => BootInv
  BY AdminAssumption, BootAssumption
  DEF Init, BootInit, BootInv, StartOK, BootTypeOK, Booting, BootStages, Holding

(* A step of one process replaces its row of boot; the rows of the others, *)
(* and what they hold, are as they were.                                   *)
LEMMA BootRow ==
  ASSUME BootTypeOK, NEW p \in Processes, NEW new \in Booting,
         boot' = [boot EXCEPT ![p] = new]
  PROVE  /\ boot' \in [Processes -> Booting]
         /\ boot'[p] = new
         /\ \A q \in Processes \ {p} : boot'[q] = boot[q]
  BY DEF BootTypeOK

(* Moving on is such a step.                                               *)
LEMMA BootMoves ==
  ASSUME BootTypeOK, NEW p \in Processes, NEW stage \in BootStages, BootTo(p, stage)
  PROVE  /\ boot' = [boot EXCEPT ![p] = [boot[p] EXCEPT !.at = stage]]
         /\ [boot[p] EXCEPT !.at = stage] \in Booting
  BY DEF BootTypeOK, BootTo, Booting

(* Every step of a start, and every death, keeps keys and credentials in   *)
(* agreement.                                                              *)
LEMMA BootKeeps == BootInv /\ [BootNext]_bootVars => BootInv'
<1> SUFFICES ASSUME BootInv, [BootNext]_bootVars PROVE BootInv'
  OBVIOUS
<1>0. BootTypeOK
  BY DEF BootInv
<1>1. ASSUME NEW p \in Processes, LookForAdmin(p) PROVE BootInv'
  <2> DEFINE new == [boot[p] EXCEPT !.at = "key", !.admin = (credential # Nobody)]
  <2>1. new \in Booting
    BY <1>1, <1>0, BootAssumption DEF LookForAdmin, BootTypeOK, Booting, BootStages
  <2>2. boot' = [boot EXCEPT ![p] = new]
    BY <1>1, <1>0 DEF LookForAdmin, BootTypeOK, Booting
  <2>3. boot' \in [Processes -> Booting] /\ boot'[p] = new /\ \A q \in Processes \ {p} : boot'[q] = boot[q]
    BY <2>1, <2>2, <1>0, BootRow
  <2>4. BootTypeOK'
    BY <1>1, <2>3, <1>0 DEF LookForAdmin, BootTypeOK, Booting
  <2>5. ASSUME NEW q \in Processes, q # p PROVE StartOK(q)'
    BY <1>1, <2>3, <2>5, <1>0, BootAssumption DEF LookForAdmin, BootInv, BootTypeOK, StartOK, Booting, Holding
  <2>6. StartOK(p)'
    BY <1>1, <2>3, <1>0, BootAssumption DEF LookForAdmin, BootInv, BootTypeOK, StartOK, Booting, Holding
  <2>7. \A q \in Processes : StartOK(q)'
    BY <2>5, <2>6
  <2>8. /\ keyFile' # NoKey => sealed' \subseteq {keyFile'}
        /\ sealed' # {} => credential' # Nobody
    BY <1>1, <1>0, BootAssumption DEF LookForAdmin, BootInv, BootTypeOK, StartOK, Booting, Holding
  <2> QED
    BY <2>4, <2>7, <2>8 DEF BootInv
<1>2. ASSUME NEW p \in Processes, ReadKey(p) PROVE BootInv'
  <2> DEFINE new == [boot[p] EXCEPT !.at = AfterKey(p), !.key = keyFile]
  <2>1. new \in Booting
    BY <1>2, <1>0, BootAssumption DEF ReadKey, BootTypeOK, Booting, BootStages, AfterKey
  <2>2. boot' = [boot EXCEPT ![p] = new]
    BY <1>2, <1>0 DEF ReadKey, BootTypeOK, Booting
  <2>3. boot' \in [Processes -> Booting] /\ boot'[p] = new /\ \A q \in Processes \ {p} : boot'[q] = boot[q]
    BY <2>1, <2>2, <1>0, BootRow
  <2>4. BootTypeOK'
    BY <1>2, <2>3, <1>0, BootAssumption DEF ReadKey, BootTypeOK, Booting, AfterKey
  <2>5. ASSUME NEW q \in Processes, q # p PROVE StartOK(q)'
    BY <1>2, <2>3, <2>5, <1>0, BootAssumption DEF ReadKey, BootInv, BootTypeOK, StartOK, Booting, Holding, AfterKey
  <2>6. StartOK(p)'
    BY <1>2, <2>3, <1>0, BootAssumption DEF ReadKey, BootInv, BootTypeOK, StartOK, Booting, Holding, AfterKey
  <2>7. \A q \in Processes : StartOK(q)'
    BY <2>5, <2>6
  <2>8. /\ keyFile' # NoKey => sealed' \subseteq {keyFile'}
        /\ sealed' # {} => credential' # Nobody
    BY <1>2, <1>0, BootAssumption DEF ReadKey, BootInv, BootTypeOK, StartOK, Booting, Holding, AfterKey
  <2> QED
    BY <2>4, <2>7, <2>8 DEF BootInv
<1>3. ASSUME NEW p \in Processes, Link(p) PROVE BootInv'
  <2> DEFINE new == [boot[p] EXCEPT !.at = "password", !.key = keyFile']
  <2>1. new \in Booting
    BY <1>3, <1>0, BootAssumption DEF Link, BootTypeOK, Booting, BootStages, Linked
  <2>2. boot' = [boot EXCEPT ![p] = new]
    BY <1>3, <1>0 DEF Link, BootTypeOK, Booting
  <2>3. boot' \in [Processes -> Booting] /\ boot'[p] = new /\ \A q \in Processes \ {p} : boot'[q] = boot[q]
    BY <2>1, <2>2, <1>0, BootRow
  <2>4. BootTypeOK'
    BY <1>3, <2>3, <1>0, BootAssumption DEF Link, BootTypeOK, Booting, Linked
  <2>5. ASSUME NEW q \in Processes, q # p PROVE StartOK(q)'
    BY <1>3, <2>3, <2>5, <1>0, BootAssumption DEF Link, BootInv, BootTypeOK, StartOK, Booting, Holding, Linked
  <2>6. StartOK(p)'
    BY <1>3, <2>3, <1>0, BootAssumption DEF Link, BootInv, BootTypeOK, StartOK, Booting, Holding, Linked
  <2>7. \A q \in Processes : StartOK(q)'
    BY <2>5, <2>6
  <2>8. /\ keyFile' # NoKey => sealed' \subseteq {keyFile'}
        /\ sealed' # {} => credential' # Nobody
    BY <1>3, <1>0, BootAssumption DEF Link, BootInv, BootTypeOK, StartOK, Booting, Holding, Linked
  <2> QED
    BY <2>4, <2>7, <2>8 DEF BootInv
<1>4. ASSUME NEW p \in Processes, ReloadCredential(p) PROVE BootInv'
  <2> DEFINE new == [boot[p] EXCEPT !.at = "ready", !.credential = credential]
  <2>1. new \in Booting
    BY <1>4, <1>0, BootAssumption DEF ReloadCredential, BootTypeOK, Booting, BootStages
  <2>2. boot' = [boot EXCEPT ![p] = new]
    BY <1>4, <1>0 DEF ReloadCredential, BootTypeOK, Booting
  <2>3. boot' \in [Processes -> Booting] /\ boot'[p] = new /\ \A q \in Processes \ {p} : boot'[q] = boot[q]
    BY <2>1, <2>2, <1>0, BootRow
  <2>4. BootTypeOK'
    BY <1>4, <2>3, <1>0 DEF ReloadCredential, BootTypeOK, Booting
  <2>5. ASSUME NEW q \in Processes, q # p PROVE StartOK(q)'
    BY <1>4, <2>3, <2>5, <1>0, BootAssumption DEF ReloadCredential, BootInv, BootTypeOK, StartOK, Booting, Holding
  <2>6. StartOK(p)'
    BY <1>4, <2>3, <1>0, BootAssumption DEF ReloadCredential, BootInv, BootTypeOK, StartOK, Booting, Holding
  <2>7. \A q \in Processes : StartOK(q)'
    BY <2>5, <2>6
  <2>8. /\ keyFile' # NoKey => sealed' \subseteq {keyFile'}
        /\ sealed' # {} => credential' # Nobody
    BY <1>4, <1>0, BootAssumption DEF ReloadCredential, BootInv, BootTypeOK, StartOK, Booting, Holding
  <2> QED
    BY <2>4, <2>7, <2>8 DEF BootInv
<1>5. ASSUME NEW p \in Processes, InitializeAdminCredential(p) PROVE BootInv'
  <2> DEFINE new == [boot[p] EXCEPT !.at = "reload"]
  <2>1. BootTo(p, "reload") /\ "reload" \in BootStages
    BY <1>5 DEF InitializeAdminCredential, BootStages
  <2>2. new \in Booting /\ boot' = [boot EXCEPT ![p] = new]
    BY <2>1, <1>0, BootMoves
  <2>3. boot' \in [Processes -> Booting] /\ boot'[p] = new /\ \A q \in Processes \ {p} : boot'[q] = boot[q]
    BY <2>2, <1>0, BootRow
  <2>4. BootTypeOK'
    BY <1>5, <2>3, <1>0, BootAssumption DEF InitializeAdminCredential, BootTypeOK, Booting, FirstRow
  <2>5. ASSUME NEW q \in Processes, q # p PROVE StartOK(q)'
    BY <1>5, <2>3, <2>5, <1>0, BootAssumption DEF InitializeAdminCredential, BootInv, BootTypeOK, StartOK, Booting, Holding, FirstRow
  <2>6. StartOK(p)'
    BY <1>5, <2>3, <1>0, BootAssumption DEF InitializeAdminCredential, BootInv, BootTypeOK, StartOK, Booting, Holding, FirstRow
  <2>7. \A q \in Processes : StartOK(q)'
    BY <2>5, <2>6
  <2>8. /\ keyFile' # NoKey => sealed' \subseteq {keyFile'}
        /\ sealed' # {} => credential' # Nobody
    BY <1>5, <1>0, BootAssumption DEF InitializeAdminCredential, BootInv, BootTypeOK, StartOK, Booting, Holding, FirstRow
  <2> QED
    BY <2>4, <2>7, <2>8 DEF BootInv
<1>6. ASSUME NEW p \in Processes, Serve(p) PROVE BootInv'
  <2> DEFINE new == [boot[p] EXCEPT !.at = "serving"]
  <2>1. BootTo(p, "serving") /\ "serving" \in BootStages
    BY <1>6 DEF Serve, BootStages
  <2>2. new \in Booting /\ boot' = [boot EXCEPT ![p] = new]
    BY <2>1, <1>0, BootMoves
  <2>3. boot' \in [Processes -> Booting] /\ boot'[p] = new /\ \A q \in Processes \ {p} : boot'[q] = boot[q]
    BY <2>2, <1>0, BootRow
  <2>4. BootTypeOK'
    BY <1>6, <2>3, <1>0, BootAssumption DEF Serve, BootInv, BootTypeOK, StartOK, Booting, Holding
  <2>5. ASSUME NEW q \in Processes, q # p PROVE StartOK(q)'
    BY <1>6, <2>3, <2>5, <1>0, BootAssumption DEF Serve, BootInv, BootTypeOK, StartOK, Booting, Holding
  <2>6. StartOK(p)'
    BY <1>6, <2>3, <1>0, BootAssumption DEF Serve, BootInv, BootTypeOK, StartOK, Booting, Holding
  <2>7. \A q \in Processes : StartOK(q)'
    BY <2>5, <2>6
  <2>8. /\ keyFile' # NoKey => sealed' \subseteq {keyFile'}
        /\ sealed' # {} => credential' # Nobody
    BY <1>6, <1>0, BootAssumption DEF Serve, BootInv, BootTypeOK, StartOK, Booting, Holding
  <2> QED
    BY <2>4, <2>7, <2>8 DEF BootInv
<1>7. ASSUME NEW p \in Processes, End(p) PROVE BootInv'
  <2> DEFINE new == [boot[p] EXCEPT !.at = "ended"]
  <2>1. BootTo(p, "ended") /\ "ended" \in BootStages
    BY <1>7 DEF End, BootStages
  <2>2. new \in Booting /\ boot' = [boot EXCEPT ![p] = new]
    BY <2>1, <1>0, BootMoves
  <2>3. boot' \in [Processes -> Booting] /\ boot'[p] = new /\ \A q \in Processes \ {p} : boot'[q] = boot[q]
    BY <2>2, <1>0, BootRow
  <2>4. BootTypeOK'
    BY <1>7, <2>3, <1>0 DEF End, BootTypeOK, Booting
  <2>5. ASSUME NEW q \in Processes, q # p PROVE StartOK(q)'
    BY <1>7, <2>3, <2>5, <1>0, BootAssumption DEF End, BootInv, BootTypeOK, StartOK, Booting, Holding
  <2>6. StartOK(p)'
    BY <1>7, <2>3, <1>0, BootAssumption DEF End, BootInv, BootTypeOK, StartOK, Booting, Holding
  <2>7. \A q \in Processes : StartOK(q)'
    BY <2>5, <2>6
  <2>8. /\ keyFile' # NoKey => sealed' \subseteq {keyFile'}
        /\ sealed' # {} => credential' # Nobody
    BY <1>7, <1>0, BootAssumption DEF End, BootInv, BootTypeOK, StartOK, Booting, Holding
  <2> QED
    BY <2>4, <2>7, <2>8 DEF BootInv
<1>8. ASSUME NEW p \in Processes, NEW k \in Keys, DrawKey(p, k) PROVE BootInv'
  <2> DEFINE new == IF boot[p].admin THEN [boot[p] EXCEPT !.at = "ended"]
                    ELSE [boot[p] EXCEPT !.at = "link", !.key = k]
  <2>1. new \in Booting
    BY <1>0 DEF BootTypeOK, Booting, BootStages
  <2>2. boot' = [boot EXCEPT ![p] = new]
    BY <1>8, <1>0 DEF DrawKey, BootTo, BootTypeOK, Booting
  <2>3. boot' \in [Processes -> Booting] /\ boot'[p] = new /\ \A q \in Processes \ {p} : boot'[q] = boot[q]
    BY <2>1, <2>2, <1>0, BootRow
  <2>4. BootTypeOK'
    BY <1>8, <2>3, <1>0 DEF DrawKey, BootTypeOK, Booting
  <2>5. ASSUME NEW q \in Processes, q # p PROVE StartOK(q)'
    BY <1>8, <2>3, <2>5, <1>0, BootAssumption DEF DrawKey, BootInv, BootTypeOK, StartOK, Booting, Holding
  <2>6. StartOK(p)'
    BY <1>8, <2>3, <1>0, BootAssumption DEF DrawKey, BootInv, BootTypeOK, StartOK, Booting, Holding
  <2>7. \A q \in Processes : StartOK(q)'
    BY <2>5, <2>6
  <2>8. /\ keyFile' # NoKey => sealed' \subseteq {keyFile'}
        /\ sealed' # {} => credential' # Nobody
    BY <1>8, <1>0, BootAssumption DEF DrawKey, BootInv, BootTypeOK, StartOK, Booting, Holding
  <2> QED
    BY <2>4, <2>7, <2>8 DEF BootInv
<1>9. CASE LoseKeyFile
  BY <1>9, <1>0, BootAssumption DEF LoseKeyFile, BootInv, BootTypeOK, StartOK, Holding
<1>10. CASE UNCHANGED bootVars
  BY <1>10 DEF bootVars, BootInv, BootTypeOK, StartOK
<1> QED
  BY <1>1, <1>2, <1>3, <1>4, <1>5, <1>6, <1>7, <1>8, <1>9, <1>10 DEF BootNext

(* The starts of a gateway agree on one key and one administrator.         *)
THEOREM StartsCorrect == Spec => []StartsAgree
<1>1. BootInv => StartsAgree
  BY DEF BootInv, StartOK, StartsAgree, Holding
<1> QED
  BY <1>1, BootStart, ConsoleBootStep, BootKeeps, PTL DEF Spec

-----------------------------------------------------------------------------
(* The same of the logins: the end of the serving process is what makes    *)
(* them lose their memory, and no other step of a start touches them.      *)
SessionsStep == SessionsNext \/ LoseMemory

LEMMA ConsoleSessionStep == [Next]_vars => [SessionsStep]_sessionVars
<1> SUFFICES ASSUME [Next]_vars PROVE SessionsStep \/ UNCHANGED sessionVars
  OBVIOUS
<1>1. ASSUME NEW p \in Processes, BootStep(p) \/ Start(p) PROVE UNCHANGED sessionVars
  BY <1>1 DEF BootStep, Start
<1>2. ASSUME NEW p \in Processes, Stop(p) PROVE LoseMemory \/ UNCHANGED sessionVars
  BY <1>2 DEF Stop
<1>3. CASE Administer
  BY <1>3 DEF Administer, SessionsStep
<1>4. CASE UNCHANGED vars
  BY <1>4 DEF vars
<1> QED
  BY <1>1, <1>2, <1>3, <1>4 DEF Next, SessionsStep

(* The minute of a clock reading is one of the minutes.                    *)
LEMMA MinuteOf == ASSUME NEW t \in 0..MaxTime PROVE t \div Minute \in Minutes
  BY AdminAssumption DEF Minutes

(* The next reading is of the same minute or of a later one.               *)
LEMMA MinutesPass == ASSUME NEW t \in Nat PROVE t \div Minute <= (t + 1) \div Minute
  BY AdminAssumption

(* A reading that is at most MaxDelay old is of one of the last minutes.   *)
LEMMA MinutesAgo ==
  ASSUME NEW t \in Nat, NEW u \in Nat, u <= t, t - u <= MaxDelay
  PROVE  u \div Minute <= t \div Minute /\ t \div Minute <= u \div Minute + 2
<1>1. t <= u + 2 * Minute
  BY AdminAssumption
<1>2. Minute \in Nat /\ Minute > 0
  BY AdminAssumption
<1> QED
  BY <1>1, <1>2

(* What the assumption says of the numbers.                                *)
LEMMA Numbers ==
    /\ Limit \in Nat /\ Limit >= 1 /\ Minute \in Nat /\ Minute >= 1 /\ MaxTime \in Nat
    /\ AttemptLife \in Nat /\ SessionLife \in Nat
    /\ NoToken \notin Tokens /\ NoState \notin States
  BY AdminAssumption

(* A request under way has a client; one that rotates has both sessions.   *)
LoginInv ==
    /\ SessionsTypeOK
    /\ \A h \in Handlers :
          /\ hs[h].at # "idle" => hs[h].client \in Clients
          /\ hs[h].at = "rotating" => hs[h].old \in Tokens /\ hs[h].token \in Tokens

(* Nobody has a session, and no request is under way.                      *)
LEMMA LoginInit == Init => LoginInv
  BY Numbers DEF Init, SessionsInit, LoginInv, SessionsTypeOK, Handling, Stages, Idle, Minutes

(* Every step of a login keeps the types.                                  *)
LEMMA LoginStep == LoginInv /\ [SessionsStep]_sessionVars => LoginInv'
<1> SUFFICES ASSUME LoginInv, [SessionsStep]_sessionVars PROVE LoginInv'
  OBVIOUS
<1> USE Numbers DEF LoginInv, SessionsTypeOK, Handling, Stages, Expiries, sessionTables
<1>0. Idle \in Handling /\ Idle.at = "idle"
  BY DEF Idle
<1>1. ASSUME NEW h \in Handlers, NEW c \in Clients, NEW kind \in {"password", "oidc"},
             NEW now \in 0..time, Begin(h, c, kind, now)
      PROVE  LoginInv'
  <2> DEFINE m == now \div Minute
             new == [Idle EXCEPT !.at = "counted", !.kind = kind, !.client = c, !.now = now,
                                 !.old = IF kind = "oidc" THEN OldSession(c) ELSE NoToken]
  <2>0. now \in 0..MaxTime
    BY <1>1
  <2>1. m \in Minutes
    BY <2>0, MinuteOf
  <2>2. /\ DOMAIN windows' \subseteq Minutes
        /\ \A k \in DOMAIN windows' : windows'[k] \in 1..(Limit + 1)
    BY <1>1, <2>1 DEF Begin, RecordAdminLoginAttempt, Recent
  <2>3. new \in Handling /\ new.at = "counted" /\ new.client = c
    BY <2>0 DEF OldSession, Idle
  <2>4. /\ hs' = hs \/ hs' = [hs EXCEPT ![h] = new]
        /\ passed' = passed \/ passed' = [passed EXCEPT ![m] = @ + 1]
        /\ UNCHANGED <<time, sessions, attempts, jar, binding, born, ended>>
    BY <1>1 DEF Begin
  <2> HIDE DEF m, new
  <2>5. hs' \in [Handlers -> Handling] /\ passed' \in [Minutes -> Nat]
    BY <2>1, <2>3, <2>4
  <2>6. \A g \in Handlers : hs'[g] = hs[g] \/ hs'[g] = new
    BY <2>4
  <2> QED
    BY <2>2, <2>3, <2>4, <2>5, <2>6
<1>2. ASSUME NEW h \in Handlers, NEW c \in Clients, Callback(h, c) PROVE LoginInv'
  <2>1. PICK a \in attempts :
          /\ attempts' = Consume(a)
          /\ \/ hs' = [hs EXCEPT ![h] = [Idle EXCEPT
                            !.at = "exchanging", !.kind = "oidc", !.client = c,
                            !.now = time, !.state = a.state, !.old = a.old]]
                /\ UNCHANGED binding
             \/ binding' = [binding EXCEPT ![c] = NoState] /\ UNCHANGED hs
          /\ UNCHANGED <<time, sessionTables, jar, passed, born, ended>>
    BY <1>2 DEF Callback
  <2> DEFINE new == [Idle EXCEPT !.at = "exchanging", !.kind = "oidc", !.client = c,
                                 !.now = time, !.state = a.state, !.old = a.old]
  <2>2. new \in Handling /\ new.at = "exchanging" /\ new.client = c
    BY DEF Idle
  <2>3. hs' = hs \/ hs' = [hs EXCEPT ![h] = new]
    BY <2>1
  <2> HIDE DEF new
  <2>4. hs' \in [Handlers -> Handling] /\ \A g \in Handlers : hs'[g] = hs[g] \/ hs'[g] = new
    BY <2>2, <2>3
  <2> QED
    BY <2>1, <2>2, <2>4 DEF Consume
<1>3. ASSUME NEW h \in Handlers, EnterGate(h) PROVE LoginInv'
  BY <1>3 DEF EnterGate, Advance
<1>4. ASSUME NEW h \in Handlers, Refuse(h) PROVE LoginInv'
  BY <1>0, <1>4 DEF Refuse, Respond
<1>5. ASSUME NEW h \in Handlers, NEW s \in States, StartAttempt(h, s) PROVE LoginInv'
  BY <1>0, <1>5 DEF StartAttempt, Pending, Respond
<1>6. ASSUME NEW h \in Handlers, NEW t \in Tokens, CreateSession(h, t) PROVE LoginInv'
  BY <1>0, <1>6 DEF CreateSession, CreateAdminSession, LoginTime, MustRotate, HandOut, Respond
<1>7. ASSUME NEW h \in Handlers, Rotate(h) PROVE LoginInv'
  BY <1>0, <1>7 DEF Rotate, Without, HandOut, Respond
<1>8. ASSUME NEW h \in Handlers, RotationFails(h) PROVE LoginInv'
  BY <1>0, <1>8 DEF RotationFails, UndoLogin, Without, Respond
<1>9. ASSUME NEW c \in Clients, StrayCallback(c) PROVE LoginInv'
  BY <1>9 DEF StrayCallback
<1>10. ASSUME NEW c \in Clients, Logout(c) PROVE LoginInv'
  BY <1>10 DEF Logout, Authenticated, Without
<1>11. CASE SessionTick
  BY <1>11 DEF SessionTick
<1>12. CASE LoseMemory
  BY <1>0, <1>12 DEF LoseMemory, KeepTables
<1>13. CASE UNCHANGED sessionVars
  BY <1>13 DEF sessionVars
<1> QED
  BY <1>1, <1>2, <1>3, <1>4, <1>5, <1>6, <1>7, <1>8, <1>9, <1>10, <1>11, <1>12, <1>13
  DEF SessionsStep, SessionsNext

(* Types of the console.                                                   *)
THEOREM ConsoleTypeCorrect == Spec => []TypeOK
<1>1. BootInv /\ LoginInv => TypeOK
  BY DEF BootInv, LoginInv, TypeOK
<1> QED
  BY <1>1, BootStart, ConsoleBootStep, BootKeeps, LoginInit, ConsoleSessionStep, LoginStep, PTL
  DEF Spec

-----------------------------------------------------------------------------
(* The counter of a minute is at least what was let through in it, until   *)
(* the minute is so long over that no request under way has read a clock   *)
(* in it: only then the counter may be deleted.                            *)
LimitInv ==
    \A m \in Minutes :
        /\ passed[m] <= Limit
        /\ m \in DOMAIN windows => passed[m] <= windows[m]
        /\ m \notin DOMAIN windows /\ m + 2 >= time \div Minute => passed[m] = 0

(* Nothing is counted at the start.                                        *)
LEMMA LimitInit == Init => LimitInv
  BY Numbers DEF Init, SessionsInit, LimitInv

(* Only Begin counts, and in a minute whose counter is still there.        *)
LEMMA LimitStep == LoginInv /\ LimitInv /\ [SessionsStep]_sessionVars => LimitInv'
<1> SUFFICES ASSUME LoginInv, LimitInv, [SessionsStep]_sessionVars PROVE LimitInv'
  OBVIOUS
<1>0. /\ time \in 0..MaxTime /\ passed \in [Minutes -> Nat]
      /\ DOMAIN windows \subseteq Minutes /\ \A m \in DOMAIN windows : windows[m] \in 1..(Limit + 1)
  BY DEF LoginInv, SessionsTypeOK
<1>1. ASSUME NEW h \in Handlers, NEW c \in Clients, NEW kind \in {"password", "oidc"},
             NEW now \in 0..time, Begin(h, c, kind, now)
      PROVE  LimitInv'
  <2> DEFINE m == now \div Minute
             late == time \div Minute
  <2>1. m \in Minutes /\ late \in Minutes /\ m <= late /\ late <= m + 2
    <3>0. time \in Nat /\ time <= MaxTime /\ now \in 0..time
      BY <1>0, Numbers
    <3>1. now \in 0..MaxTime /\ now \in Nat /\ time \in Nat /\ now <= time
      BY <3>0, Numbers
    <3>2. time - now <= MaxDelay
      BY <1>1 DEF Begin
    <3> QED
      BY <1>0, <3>1, <3>2, MinuteOf, MinutesAgo
  <2>2. SUFFICES ASSUME NEW k \in Minutes
                 PROVE  /\ passed'[k] <= Limit
                        /\ k \in DOMAIN windows' => passed'[k] <= windows'[k]
                        /\ k \notin DOMAIN windows' /\ k + 2 >= late => passed'[k] = 0
    BY <1>1 DEF Begin, LimitInv
  <2>3. /\ windows' = [n \in Recent(m) \cup {m} |->
                         IF n # m THEN windows[n]
                         ELSE IF m \notin DOMAIN windows THEN 1
                         ELSE IF windows[m] > Limit THEN windows[m] ELSE windows[m] + 1]
        /\ passed' = IF windows'[m] > Limit THEN passed ELSE [passed EXCEPT ![m] = @ + 1]
    BY <1>1 DEF Begin, RecordAdminLoginAttempt
  <2>4. /\ passed[k] \in Nat /\ passed[k] <= Limit /\ k \in Int /\ m \in Int /\ late \in Int
        /\ k \in DOMAIN windows => passed[k] <= windows[k] /\ windows[k] \in 1..(Limit + 1)
        /\ k \notin DOMAIN windows /\ k + 2 >= late => passed[k] = 0
    BY <1>0, <2>1, Numbers DEF LimitInv, Minutes
  <2> HIDE DEF m, late
  <2>5. CASE k = m
    <3>1. windows'[m] = IF m \notin DOMAIN windows THEN 1
                        ELSE IF windows[m] > Limit THEN windows[m] ELSE windows[m] + 1
      BY <2>3
    <3>2. passed'[k] = IF windows'[m] > Limit THEN passed[k] ELSE passed[k] + 1
      BY <1>0, <2>1, <2>3, <2>5
    <3>3. k \in DOMAIN windows'
      BY <2>3, <2>5
    <3> QED
      BY <2>1, <2>4, <2>5, <3>1, <3>2, <3>3, Numbers
  <2>6. CASE k # m
    <3>1. passed'[k] = passed[k]
      BY <1>0, <2>3, <2>6
    <3>2. /\ k \in DOMAIN windows' => k \in DOMAIN windows /\ windows'[k] = windows[k]
          /\ k \in DOMAIN windows /\ k + 2 >= late => k \in DOMAIN windows'
      BY <2>1, <2>3, <2>4, <2>6 DEF Recent
    <3> QED
      BY <2>4, <3>1, <3>2
  <2> QED
    BY <2>5, <2>6
<1>2. CASE SessionTick
  <2>1. /\ time' = time + 1 /\ UNCHANGED <<windows, passed>>
    BY <1>2 DEF SessionTick, sessionTables
  <2>2. time \in Nat
    BY <1>0
  <2>3. time \div Minute <= time' \div Minute
    BY <2>1, <2>2, MinutesPass
  <2>4. time \div Minute \in Int /\ time' \div Minute \in Int /\ \A k \in Minutes : k \in Int
    BY <2>1, <2>2, Numbers DEF Minutes
  <2> DEFINE old == time \div Minute
             new == time' \div Minute
  <2>5. \A k \in Minutes : k + 2 >= new => k + 2 >= old
    <3> HIDE DEF old, new
    <3>1. old \in Int /\ new \in Int /\ old <= new
      BY <2>3, <2>4 DEF old, new
    <3> QED
      BY <2>4, <3>1
  <2> QED
    BY <2>1, <2>5 DEF LimitInv
<1>3. CASE UNCHANGED <<time, windows, passed>>
  BY <1>3 DEF LimitInv
<1>4. ASSUME NEW h \in Handlers, NEW c \in Clients, Callback(h, c) PROVE UNCHANGED <<time, windows, passed>>
  BY <1>4 DEF Callback, sessionTables
<1>5. ASSUME NEW h \in Handlers, EnterGate(h) \/ Refuse(h) \/ Rotate(h) \/ RotationFails(h)
      PROVE  UNCHANGED <<time, windows, passed>>
  BY <1>5 DEF EnterGate, Refuse, Rotate, RotationFails, sessionTables
<1>6. ASSUME NEW h \in Handlers, NEW s \in States, StartAttempt(h, s) PROVE UNCHANGED <<time, windows, passed>>
  BY <1>6 DEF StartAttempt, sessionTables
<1>7. ASSUME NEW h \in Handlers, NEW t \in Tokens, CreateSession(h, t) PROVE UNCHANGED <<time, windows, passed>>
  BY <1>7 DEF CreateSession
<1>8. ASSUME NEW c \in Clients, StrayCallback(c) \/ Logout(c) PROVE UNCHANGED <<time, windows, passed>>
  BY <1>8 DEF StrayCallback, Logout, sessionTables
<1>9. CASE LoseMemory
  BY <1>3, <1>9 DEF LoseMemory, KeepTables, sessionTables
<1>10. CASE UNCHANGED sessionVars
  BY <1>3, <1>10 DEF sessionVars, sessionTables
<1> QED
  BY <1>1, <1>2, <1>3, <1>4, <1>5, <1>6, <1>7, <1>8, <1>9, <1>10 DEF SessionsStep, SessionsNext

(* No minute lets more logins through than the limit, restarts or not.     *)
THEOREM LoginLimitCorrect == Spec => []LoginsWithinLimit
<1>1. LimitInv => LoginsWithinLimit
  BY DEF LimitInv, LoginsWithinLimit
<1> QED
  BY <1>1, LoginInit, LimitInit, ConsoleSessionStep, LoginStep, LimitStep, PTL DEF Spec

-----------------------------------------------------------------------------
(* A state parameter is pending, or in the hands of one callback, or has   *)
(* made its session, and only one of these.                                *)
StateInv ==
    /\ StateUsedOnce
    /\ \A a, b \in attempts : a.state = b.state => a = b
    /\ \A a \in attempts :
          /\ \A t \in DOMAIN born : born[t].state # a.state
          /\ \A h \in Handlers : hs[h].state # a.state
    /\ \A g, h \in Handlers : g # h /\ hs[g].state = hs[h].state => hs[g].state = NoState
    /\ \A h \in Handlers :
          /\ hs[h].at \in {"idle", "counted", "verifying"} => hs[h].state = NoState
          /\ hs[h].at = "exchanging" =>
                hs[h].state # NoState /\ \A t \in DOMAIN born : born[t].state # hs[h].state

(* Whatever was a session once.                                            *)
Known == DOMAIN born \cup {NoToken}

(* Tokens that are in use anywhere were made; one that a login presented   *)
(* was made before, so that no new session can be mistaken for it.         *)
RotationInv ==
    /\ OldSessionEnds
    /\ \A r \in sessions : r.token \in DOMAIN born
    /\ ended \subseteq DOMAIN born
    /\ \A c \in Clients : jar[c] \in Known
    /\ \A t \in DOMAIN born : born[t].old \in Known
    /\ \A a \in attempts : a.old \in Known
    /\ \A h \in Handlers :
          /\ hs[h].old \in Known
          /\ hs[h].at = "rotating" => hs[h].token \in DOMAIN born /\ born[hs[h].token].old = hs[h].old

(* No state has been drawn, and there are no sessions.                     *)
LEMMA HistoryInit == Init => StateInv /\ RotationInv
  BY DEF Init, SessionsInit, StateInv, StateUsedOnce, RotationInv, OldSessionEnds, Held, Known, Idle

(* A state moves on from one place to the next and is never put back; the  *)
(* old session is gone when the new one is handed out.                     *)
LEMMA HistoryStep ==
    LoginInv /\ StateInv /\ RotationInv /\ [SessionsStep]_sessionVars => StateInv' /\ RotationInv'
<1> SUFFICES ASSUME LoginInv, StateInv, RotationInv, [SessionsStep]_sessionVars
             PROVE  StateInv' /\ RotationInv'
  OBVIOUS
<1>0. /\ hs \in [Handlers -> Handling] /\ jar \in [Clients -> Tokens \cup {NoToken}]
      /\ \A a \in attempts : a.state \in States
      /\ \A r \in sessions : r.token \in Tokens
      /\ NoState \notin States /\ NoToken \notin Tokens /\ DOMAIN born \subseteq Tokens
      /\ \A h \in Handlers : hs[h].at # "idle" => hs[h].client \in Clients
      /\ \A h \in Handlers : hs[h].at = "rotating" => hs[h].old \in Tokens
  BY Numbers DEF LoginInv, SessionsTypeOK
<1>h. hs \in [Handlers -> Handling]
  BY <1>0
<1>a. Idle.at = "idle" /\ Idle.state = NoState /\ Idle.old = NoToken
  BY DEF Idle
<1>c. NoToken \notin DOMAIN born
  BY <1>0
<1>d. ASSUME sessions' \subseteq sessions, born' = born, ended' = ended,
             \A c \in Clients : jar'[c] = jar[c],
             \A a \in attempts' : a.old \in Held \cup {NoToken},
             \A g \in Handlers : hs'[g].old \in Held \cup {NoToken}
      PROVE  OldSessionEnds'
  <2>1. Held' \subseteq Held \cup {NoToken}
    BY <1>d DEF Held
  <2>2. ASSUME NEW r \in sessions', NEW t \in Held' \cap DOMAIN born'
        PROVE  born'[t].old # r.token
    <3>1. r \in sessions /\ t \in Held \cap DOMAIN born
      BY <1>c, <1>d, <2>1, <2>2
    <3> QED
      BY <1>d, <3>1 DEF RotationInv, OldSessionEnds
  <2>3. \A r \in sessions' : r.token \notin ended'
    BY <1>d DEF RotationInv, OldSessionEnds
  <2> QED
    BY <2>2, <2>3 DEF OldSessionEnds
<1>b. ASSUME \A g \in Handlers :
                hs'[g] = hs[g] \/ (hs'[g].state = NoState /\ hs'[g].at \in {"idle", "counted"}),
             attempts' \subseteq attempts, born' = born
      PROVE  StateInv'
  <2>1. StateUsedOnce' /\ \A a, b \in attempts' : a.state = b.state => a = b
    BY <1>b DEF StateInv, StateUsedOnce
  <2>2. ASSUME NEW a \in attempts'
        PROVE  /\ \A t \in DOMAIN born' : born'[t].state # a.state
               /\ \A h \in Handlers : hs'[h].state # a.state
    <3>1. a \in attempts /\ a.state # NoState
      BY <1>0, <1>b, <2>2
    <3> QED
      BY <1>b, <3>1 DEF StateInv
  <2>3. ASSUME NEW g \in Handlers, NEW h \in Handlers, g # h, hs'[g].state = hs'[h].state
        PROVE  hs'[g].state = NoState
    BY <1>b, <2>3 DEF StateInv
  <2>4. ASSUME NEW h \in Handlers
        PROVE  /\ hs'[h].at \in {"idle", "counted", "verifying"} => hs'[h].state = NoState
               /\ hs'[h].at = "exchanging" =>
                     hs'[h].state # NoState /\ \A t \in DOMAIN born' : born'[t].state # hs'[h].state
    <3>1. CASE hs'[h] = hs[h]
      BY <1>b, <3>1 DEF StateInv
    <3>2. CASE hs'[h].state = NoState /\ hs'[h].at \in {"idle", "counted"}
      BY <3>2
    <3> QED
      BY <1>b, <3>1, <3>2
  <2> QED
    BY <2>1, <2>2, <2>3, <2>4 DEF StateInv
<1>1. ASSUME NEW h \in Handlers, NEW c \in Clients, NEW kind \in {"password", "oidc"},
             NEW now \in 0..time, Begin(h, c, kind, now)
      PROVE  StateInv' /\ RotationInv'
  <2> DEFINE new == [Idle EXCEPT !.at = "counted", !.kind = kind, !.client = c, !.now = now,
                                 !.old = IF kind = "oidc" THEN OldSession(c) ELSE NoToken]
  <2>1. /\ UNCHANGED <<sessions, attempts, jar, born, ended>>
        /\ hs' = hs \/ hs' = [hs EXCEPT ![h] = new]
    BY <1>1 DEF Begin
  <2>2. new.at = "counted" /\ new.state = NoState /\ new.old \in {jar[c], NoToken}
    BY DEF Idle, OldSession
  <2>3. hs' = hs \/ hs' = [hs EXCEPT ![h] = new]
    BY <2>1
  <2> HIDE DEF new
  <2>4. \A g \in Handlers : hs'[g] = hs[g] \/ (g = h /\ hs'[g] = new)
    BY <1>h, <2>3
  <2>5. StateInv'
    BY <1>b, <2>1, <2>2, <2>4
  <2>6. new.old \in Held \cup {NoToken}
    BY <2>2 DEF Held
  <2>7. OldSessionEnds'
    BY <1>d, <2>1, <2>4, <2>6 DEF Held
  <2>8. RotationInv'
    BY <2>1, <2>2, <2>4, <2>7 DEF RotationInv, Known
  <2> QED
    BY <2>5, <2>8
<1>2. ASSUME NEW h \in Handlers, NEW c \in Clients, Callback(h, c) PROVE StateInv' /\ RotationInv'
  <2>1. PICK a \in attempts :
          /\ attempts' = attempts \ {a} /\ UNCHANGED <<sessions, jar, born, ended>>
          /\ \/ hs' = hs
             \/ hs' = [hs EXCEPT ![h] = [Idle EXCEPT
                            !.at = "exchanging", !.kind = "oidc", !.client = c,
                            !.now = time, !.state = a.state, !.old = a.old]]
    BY <1>2 DEF Callback, Consume, sessionTables
  <2> DEFINE new == [Idle EXCEPT !.at = "exchanging", !.kind = "oidc", !.client = c,
                                 !.now = time, !.state = a.state, !.old = a.old]
  <2>2. new.at = "exchanging" /\ new.state = a.state /\ new.old = a.old
    BY DEF Idle
  <2>3. hs' = hs \/ hs' = [hs EXCEPT ![h] = new]
    BY <2>1
  <2> HIDE DEF new
  <2>4. \A g \in Handlers : hs'[g] = hs[g] \/ (g = h /\ hs'[g] = new)
    BY <1>h, <2>3
  <2>5. StateInv'
    BY <1>0, <2>1, <2>2, <2>4 DEF StateInv, StateUsedOnce
  <2>6. RotationInv'
    BY <2>1, <2>2, <2>4 DEF RotationInv, OldSessionEnds, Held, Known
  <2> QED
    BY <2>5, <2>6
<1>3. ASSUME NEW h \in Handlers, EnterGate(h) PROVE StateInv' /\ RotationInv'
  <2> DEFINE new == [hs[h] EXCEPT !.at = "verifying"]
  <2>1. /\ UNCHANGED <<sessions, attempts, jar, born, ended>>
        /\ hs' = [hs EXCEPT ![h] = new] /\ hs[h].at = "counted"
    BY <1>3 DEF EnterGate, Advance, sessionTables
  <2>2. new.at = "verifying" /\ new.state = hs[h].state /\ new.old = hs[h].old
    BY <1>h DEF Handling
  <2> HIDE DEF new
  <2>3. \A g \in Handlers : hs'[g] = IF g = h THEN new ELSE hs[g]
    BY <1>h, <2>1
  <2>4. StateInv'
    BY <2>1, <2>2, <2>3 DEF StateInv, StateUsedOnce
  <2>5. RotationInv'
    BY <2>1, <2>2, <2>3 DEF RotationInv, OldSessionEnds, Held, Known
  <2> QED
    BY <2>4, <2>5
<1>4. ASSUME NEW h \in Handlers, Refuse(h) PROVE StateInv' /\ RotationInv'
  <2>1. UNCHANGED <<sessions, attempts, jar, born, ended>> /\ hs' = [hs EXCEPT ![h] = Idle]
    BY <1>4 DEF Refuse, Respond, sessionTables
  <2>2. \A g \in Handlers : hs'[g] = IF g = h THEN Idle ELSE hs[g]
    BY <1>h, <2>1
  <2>3. StateInv'
    BY <1>a, <1>b, <2>1, <2>2
  <2>4. OldSessionEnds'
    BY <1>a, <1>d, <2>1, <2>2 DEF Held
  <2>5. RotationInv'
    BY <1>a, <2>1, <2>2, <2>4 DEF RotationInv, Known
  <2> QED
    BY <2>3, <2>5
<1>5. ASSUME NEW h \in Handlers, NEW s \in States, StartAttempt(h, s) PROVE StateInv' /\ RotationInv'
  <2> DEFINE new == [state |-> s, old |-> hs[h].old, expires |-> hs[h].now + AttemptLife]
  <2>1. /\ attempts' \subseteq attempts \cup {new}
        /\ hs' = [hs EXCEPT ![h] = Idle] /\ UNCHANGED <<sessions, jar, born, ended>>
    BY <1>5 DEF StartAttempt, Pending, Respond, sessionTables
  <2>2. /\ \A a \in attempts : a.state # s
        /\ \A t \in DOMAIN born : born[t].state # s
        /\ \A g \in Handlers : hs[g].state # s
    BY <1>5 DEF StartAttempt
  <2>3. new.state = s /\ new.old = hs[h].old /\ s # NoState
    BY <1>0
  <2> HIDE DEF new
  <2>4. \A a \in attempts' : a \in attempts \/ a = new
    BY <2>1
  <2>5. \A g \in Handlers : hs'[g] = IF g = h THEN Idle ELSE hs[g]
    BY <1>h, <2>1
  <2>6. StateInv'
    <3>1. /\ StateUsedOnce' /\ \A a, b \in attempts' : a.state = b.state => a = b
      BY <2>1, <2>2, <2>3, <2>4 DEF StateInv, StateUsedOnce
    <3>2. ASSUME NEW a \in attempts'
          PROVE  /\ \A t \in DOMAIN born' : born'[t].state # a.state
                 /\ \A g \in Handlers : hs'[g].state # a.state
      <4>1. a.state # NoState
        BY <1>0, <2>3, <2>4, <3>2
      <4> QED
        BY <1>a, <2>1, <2>2, <2>3, <2>4, <2>5, <3>2, <4>1 DEF StateInv
    <3>3. ASSUME NEW f \in Handlers, NEW g \in Handlers, f # g, hs'[f].state = hs'[g].state
          PROVE  hs'[f].state = NoState
      BY <1>a, <2>5, <3>3 DEF StateInv
    <3>4. ASSUME NEW g \in Handlers
          PROVE  /\ hs'[g].at \in {"idle", "counted", "verifying"} => hs'[g].state = NoState
                 /\ hs'[g].at = "exchanging" =>
                       hs'[g].state # NoState /\ \A t \in DOMAIN born' : born'[t].state # hs'[g].state
      BY <1>a, <2>1, <2>5 DEF StateInv
    <3> QED
      BY <3>1, <3>2, <3>3, <3>4 DEF StateInv
  <2>7. OldSessionEnds'
    <3>1. new.old \in Held \cup {NoToken}
      BY <2>3 DEF Held
    <3> QED
      BY <1>a, <1>d, <2>1, <2>4, <2>5, <3>1 DEF Held
  <2>8. RotationInv'
    BY <1>a, <2>1, <2>3, <2>4, <2>5, <2>7 DEF RotationInv, Known
  <2> QED
    BY <2>6, <2>8
<1>6. ASSUME NEW h \in Handlers, NEW t \in Tokens, CreateSession(h, t) PROVE StateInv' /\ RotationInv'
  <2>1. /\ attempts' = attempts /\ ended' = ended
        /\ hs[h].at \in {"verifying", "exchanging"} /\ t \notin DOMAIN born
        /\ DOMAIN born' = DOMAIN born \cup {t}
        /\ \A u \in DOMAIN born : born'[u] = born[u]
        /\ born'[t].state = hs[h].state /\ born'[t].old = hs[h].old
        /\ \A r \in sessions' : r \in sessions \/ r.token = t
    BY <1>6 DEF CreateSession, CreateAdminSession
  <2>2. CASE hs[h].old # NoToken
    <3> DEFINE new == [hs[h] EXCEPT !.at = "rotating", !.token = t]
    <3>1. hs' = [hs EXCEPT ![h] = new] /\ jar' = jar
      BY <1>6, <2>2 DEF CreateSession, MustRotate
    <3>2. new.at = "rotating" /\ new.token = t /\ new.state = hs[h].state /\ new.old = hs[h].old
      BY <1>h DEF Handling
    <3> HIDE DEF new
    <3>3. \A g \in Handlers : hs'[g] = IF g = h THEN new ELSE hs[g]
      BY <1>h, <3>1
    <3>4. StateInv'
      BY <1>0, <2>1, <3>2, <3>3 DEF StateInv, StateUsedOnce
    <3>5. RotationInv'
      BY <1>0, <2>1, <3>1, <3>2, <3>3 DEF RotationInv, OldSessionEnds, Held, Known
    <3> QED
      BY <3>4, <3>5
  <2>3. CASE hs[h].old = NoToken
    <3>1. hs' = [hs EXCEPT ![h] = Idle] /\ jar' = [jar EXCEPT ![hs[h].client] = t]
      BY <1>6, <2>3 DEF CreateSession, MustRotate, HandOut, Respond
    <3>2. \A g \in Handlers :
            /\ g # h => hs'[g] = hs[g]
            /\ hs'[h].at = "idle" /\ hs'[h].state = NoState /\ hs'[h].old = NoToken
      BY <1>h, <3>1 DEF Idle
    <3>3. \A c \in Clients : jar'[c] = jar[c] \/ jar'[c] = t
      BY <1>0, <3>1
    <3>4. StateInv'
      BY <1>0, <2>1, <3>2 DEF StateInv, StateUsedOnce
    <3>5. RotationInv'
      BY <1>0, <2>1, <2>3, <3>2, <3>3 DEF RotationInv, OldSessionEnds, Held, Known
    <3> QED
      BY <3>4, <3>5
  <2> QED
    BY <2>2, <2>3
<1>7. ASSUME NEW h \in Handlers, Rotate(h) PROVE StateInv' /\ RotationInv'
  <2>1. /\ hs[h].at = "rotating" /\ UNCHANGED <<attempts, born>>
        /\ sessions' = {r \in sessions : r.token # hs[h].old}
        /\ ended' = ended \cup {hs[h].old}
        /\ jar' = [jar EXCEPT ![hs[h].client] = hs[h].token]
        /\ hs' = [hs EXCEPT ![h] = Idle]
    BY <1>7 DEF Rotate, Without, HandOut, Respond
  <2>2. \A c \in Clients : jar'[c] = jar[c] \/ jar'[c] = hs[h].token
    BY <1>0, <2>1
  <2>3. \A g \in Handlers : hs'[g] = IF g = h THEN Idle ELSE hs[g]
    BY <1>h, <2>1
  <2>4. StateInv'
    BY <1>a, <1>b, <2>1, <2>3
  <2>5. hs[h].old \in DOMAIN born
    BY <1>0, <2>1 DEF RotationInv, Known
  <2>6. OldSessionEnds'
    <3>1. Held' \subseteq Held \cup {NoToken, hs[h].token}
      BY <1>a, <2>1, <2>2, <2>3 DEF Held
    <3>2. ASSUME NEW r \in sessions', NEW t \in Held' \cap DOMAIN born'
          PROVE  born'[t].old # r.token
      <4>1. r \in sessions /\ r.token # hs[h].old /\ t \in DOMAIN born
        BY <2>1, <3>2
      <4>2. CASE t = hs[h].token
        BY <2>1, <4>1, <4>2 DEF RotationInv
      <4>3. CASE t \in Held
        BY <2>1, <4>1, <4>3 DEF RotationInv, OldSessionEnds
      <4> QED
        BY <1>c, <3>1, <3>2, <4>1, <4>2, <4>3
    <3>3. \A r \in sessions' : r.token \notin ended'
      BY <2>1 DEF RotationInv, OldSessionEnds
    <3> QED
      BY <3>2, <3>3 DEF OldSessionEnds
  <2>7. RotationInv'
    BY <1>a, <2>1, <2>2, <2>3, <2>5, <2>6 DEF RotationInv, Known
  <2> QED
    BY <2>4, <2>7
<1>8. ASSUME NEW h \in Handlers, RotationFails(h) PROVE StateInv' /\ RotationInv'
  <2>1. /\ UNCHANGED <<attempts, jar, born, ended>>
        /\ sessions' \subseteq sessions /\ hs' = [hs EXCEPT ![h] = Idle]
    BY <1>8 DEF RotationFails, UndoLogin, Without, Respond, sessionTables
  <2>2. \A g \in Handlers : hs'[g] = IF g = h THEN Idle ELSE hs[g]
    BY <1>h, <2>1
  <2>3. StateInv'
    BY <1>a, <1>b, <2>1, <2>2
  <2>4. OldSessionEnds'
    BY <1>a, <1>d, <2>1, <2>2 DEF Held
  <2>5. RotationInv'
    BY <1>a, <2>1, <2>2, <2>4 DEF RotationInv, Known
  <2> QED
    BY <2>3, <2>5
<1>9. CASE UNCHANGED <<sessions, attempts, hs, jar, born, ended>>
  BY <1>9 DEF StateInv, StateUsedOnce, RotationInv, OldSessionEnds, Held, Known
<1>10. ASSUME NEW c \in Clients, Logout(c) PROVE StateInv' /\ RotationInv'
  <2>1. /\ UNCHANGED <<attempts, hs, born>>
        /\ \/ sessions' = {r \in sessions : r.token # jar[c]} /\ ended' = ended \cup {jar[c]}
           \/ UNCHANGED <<sessions, ended>>
        /\ jar' = [jar EXCEPT ![c] = NoToken]
    BY <1>10 DEF Logout, Without
  <2>2. jar[c] \in DOMAIN born
    BY <1>10 DEF Logout, Authenticated, RotationInv
  <2>3. \A b \in Clients : jar'[b] = jar[b] \/ jar'[b] = NoToken
    BY <1>0, <2>1
  <2>4. StateInv'
    BY <2>1 DEF StateInv, StateUsedOnce
  <2>5. RotationInv'
    BY <1>0, <2>1, <2>2, <2>3 DEF RotationInv, OldSessionEnds, Held, Known
  <2> QED
    BY <2>4, <2>5
<1>11. ASSUME NEW c \in Clients, StrayCallback(c) PROVE UNCHANGED <<sessions, attempts, hs, jar, born, ended>>
  BY <1>11 DEF StrayCallback, sessionTables
<1>12. CASE SessionTick
  BY <1>9, <1>12 DEF SessionTick, sessionTables
<1>13. CASE LoseMemory
  <2>1. /\ attempts' = {} /\ UNCHANGED <<sessions, jar, born, ended>>
        /\ hs' = [h \in Handlers |-> Idle]
    BY <1>13 DEF LoseMemory, KeepTables, sessionTables
  <2>2. \A g \in Handlers : hs'[g].at = "idle" /\ hs'[g].state = NoState /\ hs'[g].old = NoToken
    BY <2>1 DEF Idle
  <2>3. StateInv'
    BY <1>a, <1>b, <2>1, <2>2
  <2>4. OldSessionEnds'
    BY <1>a, <1>d, <2>1, <2>2 DEF Held
  <2>5. RotationInv'
    BY <1>a, <2>1, <2>2, <2>4 DEF RotationInv, Known
  <2> QED
    BY <2>3, <2>5
<1>14. CASE UNCHANGED sessionVars
  BY <1>9, <1>14 DEF sessionVars, sessionTables
<1> QED
  BY <1>1, <1>2, <1>3, <1>4, <1>5, <1>6, <1>7, <1>8, <1>9, <1>10, <1>11, <1>12, <1>13, <1>14
  DEF SessionsStep, SessionsNext

(* A state parameter makes one session, whoever calls back with it.        *)
THEOREM StateCorrect == Spec => []StateUsedOnce
<1>1. StateInv => StateUsedOnce
  BY DEF StateInv
<1> QED
  BY <1>1, LoginInit, HistoryInit, ConsoleSessionStep, LoginStep, HistoryStep, PTL DEF Spec

(* What a login or a logout ended stays ended, and while a session lives   *)
(* nobody holds one whose login presented it, whichever deletes fail.      *)
THEOREM OldSessionCorrect == Spec => []OldSessionEnds
<1>1. RotationInv => OldSessionEnds
  BY DEF RotationInv
<1> QED
  BY <1>1, LoginInit, HistoryInit, ConsoleSessionStep, LoginStep, HistoryStep, PTL DEF Spec

-----------------------------------------------------------------------------
(* The pending attempts.  Each was let through by the counter of the       *)
(* minute it started in, and was the n-th of it: a ticket of minute and n. *)
(* Those the last clean-up left or let in started in few minutes, so there *)
(* are only so many tickets for them.                                      *)
Started(a)  == a.expires - AttemptLife
MinuteAt(t) == t \div Minute
Claimants   == {h \in Handlers : hs[h].at = "counted" /\ hs[h].kind = "oidc"}

Ticketed(n, f) ==
    /\ \A h \in Claimants : n[h] <= passed[MinuteAt(hs[h].now)]
    /\ \A a \in attempts : f[a.state] <= passed[MinuteAt(Started(a))]
    /\ \A g, h \in Claimants :
          g # h /\ MinuteAt(hs[g].now) = MinuteAt(hs[h].now) => n[g] # n[h]
    /\ \A a, b \in attempts :
          a # b /\ MinuteAt(Started(a)) = MinuteAt(Started(b)) => f[a.state] # f[b.state]
    /\ \A a \in attempts, h \in Claimants :
          MinuteAt(Started(a)) = MinuteAt(hs[h].now) => f[a.state] # n[h]

TicketInv ==
    \E n \in [Handlers -> 1..Limit], f \in [States -> 1..Limit] : Ticketed(n, f)

(* No `now` is old, and all attempts expire within a lifetime and a delay  *)
(* of the last clean-up.                                                   *)
Cleaned(t, rows) == \A a \in rows : t < a.expires /\ a.expires <= t + AttemptLife + MaxDelay

PaceInv ==
    /\ \A h \in Handlers : hs[h] # Idle => hs[h].now <= time /\ time - hs[h].now <= MaxDelay
    /\ \A a \in attempts : 0 <= Started(a) /\ Started(a) <= time
    /\ \E t \in Nat : Cleaned(t, attempts)

LEMMA PendingInit == Init => TicketInv /\ PaceInv
<1> SUFFICES ASSUME Init PROVE TicketInv /\ PaceInv
  OBVIOUS
<1>1. attempts = {} /\ Claimants = {} /\ \A h \in Handlers : hs[h] = Idle
  BY DEF Init, SessionsInit, Claimants, Idle
<1>2. PaceInv
  BY <1>1 DEF PaceInv, Cleaned
<1> DEFINE n == [h \in Handlers |-> 1]
           f == [s \in States |-> 1]
<1>3. n \in [Handlers -> 1..Limit] /\ f \in [States -> 1..Limit]
  BY Numbers
<1> HIDE DEF n, f
<1>4. Ticketed(n, f)
  BY <1>1 DEF Ticketed
<1> QED
  BY <1>2, <1>3, <1>4 DEF TicketInv

(* The start of an attempt, or of a login, is in one of the minutes.       *)
LEMMA TicketMinutes ==
  ASSUME LoginInv, PaceInv
  PROVE  /\ \A h \in Handlers : hs[h].now \in 0..MaxTime /\ MinuteAt(hs[h].now) \in Minutes
         /\ \A a \in attempts : /\ Started(a) \in 0..MaxTime /\ MinuteAt(Started(a)) \in Minutes
                                /\ a.expires \in Int /\ a.state \in States
         /\ time \in 0..MaxTime /\ MinuteAt(time) \in Minutes
         /\ \A m \in Minutes : passed[m] \in Nat
<1>1. /\ time \in 0..MaxTime /\ \A h \in Handlers : hs[h].now \in 0..MaxTime
      /\ \A a \in attempts : a.expires \in Expiries /\ a.state \in States
      /\ \A m \in Minutes : passed[m] \in Nat
  BY DEF LoginInv, SessionsTypeOK, Handling
<1>2. ASSUME NEW a \in attempts
      PROVE  Started(a) \in 0..MaxTime /\ a.expires \in Int
  <2>1. 0 <= Started(a) /\ Started(a) <= time /\ a.expires \in Int
    BY <1>1, Numbers DEF PaceInv, Expiries
  <2>2. Started(a) \in Int
    BY <2>1, Numbers DEF Started
  <2> QED
    BY <1>1, <2>1, <2>2, Numbers
<1> QED
  BY <1>1, <1>2, MinuteOf DEF MinuteAt

(* Whatever the requests do otherwise, no ticket changes hands.            *)
LEMMA TicketsStay ==
  ASSUME LoginInv, PaceInv, TicketInv,
         Claimants' \subseteq Claimants, \A h \in Claimants' : hs'[h] = hs[h],
         attempts' \subseteq attempts,
         \A m \in Minutes : passed'[m] = passed[m] \/ passed'[m] = passed[m] + 1
  PROVE  TicketInv'
<1>1. PICK n \in [Handlers -> 1..Limit], f \in [States -> 1..Limit] : Ticketed(n, f)
  BY DEF TicketInv
<1>2. /\ \A h \in Claimants : n[h] \in Nat /\ MinuteAt(hs[h].now) \in Minutes
      /\ \A a \in attempts : f[a.state] \in Nat /\ MinuteAt(Started(a)) \in Minutes
  BY Numbers, TicketMinutes DEF Claimants
<1>3. \A m \in Minutes : passed[m] \in Nat /\ passed'[m] \in Nat /\ passed[m] <= passed'[m]
  BY TicketMinutes
<1>4. ASSUME NEW h \in Claimants'
      PROVE  n[h] <= passed'[MinuteAt(hs'[h].now)]
  <2>1. h \in Claimants /\ hs'[h] = hs[h]
    OBVIOUS
  <2>2. n[h] <= passed[MinuteAt(hs[h].now)]
    BY <1>1, <2>1 DEF Ticketed
  <2> QED
    BY <1>2, <1>3, <2>1, <2>2
<1>5. ASSUME NEW a \in attempts'
      PROVE  f[a.state] <= passed'[MinuteAt(Started(a))]
  <2>1. f[a.state] <= passed[MinuteAt(Started(a))]
    BY <1>1 DEF Ticketed
  <2> QED
    BY <1>2, <1>3, <2>1
<1>6. Ticketed(n, f)'
  BY <1>1, <1>4, <1>5 DEF Ticketed, Started
<1> QED
  BY <1>6 DEF TicketInv

(* A login through the provider takes the next ticket of its minute.       *)
LEMMA TicketDrawn ==
  ASSUME LoginInv, LimitInv', PaceInv, TicketInv, NEW h \in Handlers, NEW now \in 0..MaxTime,
         passed' = [passed EXCEPT ![MinuteAt(now)] = @ + 1],
         attempts' = attempts, h \notin Claimants, hs'[h].now = now,
         \A g \in Handlers : g # h => hs'[g] = hs[g]
  PROVE  TicketInv'
<1>1. PICK n \in [Handlers -> 1..Limit], f \in [States -> 1..Limit] : Ticketed(n, f)
  BY DEF TicketInv
<1> DEFINE m == MinuteAt(now)
           next == passed[m] + 1
<1>2. m \in Minutes /\ passed[m] \in Nat /\ passed \in [Minutes -> Nat]
  BY MinuteOf, TicketMinutes DEF LoginInv, SessionsTypeOK, MinuteAt
<1>3. next \in 1..Limit /\ \A k \in Minutes : passed'[k] = IF k = m THEN next ELSE passed[k]
  <2>1. \A k \in Minutes : passed'[k] = IF k = m THEN next ELSE passed[k]
    BY <1>2
  <2>2. passed'[m] <= Limit
    BY <1>2 DEF LimitInv
  <2> QED
    BY <1>2, <2>1, <2>2, Numbers
<1>4. PICK new \in [Handlers -> 1..Limit] :
         new[h] = next /\ \A g \in Handlers : g # h => new[g] = n[g]
  <2> DEFINE ticket == [n EXCEPT ![h] = next]
  <2>1. /\ ticket \in [Handlers -> 1..Limit] /\ ticket[h] = next
        /\ \A g \in Handlers : g # h => ticket[g] = n[g]
    BY <1>3
  <2> QED
    BY <2>1
<1>5. next \in Nat /\ passed[m] < next
  BY <1>2
<1> HIDE DEF m, next
<1>6. /\ \A g \in Claimants : /\ g \in Handlers /\ g # h /\ n[g] \in Nat
                              /\ MinuteAt(hs[g].now) \in Minutes
                              /\ n[g] <= passed[MinuteAt(hs[g].now)]
      /\ \A a \in attempts : /\ f[a.state] \in Nat /\ MinuteAt(Started(a)) \in Minutes
                             /\ f[a.state] <= passed[MinuteAt(Started(a))]
      /\ \A k \in Minutes : passed[k] \in Nat
  BY <1>1, Numbers, TicketMinutes DEF Claimants, Ticketed
<1>7. \A k \in Minutes, x \in Nat :
         x <= passed[k] => x <= passed'[k] /\ (k = m => x # next)
  <2> SUFFICES ASSUME NEW k \in Minutes, NEW x \in Nat, x <= passed[k]
               PROVE  x <= passed'[k] /\ (k = m => x # next)
    OBVIOUS
  <2>1. CASE k = m
    BY <1>2, <1>3, <1>5, <2>1
  <2>2. CASE k # m
    BY <1>3, <2>2
  <2> QED
    BY <2>1, <2>2
<1>8. \A g \in Claimants' : g \in Handlers /\ (g # h => g \in Claimants /\ hs'[g] = hs[g])
  BY DEF Claimants
<1>9. MinuteAt(hs'[h].now) = m
  BY DEF m
<1>10. /\ \A g \in Claimants' : new[g] <= passed'[MinuteAt(hs'[g].now)]
       /\ \A a \in attempts' : f[a.state] <= passed'[MinuteAt(Started(a))]
  <2>1. passed'[m] = next /\ next <= next
    BY <1>2, <1>3, <1>5
  <2>2. ASSUME NEW g \in Claimants', g # h
        PROVE  new[g] <= passed'[MinuteAt(hs'[g].now)]
    BY <1>4, <1>6, <1>7, <1>8, <2>2
  <2>3. \A a \in attempts' : f[a.state] <= passed'[MinuteAt(Started(a))]
    BY <1>6, <1>7
  <2> QED
    BY <1>4, <1>9, <2>1, <2>2, <2>3
<1>11. ASSUME NEW g \in Claimants', NEW k \in Claimants', g # k,
              MinuteAt(hs'[g].now) = MinuteAt(hs'[k].now)
       PROVE  new[g] # new[k]
  <2>1. CASE g # h /\ k # h
    BY <1>1, <1>4, <1>8, <1>11, <2>1 DEF Ticketed
  <2>2. CASE g = h
    BY <1>4, <1>6, <1>7, <1>8, <1>9, <1>11, <2>2
  <2>3. CASE k = h
    BY <1>4, <1>6, <1>7, <1>8, <1>9, <1>11, <2>3
  <2> QED
    BY <2>1, <2>2, <2>3
<1>12. ASSUME NEW a \in attempts', NEW g \in Claimants',
              MinuteAt(Started(a)) = MinuteAt(hs'[g].now)
       PROVE  f[a.state] # new[g]
  <2>1. CASE g # h
    BY <1>1, <1>4, <1>8, <1>12, <2>1 DEF Ticketed
  <2>2. CASE g = h
    BY <1>4, <1>6, <1>7, <1>9, <1>12, <2>2
  <2> QED
    BY <2>1, <2>2
<1>13. Ticketed(new, f)'
  BY <1>1, <1>10, <1>11, <1>12 DEF Ticketed, Started
<1> QED
  BY <1>4, <1>13 DEF TicketInv

(* The attempt that is stored takes over the ticket of its login.          *)
LEMMA TicketPassedOn ==
  ASSUME LoginInv, PaceInv, TicketInv, NEW h \in Claimants, NEW s \in States,
         NEW a, a.state = s, Started(a) = hs[h].now, \A b \in attempts : b.state # s,
         attempts' \subseteq attempts \cup {a}, passed' = passed,
         Claimants' \subseteq Claimants \ {h}, \A g \in Claimants' : hs'[g] = hs[g]
  PROVE  TicketInv'
<1>1. PICK n \in [Handlers -> 1..Limit], f \in [States -> 1..Limit] : Ticketed(n, f)
  BY DEF TicketInv
<1> DEFINE new == [f EXCEPT ![s] = n[h]]
<1>2. \A b \in attempts : b.state \in States
  BY TicketMinutes
<1>3. h \in Handlers
  BY DEF Claimants
<1>4. /\ new \in [States -> 1..Limit] /\ new[a.state] = n[h]
      /\ \A b \in attempts : new[b.state] = f[b.state]
  BY <1>2, <1>3
<1> HIDE DEF new
<1>5. /\ \A g \in Claimants' : n[g] <= passed'[MinuteAt(hs'[g].now)]
      /\ \A g, k \in Claimants' :
            g # k /\ MinuteAt(hs'[g].now) = MinuteAt(hs'[k].now) => n[g] # n[k]
  BY <1>1 DEF Ticketed
<1>6. ASSUME NEW b \in attempts'
      PROVE  /\ new[b.state] <= passed'[MinuteAt(Started(b))]
             /\ \A g \in Claimants' :
                   MinuteAt(Started(b)) = MinuteAt(hs'[g].now) => new[b.state] # n[g]
             /\ \A c \in attempts :
                   b # c /\ MinuteAt(Started(b)) = MinuteAt(Started(c)) => new[b.state] # new[c.state]
  <2>1. CASE b \in attempts
    BY <1>1, <1>4, <2>1 DEF Ticketed
  <2>2. CASE b = a
    BY <1>1, <1>4, <2>2 DEF Ticketed
  <2> QED
    BY <2>1, <2>2
<1>7. \A b, c \in attempts' :
         b # c /\ MinuteAt(Started(b)) = MinuteAt(Started(c)) => new[b.state] # new[c.state]
  BY <1>6
<1>8. Ticketed(n, new)'
  BY <1>5, <1>6, <1>7 DEF Ticketed, Started
<1> QED
  BY <1>4, <1>8 DEF TicketInv

(* Steps that draw no ticket and store no attempt.                         *)
LEMMA PendingStays ==
  ASSUME LoginInv, PaceInv, TicketInv,
         \A g \in Handlers : \/ hs'[g] = hs[g]
                             \/ hs'[g] = Idle
                             \/ /\ ~(hs'[g].at = "counted" /\ hs'[g].kind = "oidc")
                                /\ \/ hs'[g].now = time
                                   \/ hs[g] # Idle /\ hs'[g].now = hs[g].now,
         attempts' \subseteq attempts, time' = time,
         \A m \in Minutes : passed'[m] = passed[m] \/ passed'[m] = passed[m] + 1
  PROVE  TicketInv' /\ PaceInv'
<1>1. Idle.at = "idle"
  BY DEF Idle
<1>2. Claimants' \subseteq Claimants /\ \A h \in Claimants' : hs'[h] = hs[h]
  BY <1>1 DEF Claimants
<1>3. TicketInv'
  BY <1>2, TicketsStay
<1>4. ASSUME NEW g \in Handlers, hs'[g] # Idle
      PROVE  hs'[g].now <= time' /\ time' - hs'[g].now <= MaxDelay
  <2>1. time \in Nat /\ MaxDelay \in Nat
    BY TicketMinutes, AdminAssumption
  <2>2. CASE hs'[g].now = time
    BY <2>1, <2>2
  <2>3. CASE hs[g] # Idle /\ hs'[g].now = hs[g].now
    BY <2>3 DEF PaceInv
  <2> QED
    BY <1>4, <2>2, <2>3
<1>5. PaceInv'
  BY <1>4 DEF PaceInv, Cleaned, Started
<1> QED
  BY <1>3, <1>5

LEMMA PendingStep ==
  LoginInv /\ LimitInv' /\ TicketInv /\ PaceInv /\ [SessionsStep]_sessionVars
    => TicketInv' /\ PaceInv'
<1> SUFFICES ASSUME LoginInv, LimitInv', TicketInv, PaceInv, [SessionsStep]_sessionVars
             PROVE  TicketInv' /\ PaceInv'
  OBVIOUS
<1>0. hs \in [Handlers -> Handling] /\ passed \in [Minutes -> Nat]
  BY DEF LoginInv, SessionsTypeOK
<1>a. Idle.at = "idle" /\ Idle.now = 0
  BY DEF Idle
<1>1. ASSUME NEW h \in Handlers, NEW c \in Clients, NEW kind \in {"password", "oidc"},
             NEW now \in 0..time, Begin(h, c, kind, now)
      PROVE  TicketInv' /\ PaceInv'
  <2> DEFINE new == [Idle EXCEPT !.at = "counted", !.kind = kind, !.client = c, !.now = now,
                                 !.old = IF kind = "oidc" THEN OldSession(c) ELSE NoToken]
  <2>0. now \in 0..MaxTime /\ now \in Nat /\ now <= time
    <3>1. time \in 0..MaxTime
      BY TicketMinutes
    <3> QED
      BY <3>1, Numbers
  <2>1. new.at = "counted" /\ new.kind = kind /\ new.now = now
    BY DEF Idle
  <2>2. /\ hs[h] = Idle /\ time - now <= MaxDelay /\ attempts' = attempts /\ time' = time
        /\ \/ hs' = hs /\ passed' = passed
           \/ hs' = [hs EXCEPT ![h] = new] /\ passed' = [passed EXCEPT ![MinuteAt(now)] = @ + 1]
    BY <1>1 DEF Begin, MinuteAt
  <2> HIDE DEF new
  <2>3. CASE hs' = hs /\ passed' = passed
    BY <2>2, <2>3, PendingStays
  <2>4. CASE hs' = [hs EXCEPT ![h] = new] /\ passed' = [passed EXCEPT ![MinuteAt(now)] = @ + 1]
    <3>1. hs'[h] = new /\ \A g \in Handlers : g # h => hs'[g] = hs[g]
      BY <1>0, <2>4
    <3>2. TicketInv'
      <4>1. h \notin Claimants
        BY <1>a, <2>2 DEF Claimants
      <4> QED
        BY <2>0, <2>1, <2>2, <2>4, <3>1, <4>1, TicketDrawn
    <3>3. ASSUME NEW g \in Handlers, hs'[g] # Idle
          PROVE  hs'[g].now <= time' /\ time' - hs'[g].now <= MaxDelay
      <4>1. time \in Nat /\ MaxDelay \in Nat
        BY TicketMinutes, AdminAssumption
      <4>2. CASE g = h
        BY <2>0, <2>1, <2>2, <3>1, <4>1, <4>2
      <4>3. CASE g # h
        BY <2>2, <3>1, <3>3, <4>3 DEF PaceInv
      <4> QED
        BY <4>2, <4>3
    <3>4. PaceInv'
      BY <2>2, <3>3 DEF PaceInv, Cleaned, Started
    <3> QED
      BY <3>2, <3>4
  <2> QED
    BY <2>2, <2>3, <2>4
<1>2. ASSUME NEW h \in Handlers, NEW c \in Clients, Callback(h, c) PROVE TicketInv' /\ PaceInv'
  <2>1. PICK a \in attempts :
          /\ attempts' = Consume(a)
          /\ \/ hs' = [hs EXCEPT ![h] = [Idle EXCEPT
                            !.at = "exchanging", !.kind = "oidc", !.client = c,
                            !.now = time, !.state = a.state, !.old = a.old]]
             \/ hs' = hs
          /\ time' = time /\ passed' = passed
    BY <1>2 DEF Callback
  <2> DEFINE new == [Idle EXCEPT !.at = "exchanging", !.kind = "oidc", !.client = c,
                                 !.now = time, !.state = a.state, !.old = a.old]
  <2>2. new.at = "exchanging" /\ new.now = time
    BY DEF Idle
  <2>3. hs' = hs \/ hs' = [hs EXCEPT ![h] = new]
    BY <2>1
  <2> HIDE DEF new
  <2>4. \A g \in Handlers : hs'[g] = hs[g] \/ (hs'[g].at # "counted" /\ hs'[g].now = time)
    BY <1>0, <2>2, <2>3
  <2>5. attempts' \subseteq attempts
    BY <2>1 DEF Consume
  <2> QED
    BY <2>1, <2>4, <2>5, PendingStays
<1>3. ASSUME NEW h \in Handlers, EnterGate(h) PROVE TicketInv' /\ PaceInv'
  <2>1. /\ hs[h].at = "counted" /\ hs' = [hs EXCEPT ![h].at = "verifying"]
        /\ UNCHANGED <<time, attempts, passed>>
    BY <1>3 DEF EnterGate, Advance
  <2>2. \A g \in Handlers : \/ hs'[g] = hs[g]
                            \/ /\ hs'[g].at = "verifying" /\ hs[g] # Idle
                               /\ hs'[g].now = hs[g].now
    BY <1>0, <1>a, <2>1 DEF Handling
  <2> QED
    BY <2>1, <2>2, PendingStays
<1>b. ASSUME NEW h \in Handlers, Respond(h), UNCHANGED <<time, attempts, passed>>
      PROVE  TicketInv' /\ PaceInv'
  <2>1. \A g \in Handlers : hs'[g] = hs[g] \/ hs'[g] = Idle
    BY <1>0, <1>b DEF Respond
  <2> QED
    BY <1>b, <2>1, PendingStays
<1>4. ASSUME NEW h \in Handlers, Refuse(h) PROVE TicketInv' /\ PaceInv'
  BY <1>b, <1>4 DEF Refuse
<1>5. ASSUME NEW h \in Handlers, NEW s \in States, StartAttempt(h, s) PROVE TicketInv' /\ PaceInv'
  <2> DEFINE now == hs[h].now
             a == [state |-> s, old |-> hs[h].old, expires |-> now + AttemptLife]
  <2>1. /\ hs[h].at = "counted" /\ hs[h].kind = "oidc" /\ hs' = [hs EXCEPT ![h] = Idle]
        /\ attempts' \subseteq Pending(now) \cup {a}
        /\ \A b \in attempts : b.state # s
        /\ UNCHANGED <<time, passed>>
    BY <1>5 DEF StartAttempt, Respond
  <2>2. now \in 0..MaxTime /\ AttemptLife \in Nat \ {0} /\ MaxDelay \in Nat /\ time \in Nat
    BY TicketMinutes, AdminAssumption
  <2>3. a.state = s /\ a.expires = now + AttemptLife
    OBVIOUS
  <2>4. Started(a) = now
    BY <2>2, <2>3 DEF Started
  <2>5. now <= time /\ time - now <= MaxDelay
    BY <1>a, <2>1 DEF PaceInv
  <2>6. \A g \in Handlers : hs'[g] = Idle \/ (g # h /\ hs'[g] = hs[g])
    BY <1>0, <2>1
  <2>7. TicketInv'
    <3>1. h \in Claimants
      BY <2>1 DEF Claimants
    <3>2. Claimants' \subseteq Claimants \ {h} /\ \A g \in Claimants' : hs'[g] = hs[g]
      BY <1>a, <2>6 DEF Claimants
    <3>3. attempts' \subseteq attempts \cup {a}
      BY <2>1 DEF Pending
    <3> HIDE DEF a
    <3> QED
      BY <2>1, <2>3, <2>4, <3>1, <3>2, <3>3, TicketPassedOn
  <2>8. PaceInv'
    <3>1. \A g \in Handlers : hs'[g] # Idle => hs'[g].now <= time' /\ time' - hs'[g].now <= MaxDelay
      BY <2>1, <2>6 DEF PaceInv
    <3>2. \A b \in Pending(now) : /\ b \in attempts /\ now < b.expires /\ b.expires \in Int
                                  /\ 0 <= Started(b) /\ Started(b) <= time
      BY <2>2, TicketMinutes DEF Pending, PaceInv
    <3>3. \A b \in attempts' : 0 <= Started(b) /\ Started(b) <= time
      <4>1. 0 <= Started(a) /\ Started(a) <= time
        BY <2>2, <2>4, <2>5
      <4> HIDE DEF a
      <4> QED
        BY <2>1, <3>2, <4>1
    <3>4. Cleaned(now, attempts')
      <4>1. now < a.expires /\ a.expires <= now + AttemptLife + MaxDelay
        BY <2>2, <2>3
      <4>2. ASSUME NEW b \in Pending(now)
            PROVE  now < b.expires /\ b.expires <= now + AttemptLife + MaxDelay
        BY <2>2, <2>5, <3>2 DEF Started
      <4> HIDE DEF a
      <4> QED
        BY <2>1, <4>1, <4>2 DEF Cleaned
    <3>5. PICK t \in Nat : t = now
      BY <2>2
    <3>6. Cleaned(t, attempts)'
      BY <3>4, <3>5 DEF Cleaned
    <3> QED
      BY <2>1, <3>1, <3>3, <3>6 DEF PaceInv, Started
  <2> QED
    BY <2>7, <2>8
<1>6. ASSUME NEW h \in Handlers, NEW t \in Tokens, CreateSession(h, t) PROVE TicketInv' /\ PaceInv'
  <2>1. /\ hs[h].at \in {"verifying", "exchanging"} /\ UNCHANGED <<time, attempts, passed>>
        /\ \/ hs' = [hs EXCEPT ![h].at = "rotating", ![h].token = t]
           \/ Respond(h)
    BY <1>6 DEF CreateSession, HandOut
  <2>2. CASE hs' = [hs EXCEPT ![h].at = "rotating", ![h].token = t]
    <3>1. \A g \in Handlers : \/ hs'[g] = hs[g]
                              \/ /\ hs'[g].at = "rotating" /\ hs[g] # Idle
                                 /\ hs'[g].now = hs[g].now
      BY <1>0, <1>a, <2>1, <2>2 DEF Handling
    <3> QED
      BY <2>1, <3>1, PendingStays
  <2> QED
    BY <1>b, <2>1, <2>2
<1>7. ASSUME NEW h \in Handlers, Rotate(h) PROVE TicketInv' /\ PaceInv'
  BY <1>b, <1>7 DEF Rotate, HandOut
<1>8. ASSUME NEW h \in Handlers, RotationFails(h) PROVE TicketInv' /\ PaceInv'
  BY <1>b, <1>8 DEF RotationFails, UndoLogin
<1>c. ASSUME UNCHANGED <<time, attempts, hs, passed>> PROVE TicketInv' /\ PaceInv'
  BY <1>c, PendingStays
<1>9. ASSUME NEW c \in Clients, StrayCallback(c) \/ Logout(c) PROVE TicketInv' /\ PaceInv'
  BY <1>c, <1>9 DEF StrayCallback, Logout
<1>10. CASE SessionTick
  <2>1. /\ time' = time + 1 /\ UNCHANGED <<attempts, hs, passed>>
        /\ \A h \in Handlers : hs[h] # Idle => time - hs[h].now < MaxDelay
    BY <1>10 DEF SessionTick
  <2>2. /\ time \in Nat /\ MaxDelay \in Nat /\ \A h \in Handlers : hs[h].now \in Nat
        /\ \A b \in attempts : Started(b) \in Nat
    BY TicketMinutes, AdminAssumption
  <2>3. Claimants' = Claimants /\ attempts' \subseteq attempts
    BY <2>1 DEF Claimants
  <2>4. TicketInv'
    BY <2>1, <2>3, TicketsStay
  <2>5. ASSUME NEW h \in Handlers, hs[h] # Idle
        PROVE  hs[h].now <= time' /\ time' - hs[h].now <= MaxDelay
    <3>1. hs[h].now <= time /\ time - hs[h].now < MaxDelay
      BY <2>1, <2>5 DEF PaceInv
    <3> QED
      BY <2>1, <2>2, <3>1
  <2>6. ASSUME NEW b \in attempts
        PROVE  0 <= Started(b) /\ Started(b) <= time'
    <3>1. 0 <= Started(b) /\ Started(b) <= time
      BY DEF PaceInv
    <3> QED
      BY <2>1, <2>2, <3>1
  <2>7. PaceInv'
    BY <2>1, <2>5, <2>6 DEF PaceInv, Cleaned, Started
  <2> QED
    BY <2>4, <2>7
<1>11. CASE LoseMemory
  <2>1. /\ \A h \in Handlers : hs'[h] = Idle
        /\ attempts' \subseteq attempts /\ UNCHANGED <<time, passed>>
    BY <1>11 DEF LoseMemory
  <2> QED
    BY <2>1, PendingStays
<1>12. CASE UNCHANGED sessionVars
  BY <1>c, <1>12 DEF sessionVars
<1> QED
  BY <1>1, <1>2, <1>3, <1>4, <1>5, <1>6, <1>7, <1>8, <1>9, <1>10, <1>11, <1>12
  DEF SessionsStep, SessionsNext

(* Division by the length of a minute.                                     *)
LEMMA DivMod ==
  ASSUME NEW t \in Nat
  PROVE  t \div Minute \in Nat /\ Minute * (t \div Minute) <= t /\ t < Minute * (t \div Minute) + Minute
  BY Numbers

LEMMA Quotients ==
  ASSUME NEW k \in Int, NEW w \in Int, Minute * k < Minute * w + Minute
  PROVE  k <= w
<1>1. SUFFICES ASSUME k >= w + 1 PROVE FALSE
  OBVIOUS
<1>2. Minute * k >= Minute * (w + 1) /\ Minute * (w + 1) = Minute * w + Minute
  BY <1>1, Numbers
<1>3. Minute * k \in Int /\ Minute * w \in Int /\ Minute * (w + 1) \in Int /\ Minute \in Int
  BY Numbers
<1> QED
  BY <1>2, <1>3

(* A span of d ticks touches one minute more than it has whole ones, the   *)
(* last of them begun or not.                                              *)
LEMMA Spread ==
  ASSUME NEW x \in Nat, NEW s \in Nat, NEW d \in Nat, x <= s, s <= x + d
  PROVE  /\ x \div Minute <= s \div Minute
         /\ s \div Minute <= x \div Minute + (d + Minute - 1) \div Minute
<1> DEFINE qx == x \div Minute
           qs == s \div Minute
           w  == (d + Minute - 1) \div Minute
<1>1. /\ qx \in Nat /\ Minute * qx <= x /\ x < Minute * qx + Minute
      /\ qs \in Nat /\ Minute * qs <= s /\ s < Minute * qs + Minute
  BY DivMod
<1>2. w \in Nat /\ Minute * w <= d + Minute - 1 /\ d + Minute - 1 < Minute * w + Minute
  <2>1. d + Minute - 1 \in Nat
    BY Numbers
  <2> QED
    BY <2>1, DivMod
<1> HIDE DEF qx, qs, w
<1>3. /\ Minute * qx \in Int /\ Minute * qs \in Int /\ Minute * w \in Int
      /\ Minute * (qx + w) \in Int /\ Minute \in Int
  BY <1>1, <1>2, Numbers
<1>4. Minute * (qx + w) = Minute * qx + Minute * w
  BY <1>1, <1>2, Numbers
<1>5. qx <= qs
  <2>1. Minute * qx < Minute * qs + Minute
    BY <1>1, <1>3
  <2> QED
    BY <1>1, <2>1, Quotients
<1>6. qs <= qx + w
  <2>1. Minute * qs < Minute * (qx + w) + Minute
    BY <1>1, <1>2, <1>3, <1>4
  <2> QED
    BY <1>1, <1>2, <2>1, Quotients
<1> QED
  BY <1>5, <1>6 DEF qx, qs, w

(* Tickets tell the attempts apart, and there are Limit of them in each of *)
(* the minutes the attempts can have started in.                           *)
LEMMA PendingBound ==
  ASSUME LoginInv, PaceInv, TicketInv
  PROVE  PendingWithinLimit
<1> DEFINE w == (AttemptLife + MaxDelay + Minute - 2) \div Minute
<1>1. PICK n \in [Handlers -> 1..Limit], f \in [States -> 1..Limit] : Ticketed(n, f)
  BY DEF TicketInv
<1>2. PICK t \in Nat : Cleaned(t, attempts)
  BY DEF PaceInv
<1>3. AttemptLife \in Nat \ {0} /\ MaxDelay \in Nat /\ Minute \in Nat \ {0} /\ Limit \in Nat \ {0}
  BY AdminAssumption
<1>4. PICK x \in Nat : /\ t + 1 <= AttemptLife => x = 0
                       /\ t + 1 > AttemptLife => x = t + 1 - AttemptLife
  <2>1. CASE t + 1 <= AttemptLife
    <3>1. ~(t + 1 > AttemptLife) /\ 0 \in Nat
      BY <1>3, <2>1
    <3> QED
      BY <3>1
  <2>2. CASE t + 1 > AttemptLife
    <3>1. ~(t + 1 <= AttemptLife) /\ t + 1 - AttemptLife \in Nat
      BY <1>3, <2>2
    <3> QED
      BY <3>1
  <2> QED
    BY <1>3, <2>1, <2>2
<1>5. w \in Nat
  <2>1. AttemptLife + MaxDelay + Minute - 2 \in Nat
    BY <1>3
  <2> QED
    BY <2>1, DivMod
<1>6. x \div Minute \in Nat
  BY DivMod
<1>7. ASSUME NEW a \in attempts
      PROVE  MinuteAt(Started(a)) \in (x \div Minute)..(x \div Minute + w) /\ f[a.state] \in 1..Limit
  <2>1. /\ Started(a) \in Nat /\ a.expires \in Int /\ a.state \in States
        /\ MinuteAt(Started(a)) \in Nat
    BY TicketMinutes, Numbers DEF Minutes
  <2>2. t < Started(a) + AttemptLife /\ Started(a) <= t + MaxDelay
    BY <1>2, <1>3, <2>1 DEF Cleaned, Started
  <2> DEFINE d == AttemptLife + MaxDelay - 1
  <2>3. d \in Nat /\ x <= Started(a) /\ Started(a) <= x + d
    BY <1>3, <1>4, <2>1, <2>2
  <2>4. d + Minute - 1 = AttemptLife + MaxDelay + Minute - 2
    BY <1>3
  <2> HIDE DEF d
  <2>5. /\ x \div Minute <= Started(a) \div Minute
        /\ Started(a) \div Minute <= x \div Minute + (d + Minute - 1) \div Minute
    BY <2>1, <2>3, Spread
  <2>6. /\ x \div Minute <= MinuteAt(Started(a))
        /\ MinuteAt(Started(a)) <= x \div Minute + w
    BY <2>4, <2>5 DEF MinuteAt
  <2> HIDE DEF w
  <2> QED
    BY <1>5, <1>6, <2>1, <2>6
<1> DEFINE lo == x \div Minute
           hi == lo + w
           tickets == (lo..hi) \X (1..Limit)
           ticketOf == [a \in attempts |-> <<MinuteAt(Started(a)), f[a.state]>>]
<1> HIDE DEF w
<1>8. IsFiniteSet(tickets) /\ Cardinality(tickets) = (w + 1) * Limit
  <2>1. lo \in Int /\ hi \in Int /\ lo <= hi /\ hi - lo + 1 = w + 1
    BY <1>5, <1>6
  <2> HIDE DEF lo, hi
  <2>2. IsFiniteSet(lo..hi) /\ Cardinality(lo..hi) = w + 1
    BY <2>1, FS_Interval
  <2>3. IsFiniteSet(1..Limit) /\ Cardinality(1..Limit) = Limit
    BY <1>3, FS_Interval
  <2> DEFINE minutes == lo..hi
             places  == 1..Limit
  <2>4. /\ IsFiniteSet(minutes) /\ Cardinality(minutes) = w + 1
        /\ IsFiniteSet(places) /\ Cardinality(places) = Limit
    BY <2>2, <2>3
  <2>5. tickets = minutes \X places
    OBVIOUS
  <2> HIDE DEF minutes, places, tickets
  <2>6. /\ IsFiniteSet(minutes \X places)
        /\ Cardinality(minutes \X places) = Cardinality(minutes) * Cardinality(places)
    BY <2>4, FS_Product
  <2> QED
    BY <2>4, <2>5, <2>6
<1>9. ticketOf \in Injection(attempts, tickets)
  <2>1. ticketOf \in [attempts -> tickets]
    BY <1>7
  <2>2. ASSUME NEW a \in attempts, NEW b \in attempts, ticketOf[a] = ticketOf[b]
        PROVE  a = b
    <3>1. MinuteAt(Started(a)) = MinuteAt(Started(b)) /\ f[a.state] = f[b.state]
      BY <2>2
    <3> QED
      BY <1>1, <3>1 DEF Ticketed
  <2> HIDE DEF ticketOf, tickets
  <2> QED
    BY <2>1, <2>2 DEF Injection, IsInjective
<1> HIDE DEF ticketOf, tickets
<1>10. Cardinality(attempts) <= Cardinality(tickets)
  BY <1>8, <1>9, FS_Injection
<1>11. (w + 1) * Limit = Limit * (w + 1)
  BY <1>3, <1>5
<1> QED
  BY <1>8, <1>10, <1>11 DEF PendingWithinLimit, w

(* However long logins through the provider are begun and left, the        *)
(* pending attempts are no more than the limit of a minute lets in during  *)
(* an attempt's life and a request's delay.                                *)
THEOREM PendingCorrect == Spec => []PendingWithinLimit
<1> QED
  BY LoginInit, LimitInit, PendingInit, ConsoleSessionStep, LoginStep, LimitStep, PendingStep,
     PendingBound, PTL DEF Spec
=============================================================================
