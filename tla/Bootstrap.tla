------------------------------ MODULE Bootstrap ------------------------------
(***************************************************************************)
(* The start of a process: the master key in a file, the administrator in  *)
(* the database, and no transaction over both.                             *)
(*                                                                         *)
(* Any number of processes may start on the same directory, and die at any *)
(* step.  What a process encrypts can be read with its key only.           *)
(***************************************************************************)
EXTENDS FiniteSets

CONSTANTS
    Processes,  \* each start is a process of its own
    Keys,       \* keys, drawn at random
    NoKey,
    Nobody      \* no credential

ASSUME BootAssumption == NoKey \notin Keys /\ Nobody \notin Processes

VARIABLES
    keyFile,     \* what the key file holds
    credential,  \* the process that wrote the row of admin_credentials
    boot,        \* where each process is, with the key and credential it holds
    drawn,       \* history: keys ever drawn
    sealed       \* history: keys that data in the database may be encrypted with

bootVars == <<keyFile, credential, boot, drawn, sealed>>

BootStages == {"new", "key", "link", "password", "reload", "ready", "serving", "ended"}
Booting    == [at : BootStages, admin : BOOLEAN, key : Keys \cup {NoKey},
               credential : Processes \cup {Nobody}]

BootInit ==
    /\ keyFile = NoKey /\ credential = Nobody
    /\ boot = [p \in Processes |->
                 [at |-> "new", admin |-> FALSE, key |-> NoKey, credential |-> Nobody]]
    /\ drawn = {} /\ sealed = {}

BootTo(p, stage) == boot' = [boot EXCEPT ![p].at = stage]

(* Whether there is an administrator is read first, and not again.         *)
LookForAdmin(p) ==
    /\ boot[p].at = "new"
    /\ boot' = [boot EXCEPT ![p].at = "key", ![p].admin = (credential # Nobody)]
    /\ UNCHANGED <<keyFile, credential, drawn, sealed>>

AfterKey(p) == IF boot[p].admin THEN "reload" ELSE "password"

(* The file is there.                                                      *)
ReadKey(p) ==
    /\ boot[p].at = "key" /\ keyFile # NoKey
    /\ boot' = [boot EXCEPT ![p].at = AfterKey(p), ![p].key = keyFile]
    /\ UNCHANGED <<keyFile, credential, drawn, sealed>>

(* The file is not there: a key goes to a temporary file, which readers    *)
(* never see, unless the database is in use already.                       *)
DrawKey(p, k) ==
    /\ boot[p].at = "key" /\ keyFile = NoKey /\ k \notin drawn
    /\ IF ~boot[p].admin
       THEN boot' = [boot EXCEPT ![p].at = "link", ![p].key = k] /\ drawn' = drawn \cup {k}
       ELSE BootTo(p, "ended") /\ UNCHANGED drawn
    /\ UNCHANGED <<keyFile, credential, sealed>>

\* Mutant: a rename, which replaces what is there.
Replace(p) == boot[p].key

\* The key file after os.Link, which fails when there is one.
Linked(p) == IF keyFile = NoKey THEN boot[p].key ELSE keyFile

(* Whoever links second reads the key of the first.                        *)
Link(p) ==
    /\ boot[p].at = "link"
    /\ keyFile' = Linked(p)
    /\ boot' = [boot EXCEPT ![p].at = "password", ![p].key = keyFile']
    /\ UNCHANGED <<credential, drawn, sealed>>

\* INSERT OR IGNORE.
FirstRow(p) == IF credential = Nobody THEN p ELSE credential

(* The password file is good, its hash becomes the credential.             *)
InitializeAdminCredential(p) ==
    /\ boot[p].at = "password"
    /\ credential' = FirstRow(p)
    /\ BootTo(p, "reload")
    /\ UNCHANGED <<keyFile, drawn, sealed>>

(* The credential is what the database says, whoever wrote it.             *)
ReloadCredential(p) ==
    /\ boot[p].at = "reload"
    /\ boot' = [boot EXCEPT ![p].at = "ready", ![p].credential = credential]
    /\ UNCHANGED <<keyFile, credential, drawn, sealed>>

(* runtimecfg.New decrypts the tables; then the process serves, and may    *)
(* encrypt whatever administrators store.                                  *)
Serve(p) ==
    /\ boot[p].at = "ready" /\ sealed \subseteq {boot[p].key}
    /\ BootTo(p, "serving")
    /\ sealed' = sealed \cup {boot[p].key}
    /\ UNCHANGED <<keyFile, credential, drawn>>

(* A step fails and main exits, or the process is stopped, or dies.        *)
End(p) ==
    /\ boot[p].at \notin {"new", "ended"}
    /\ BootTo(p, "ended")
    /\ UNCHANGED <<keyFile, credential, drawn, sealed>>

(* The volume with the key file is lost while nothing runs.                *)
LoseKeyFile ==
    /\ keyFile # NoKey
    /\ \A p \in Processes : boot[p].at \in {"new", "ended"}
    /\ keyFile' = NoKey
    /\ UNCHANGED <<credential, boot, drawn, sealed>>

BootNext ==
    \/ \E p \in Processes :
          \/ LookForAdmin(p) \/ ReadKey(p) \/ Link(p) \/ InitializeAdminCredential(p)
          \/ ReloadCredential(p) \/ Serve(p) \/ End(p)
          \/ \E k \in Keys : DrawKey(p, k)
    \/ LoseKeyFile

BootSpec == BootInit /\ [][BootNext]_bootVars

-----------------------------------------------------------------------------
BootTypeOK ==
    /\ keyFile \in Keys \cup {NoKey} /\ credential \in Processes \cup {Nobody}
    /\ boot \in [Processes -> Booting] /\ drawn \subseteq Keys /\ sealed \subseteq Keys

(* Processes that start at once, or after one died half way, agree on one  *)
(* key and one administrator: whatever was ever encrypted can be read by   *)
(* whoever comes as far as reading it, and all check the same password.    *)
(* The file never gets another key than the one that opens the data.       *)
StartsAgree ==
    /\ keyFile # NoKey => sealed \subseteq {keyFile}
    /\ \A p \in Processes : boot[p].at \in {"ready", "serving"} =>
          /\ sealed \subseteq {boot[p].key}
          /\ boot[p].credential = credential
=============================================================================
