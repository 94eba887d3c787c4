---------------------------- MODULE AdminConsole -----------------------------
(***************************************************************************)
(* Starts and logins together: administrators log in while a process       *)
(* serves, and its end takes the requests and attempts in its memory with  *)
(* it.                                                                     *)
(***************************************************************************)
EXTENDS AdminSessions, Bootstrap

vars == <<sessionVars, bootVars>>

Init == SessionsInit /\ BootInit

Serving == {p \in Processes : boot[p].at = "serving"}

(* ListenAndServe fails while another process listens on the address.      *)
Start(p) == Serving = {} /\ Serve(p) /\ UNCHANGED sessionVars

(* Bound: nobody logs in while a process starts, and once somebody tried   *)
(* none starts beside the one that serves.                                 *)
Quiet == \A p \in Processes : boot[p].at \in {"new", "serving", "ended"}

(* A process goes through its start, up to ListenAndServe, whether another *)
(* one serves or not.                                                      *)
BootStep(p) ==
    /\ \/ LookForAdmin(p) /\ (Serving # {} => DOMAIN windows = {})
       \/ ReadKey(p) \/ Link(p) \/ InitializeAdminCredential(p)
       \/ ReloadCredential(p)
       \/ \E k \in Keys : DrawKey(p, k)
    /\ UNCHANGED sessionVars

(* The end of the serving process is a crash for the logins.               *)
Stop(p) == End(p) /\ (IF p \in Serving THEN LoseMemory ELSE UNCHANGED sessionVars)

Administer == Serving # {} /\ Quiet /\ SessionsNext /\ UNCHANGED bootVars

Next ==
    \/ \E p \in Processes : BootStep(p) \/ Start(p) \/ Stop(p)
    \/ LoseKeyFile /\ UNCHANGED sessionVars
    \/ Administer

Spec == Init /\ [][Next]_vars

-----------------------------------------------------------------------------
TypeOK == SessionsTypeOK /\ BootTypeOK
=============================================================================
