------------------------------ MODULE AlertFeed ------------------------------
(***************************************************************************)
(* A reader of list_alerts that follows the events from page to page, in   *)
(* ascending order, while handlers commit further events and the cleanup   *)
(* takes old ones.  Its position is the checkpoint of the last page, the   *)
(* (created_at, id) of an event, which may since have been deleted.        *)
(*                                                                         *)
(* created_at is the `now` a handler read before its transaction, and ids  *)
(* are random: the order of the feed is not the order of the commits.      *)
(***************************************************************************)
EXTENDS EventIntake

CONSTANT NewestFirst  \* how the ids of events received at once are ordered

ASSUME FeedAssumption == NewestFirst \in BOOLEAN

VARIABLES
    seen,       \* events the reader was given
    checkpoint  \* the event its checkpoint names, 0 for none

feedVars == <<seen, checkpoint>>

FeedInit == Init /\ seen = {} /\ checkpoint = 0

(* ORDER BY created_at, id.                                                *)
Before(i, j) ==
    \/ log[i].created < log[j].created
    \/ log[i].created = log[j].created /\ (IF NewestFirst THEN i > j ELSE i < j)

(* The rows after the cursor.                                              *)
Ahead == {i \in kept : checkpoint # 0 => Before(checkpoint, i)}

(* The rows of a page, of a limit the reader chooses.                      *)
IsPage(page) ==
    /\ page # {}
    /\ \A i \in page, j \in Ahead \ page : Before(i, j)

LastOf(rows) == CHOOSE i \in rows : \A j \in rows \ {i} : Before(j, i)

\* Mutant: the last of the limit + 1 rows that were fetched.
LastFetched(page) ==
    LastOf(page \cup {i \in Ahead \ page : \A j \in Ahead \ (page \cup {i}) : Before(i, j)})

LastReturned(page) == LastOf(page)

(* QueryAlerts: one statement.  A page without events leaves the           *)
(* checkpoint as it is, and is no step.                                    *)
QueryAlerts(page) ==
    /\ page \subseteq Ahead /\ IsPage(page)
    /\ seen' = seen \cup page
    /\ checkpoint' = LastReturned(page)
    /\ UNCHANGED vars

FeedNext ==
    \/ Next /\ UNCHANGED feedVars
    \/ \E page \in SUBSET kept : QueryAlerts(page)

FeedSpec == FeedInit /\ [][FeedNext]_<<vars, feedVars>>

-----------------------------------------------------------------------------
(* The checkpoint passes over an event only when the event was committed   *)
(* after one its handler had read the clock before, by no more than a      *)
(* request takes: the notice of the tool ("cursors do not guarantee        *)
(* delivery") has no other cause but the cleanup, and a reader who asks    *)
(* again from that much earlier misses nothing.                            *)
MissedOnlyIfOvertaken ==
    \A i \in kept \ seen : i \notin Ahead =>
        \E j \in seen : /\ j < i /\ Before(i, j)
                        /\ log[j].created - log[i].created <= MaxDelay
=============================================================================
