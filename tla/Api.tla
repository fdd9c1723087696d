--------------------------------- MODULE Api ----------------------------------
(***************************************************************************)
(* The running API on one database: requests through the worker pool,      *)
(* clients that read listings, badges that are revoked, and single badges  *)
(* that are looked up.  The tables may hold rows of earlier runs.          *)
(***************************************************************************)
EXTENDS History, Requests

CONSTANTS
    Earlier,     \* lengths the table of badges may have when the server starts
    Together     \* bound: how many requests and readers there are in one behaviour

ASSUME ApiAssumption == Earlier \subseteq Nat

vars == <<tables, reader, requestVars, jsVars>>

EarlierRows(n) == [i \in 1..n |-> [by |-> None, status |-> "active", at |-> i]]

Init ==
    /\ \E n \in Earlier : badges = EarlierRows(n)
    /\ logs = <<>>
    /\ \E present \in kSubset(Together, Jobs \cup Readers) :
         HistoryInit(present) /\ RequestsInit(present)
    /\ JSInit

\* RevokeBadge's update of the row (BadgeService has the rest of it).
RevokeBadge(i) ==
    /\ ~failed
    /\ badges[i].status = "active"
    /\ UpdateBadgeStatus(i, "revoked")
    /\ UNCHANGED <<reader, requestVars, jsVars>>

\* The query finds no row and reports no error: the handler reads a field of
\* nil, nothing recovers, and the process is gone.
GetMissingBadge ==
    /\ Fail
    /\ UNCHANGED <<tables, reader, requestVars>>

Next ==
    \/ \E q \in Jobs : (Handles(q) \/ Processes(q)) /\ UNCHANGED reader
    \/ Serve /\ UNCHANGED <<tables, reader, requestVars>>
    \/ \E r \in Readers : ~failed /\ Reads(r) /\ UNCHANGED <<requestVars, jsVars>>
    \/ \E i \in DOMAIN badges : RevokeBadge(i)
    \/ GetMissingBadge

Spec == Init /\ [][Next]_vars

===============================================================================
