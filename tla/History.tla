------------------------------- MODULE History --------------------------------
(***************************************************************************)
(* The listings of handler/history.go and the clients that read them: a    *)
(* client asks for a page, and may go on with the next one until a page is *)
(* empty.  A listing counts the rows and then reads the page, in two       *)
(* statements without a transaction.  Rows are named by their position in  *)
(* the table, which never changes.  The filter on the recipient is left    *)
(* out: it picks the same rows whenever it is asked.                       *)
(***************************************************************************)
EXTENDS Repository, FiniteSets

CONSTANTS
    Readers,          \* clients that read listings
    AskedPages,       \* numbers given as page and per_page; 0 stands for
    AskedPerPages     \* one that is missing or that Atoi refuses

ASSUME HistoryAssumption == AskedPages \subseteq Int /\ AskedPerPages \subseteq Int

VARIABLE reader       \* client -> the listing it reads and what it has seen

Filters == {None, "active", "revoked", "unknown"}
TableOf(list) == IF list = "verifications" THEN logs ELSE badges

Idle == [pc |-> "idle", list |-> None, status |-> None, page |-> 1, perPage |-> 1,
         total |-> 0, items |-> <<>>, owed |-> {}, seen |-> {}]

HistoryInit(present) ==
    reader = [r \in Readers |-> IF r \in present THEN Idle ELSE [Idle EXCEPT !.pc = "absent"]]

-------------------------------------------------------------------------------
\* The count query of page p of a listing.  A walk that starts at the first
\* page is owed every row that is counted there.
Count(r, list, status, p, perPage) ==
    LET S == Matching(TableOf(list), status)
    IN  reader' = [reader EXCEPT ![r] =
            [@ EXCEPT !.pc = "counted", !.list = list, !.status = status,
                      !.page = p, !.perPage = perPage, !.total = Cardinality(S),
                      !.owed = IF p = 1 THEN S ELSE reader[r].owed]]

\* ListBadges checks the filter, IssueHistory does not, VerificationHistory has none.
ListBadges(r, status, page, perPage) ==
    IF status = "unknown"
    THEN reader' = [reader EXCEPT ![r] = [Idle EXCEPT !.pc = "rejected"]]
    ELSE Count(r, "badges", status, NormalPage(page), NormalPerPage(perPage))

IssueHistory(r, status, page, perPage) ==
    Count(r, "issues", status, NormalPage(page), NormalPerPage(perPage))

VerificationHistory(r, page, perPage) ==
    Count(r, "verifications", None, NormalPage(page), NormalPerPage(perPage))

FirstPage(r) ==
    /\ reader[r].pc = "idle"
    /\ \E page \in AskedPages, perPage \in AskedPerPages :
         \/ \E status \in Filters :
              ListBadges(r, status, page, perPage) \/ IssueHistory(r, status, page, perPage)
         \/ VerificationHistory(r, page, perPage)
    /\ UNCHANGED tables

NextPage(r) ==
    LET a == reader[r]
    IN  /\ a.pc = "served"
        /\ a.items # <<>>
        /\ a.page < MaxInt
        /\ \/ a.list = "badges" /\ ListBadges(r, a.status, a.page + 1, a.perPage)
           \/ a.list = "issues" /\ IssueHistory(r, a.status, a.page + 1, a.perPage)
           \/ a.list = "verifications" /\ VerificationHistory(r, a.page + 1, a.perPage)
        /\ UNCHANGED tables

\* The data query.
ReadPage(r) ==
    LET a == reader[r]
    IN  /\ a.pc = "counted"
        /\ Offset(a.page, a.perPage) >= 0
        /\ \E p \in Pages(TableOf(a.list), a.status, a.page, a.perPage) :
             reader' = [reader EXCEPT ![r] =
                 [@ EXCEPT !.pc = "served", !.items = p, !.seen = a.seen \cup ToSet(p)]]
        /\ UNCHANGED tables

\* PostgreSQL refuses a negative OFFSET.
NegativeOffset(r) ==
    /\ reader[r].pc = "counted"
    /\ Offset(reader[r].page, reader[r].perPage) < 0
    /\ reader' = [reader EXCEPT ![r] = [Idle EXCEPT !.pc = "failed"]]
    /\ UNCHANGED tables

\* Either statement may fail; the answer is 500 and the walk is given up.
QueryFails(r) ==
    /\ reader[r].pc \in {"idle", "counted", "served"}
    /\ reader[r].pc = "served" => reader[r].items # <<>>
    /\ reader' = [reader EXCEPT ![r] = [Idle EXCEPT !.pc = "failed"]]
    /\ UNCHANGED tables

Reads(r) == FirstPage(r) \/ NextPage(r) \/ ReadPage(r) \/ NegativeOffset(r) \/ QueryFails(r)

-------------------------------------------------------------------------------
\* What page and per_page ask for, computed without overflow.
Before(a) == (a.page - 1) * a.perPage

\* The total and the items of an answer come from two statements, yet without
\* a filter the page holds at least the rows that the total announces for it,
\* whatever was committed in between; and a page behind the last row is empty
\* ("Normalize clamps page/per_page to safe bounds", model/badge.go:177) unless
\* the product that Offset computes overflows.
PageKeepsPromise ==
    \A r \in Readers :
        LET a == reader[r]
        IN  a.pc = "served" =>
              /\ a.status = None /\ a.total > Before(a) =>
                   \/ Len(a.items) = a.perPage
                   \/ Len(a.items) >= a.total - Before(a)
              /\ a.items # <<>> =>
                   Before(a) < Len(TableOf(a.list)) \/ Before(a) > MaxInt

TiedInstants(table) == \E i, j \in DOMAIN table : i # j /\ table[i].at = table[j].at

\* A client that walks a listing from the first page to the first empty one
\* has seen every row that matched when it began, although rows are added on
\* top of the pages it has not read yet.  It misses one only when rows share
\* an instant, in which case two queries may order them differently, or when
\* it lists active badges and badges are revoked on the way.
WalkSkipsHaveCause ==
    \A r \in Readers :
        LET a == reader[r]
        IN  a.pc = "served" /\ a.items = <<>> =>
              \/ a.owed \subseteq a.seen
              \/ TiedInstants(TableOf(a.list))
              \/ a.status = "active" /\ \E i \in DOMAIN badges : badges[i].status = "revoked"

===============================================================================
