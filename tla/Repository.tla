------------------------------ MODULE Repository ------------------------------
(***************************************************************************)
(* The tables badges and verification_logs behind                          *)
(* repository/badge_repo.go, and the page of a table that a listing asks   *)
(* for (model/badge.go).  A table is the sequence of its rows in the order *)
(* of commit.  Each statement is atomic; a request that makes two of them  *)
(* is two actions.                                                         *)
(***************************************************************************)
EXTENDS Integers, Sequences, SequencesExt

CONSTANTS
    DefaultPerPage, MaxPerPage,
    MaxInt,      \* the largest int of Go and bigint of PostgreSQL
    None         \* no filter, no request

ASSUME RepositoryAssumption ==
    /\ MaxInt \in Nat
    /\ MaxPerPage \in 1..MaxInt
    /\ DefaultPerPage \in 1..MaxPerPage

VARIABLES
    badges,      \* rows [by, status, at] of badges
    logs         \* rows [by, text, at] of verification_logs

tables == <<badges, logs>>

Statuses == {"active", "revoked"}

-------------------------------------------------------------------------------
(* Writes.  at is the row's issued_at or verified_at: now() of its own      *)
(* transaction, which may be that of another row, or a little earlier than *)
(* that of a row committed before.                                         *)

LastAt(table) == IF table = <<>> THEN 1 ELSE table[Len(table)].at
Now(table) == {t \in {LastAt(table) - 1, LastAt(table), LastAt(table) + 1} : t > 0}

CreateBadge(by) ==
    /\ \E t \in Now(badges) : badges' = Append(badges, [by |-> by, status |-> "active", at |-> t])
    /\ logs' = logs

CreateVerificationLog(by, text) ==
    /\ \E t \in Now(logs) : logs' = Append(logs, [by |-> by, text |-> text, at |-> t])
    /\ badges' = badges

UpdateBadgeStatus(i, status) ==
    /\ badges' = [badges EXCEPT ![i].status = status]
    /\ logs' = logs

-------------------------------------------------------------------------------
(* Pages.                                                                  *)

\* Products are taken modulo twice MaxInt + 1, a power of two.
Wrap(n) == ((n + MaxInt + 1) % (2 * (MaxInt + 1))) - (MaxInt + 1)

\* Normalize: only the page size has an upper bound.
NormalPage(page) == IF page < 1 THEN 1 ELSE page
NormalPerPage(perPage) ==
    IF perPage < 1 THEN DefaultPerPage ELSE IF perPage > MaxPerPage THEN MaxPerPage ELSE perPage

\* Faulty variant: pages counted from zero.
OffsetFromZero(page, perPage) == Wrap(page * perPage)

Offset(page, perPage) == Wrap((page - 1) * perPage)

\* The rows of a table that a filter on the status lets through.  Rows of
\* verification_logs have none.
Matching(table, status) ==
    {i \in DOMAIN table : status = None \/ table[i].status = status}

\* Faulty variant: a query without ORDER BY.
AnyOrder(table, S) == SetToSeqs(S)

\* ORDER BY ... DESC leaves open how rows of the same instant are ordered.
Orders(table, S) ==
    {o \in SetToSeqs(S) : \A i, j \in DOMAIN o : i < j => table[o[i]].at >= table[o[j]].at}

\* The data query: LIMIT perPage OFFSET (page - 1) * perPage.
Pages(table, status, page, perPage) ==
    LET off == Offset(page, perPage)
    IN  {SubSeq(o, off + 1, Min({off + perPage, Len(o)})) :
            o \in Orders(table, Matching(table, status))}

===============================================================================
