------------------------------- MODULE Requests -------------------------------
(***************************************************************************)
(* The requests that go through the worker pool (handler/issue.go,         *)
(* handler/verify.go) with what WorkerPool leaves out: what a job carries, *)
(* what its processor (cmd/server/main.go) reads and writes, and clients   *)
(* that ask again.  The pool is the service that WorkerPool is shown to    *)
(* implement; a job whose place in line is beyond the channel's buffer is  *)
(* a Submit that has not returned.                                         *)
(*                                                                         *)
(* fasthttp hands the buffer of a request's body to another request once   *)
(* the handler has returned.  A payload that is a slice of it changes under *)
(* the job that is still in line.                                          *)
(***************************************************************************)
EXTENDS Repository, JobService

CONSTANTS
    Buffers,     \* body buffers
    Texts,       \* what bodies say: a credential, or the badge asked for
    QueueSize    \* capacity of the jobs channel

\* The shapes of a body: an issue request, a credential that is copied (wrapped
\* in credential_json, or uploaded) or bare, one for the synchronous endpoint,
\* and a body that is refused (no JSON, no file, missing fields, a badge_id).
Kinds == {"issue", "copied", "raw", "sync", "bad"}
Codes == {200, 201, 400, 500, 504}

ASSUME RequestsAssumption ==
    /\ None \notin Jobs \cup Buffers \cup Texts
    /\ None \notin Kinds
    /\ None \notin Codes

VARIABLES
    request,     \* request -> what it is and how far its handler is
    job          \* request -> what its payload says now, and what was read of it

requestVars == <<request, job>>

Torn == "torn"   \* a mixture of two bodies, no JSON

RequestsInit(present) ==
    /\ request = [q \in Jobs |-> [pc |-> IF q \in present THEN "idle" ELSE "absent", kind |-> None,
                                  text |-> None, buffer |-> None, code |-> None]]
    /\ job = [q \in Jobs |-> [begun |-> FALSE, says |-> None, read |-> None, ok |-> TRUE]]

\* Faulty variant: a credential is never copied.
UncopiedPayload(kind) == kind # "issue"

\* json.RawMessage and io.ReadAll copy, c.Body() does not.
PointsToBody(kind) == kind = "raw"

\* A client asks for a badge once, and again only when it was told that it did not get it.
MayAsk(text) ==
    \A q \in Jobs : request[q].kind = "issue" /\ request[q].text = text =>
        request[q].pc = "done" /\ request[q].code \in {500, 504}

-------------------------------------------------------------------------------
(* Handlers.                                                               *)

\* The body is written to a buffer that no handler holds; the payloads that
\* point to this buffer say the same from now on.
Arrive(q, kind, text, b, pc, code) ==
    /\ ~failed
    /\ request[q].pc = "idle"
    /\ \A x \in Jobs : request[x].buffer = b => request[x].pc = "done"
    /\ request' = [request EXCEPT ![q] = [pc |-> pc, kind |-> kind, text |-> text,
                                          buffer |-> b, code |-> code]]
    /\ job' = [x \in Jobs |-> IF x = q \/ request[x].buffer = b
                              THEN [job[x] EXCEPT !.says = text] ELSE job[x]]
    /\ UNCHANGED tables

\* Submit takes the job, or refuses it when the pool shuts down.
IssueBadge(q, text, b) ==
    /\ MayAsk(text)
    /\ Arrive(q, "issue", text, b, "waiting", None)
    /\ HandIn(q) \/ Refuse(q)

VerifyBadge(q, text, b) ==
    /\ \E kind \in {"copied", "raw"} : Arrive(q, kind, text, b, "waiting", None)
    /\ HandIn(q) \/ Refuse(q)

BadRequest(q, text, b) ==
    /\ Arrive(q, "bad", text, b, "done", 400)
    /\ UNCHANGED jsVars

VerifyBadgeSync(q, text, b) ==
    /\ Arrive(q, "sync", text, b, "sync", None)
    /\ UNCHANGED jsVars

\* Only a payload that is a slice of the body remembers the buffer.
Respond(q, code) ==
    request' = [request EXCEPT ![q] =
        [pc |-> "done", kind |-> @.kind, text |-> @.text,
         buffer |-> IF PointsToBody(@.kind) THEN @.buffer ELSE None, code |-> code]]

\* verifySynchronously: the log is best-effort, the handler holds the body throughout.
SyncAnswers(q) ==
    /\ ~failed
    /\ request[q].pc = "sync"
    /\ CreateVerificationLog(q, job[q].says) \/ UNCHANGED tables
    /\ Respond(q, 200)
    /\ UNCHANGED <<job, jsVars>>

PoolAnswers(q) ==
    /\ ~failed
    /\ request[q].pc = "waiting"
    /\ q \in answered \cup refused
    /\ Respond(q, IF q \in refused \/ ~job[q].ok THEN 500
                  ELSE IF request[q].kind = "issue" THEN 201 ELSE 200)
    /\ UNCHANGED <<tables, job, jsVars>>

\* The timer starts when Submit has returned.
Parked == {line[i] : i \in (QueueSize + 1)..Len(line)}

TimesOut(q) ==
    /\ ~failed
    /\ request[q].pc = "waiting"
    /\ q \notin Parked
    /\ Respond(q, 504)
    /\ UNCHANGED <<tables, job, jsVars>>

-------------------------------------------------------------------------------
(* Processors.                                                             *)

\* A read that races with the next request's body finds that body or a mixture.
Readable(q) ==
    IF job[q].says = request[q].text THEN {request[q].text} ELSE {job[q].says, Torn}

\* VerifyCredential parses the payload once; whatever it finds there is a
\* verdict.  An issue job fails if the database gives no sequence number or the
\* credential cannot be built.
Begin(q) ==
    /\ q \in serving
    /\ ~job[q].begun
    /\ \E text \in Readable(q), ok \in BOOLEAN :
         /\ ok \/ request[q].kind = "issue"
         /\ job' = [job EXCEPT ![q] = [begun |-> TRUE, says |-> @.says, read |-> text, ok |-> ok]]
         /\ IF ok THEN ~failed /\ UNCHANGED jsVars ELSE Answer(q)
    /\ UNCHANGED <<tables, request>>

\* saveBadgeToDB and saveVerificationLog are best-effort: a failure is only noted.
SaveRow(q) ==
    \/ request[q].kind = "issue" /\ CreateBadge(q)
    \/ request[q].kind # "issue" /\ CreateVerificationLog(q, job[q].read)
    \/ UNCHANGED tables

\* Faulty variant: an error after the row was written fails the job.
SaveOrFail(q) ==
    /\ job[q].begun
    /\ SaveRow(q)
    /\ Answer(q)
    /\ \E ok \in BOOLEAN : job' = [job EXCEPT ![q].ok = ok]
    /\ UNCHANGED request

Save(q) ==
    /\ job[q].begun
    /\ SaveRow(q)
    /\ Answer(q)
    /\ UNCHANGED requestVars

Handles(q) ==
    \/ \E text \in Texts, b \in Buffers :
         \/ IssueBadge(q, text, b)
         \/ VerifyBadge(q, text, b)
         \/ BadRequest(q, text, b)
         \/ VerifyBadgeSync(q, text, b)
    \/ SyncAnswers(q) \/ PoolAnswers(q) \/ TimesOut(q)

Processes(q) == Begin(q) \/ Save(q)

-------------------------------------------------------------------------------
\* An answer to a verification is about the body that was sent, and so is every
\* row of the log: the one way to a row about another request's body is a bare
\* credential whose handler had timed out, and returned its buffer, before the
\* job began.
VerdictIsOfOwnBody ==
    /\ \A q \in Jobs : request[q].code = 200 /\ request[q].kind # "sync" =>
          job[q].read = request[q].text
    /\ \A i \in DOMAIN logs : LET q == logs[i].by IN
          \/ logs[i].text = request[q].text
          \/ request[q].kind = "raw" /\ request[q].code = 504

\* Nothing ties a repeated issue request to the first.  Two badges for what a
\* client asked for once come about in one way only: it was answered 504 for a
\* job that was done all the same; an answer of 500 is about a job that saved nothing.
DuplicatesHaveCause ==
    \A i, j \in DOMAIN badges : LET p == badges[i].by
                                    q == badges[j].by IN
        i # j /\ p # None /\ q # None /\ request[p].text = request[q].text =>
            504 \in {request[p].code, request[q].code}

===============================================================================
