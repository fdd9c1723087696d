------------------------------- MODULE ApiProofs -------------------------------
(***************************************************************************)
(* The safety of the requests that go through the pool, for any requests,  *)
(* body buffers and readers: which body a verdict and a row of the log are *)
(* about, and when a badge that was asked for once exists twice.  Then the *)
(* listings, for any sizes of pages and of integers: what a page holds,    *)
(* and which rows a walk can miss.                                         *)
(***************************************************************************)
EXTENDS Api, SequenceFacts, SequenceTheorems

InService == Range(line) \cup serving \cup answered \cup refused

\* A job is in one place of the service.
ServiceKeeps ==
    /\ line \in Seq(Jobs) /\ serving \subseteq Jobs /\ answered \subseteq Jobs /\ refused \subseteq Jobs
    /\ IsInjective(line)
    /\ Range(line) \cap (serving \cup answered \cup refused) = {}
    /\ serving \cap (answered \cup refused) = {}
    /\ answered \cap refused = {}

RequestRecords ==
    [pc : {"absent", "idle", "waiting", "sync", "done"}, kind : Kinds \cup {None},
     text : Texts \cup {None}, buffer : Buffers \cup {None}, code : Codes \cup {None}]
JobRecords ==
    [begun : BOOLEAN, says : Texts \cup {None}, read : Texts \cup {None, Torn}, ok : BOOLEAN]
BadgeRows == [by : Jobs \cup {None}, status : Statuses, at : Nat]
LogRows == [by : Jobs, text : Texts \cup {None, Torn}, at : Nat]

Typed ==
    /\ request \in [Jobs -> RequestRecords]
    /\ job \in [Jobs -> JobRecords]
    /\ badges \in Seq(BadgeRows)
    /\ logs \in Seq(LogRows)

\* What is in service was handed in by a handler, which answers 504 or after it is settled.
HandedIn ==
    \A q \in Jobs :
        /\ q \in InService => request[q].pc \in {"waiting", "done"} /\ request[q].kind \in {"issue", "copied", "raw"}
        /\ request[q].pc = "done" /\ request[q].kind \in {"issue", "copied", "raw"} =>
              request[q].code = 504 \/ q \in answered \cup refused
        /\ request[q].pc = "sync" => request[q].kind = "sync"
        /\ request[q].code # None => request[q].pc = "done"
        /\ request[q].kind # None => request[q].pc \in {"waiting", "sync", "done"}
        /\ request[q].code = 500 => q \in refused \/ ~job[q].ok

\* Only a bare credential, or a body nobody reads, shares its buffer with a later request.
PayloadsAreOwn ==
    \A q \in Jobs :
        /\ request[q].pc = "done" /\ request[q].kind \notin {"raw", "bad"} => request[q].buffer = None
        /\ (request[q].pc = "done" /\ request[q].kind \in {"raw", "bad"}) \/ job[q].says = request[q].text

Late(q) == request[q].kind = "raw" /\ request[q].code = 504

\* What a job has read is its own body, or it is late.
ReadsAreOwn ==
    \A q \in Jobs :
        /\ job[q].begun => q \in serving \cup answered
        /\ q \in answered => job[q].begun
        /\ job[q].begun => job[q].read = request[q].text \/ Late(q)
        /\ ~job[q].ok => q \in answered

LogsAreOwn ==
    \A i \in 1..Len(logs) :
        /\ request[logs[i].by].kind # None
        /\ logs[i].text = request[logs[i].by].text \/ Late(logs[i].by)

\* A request has one badge at most, and then it was answered with success.
BadgesAreOwn ==
    /\ \A i \in 1..Len(badges) : badges[i].by # None =>
          /\ badges[i].by \in answered
          /\ request[badges[i].by].kind = "issue"
          /\ job[badges[i].by].ok
    /\ \A i, k \in 1..Len(badges) : i # k /\ badges[i].by # None => badges[i].by # badges[k].by

Told(q) == request[q].pc = "done" /\ request[q].code \in {500, 504}

\* Of two requests for the same badge the first had been refused or timed out.
AskedAgain ==
    \A p, q \in Jobs :
        p # q /\ request[p].kind = "issue" /\ request[q].kind = "issue" /\ request[p].text = request[q].text =>
            Told(p) \/ Told(q)

VerdictsAreOwn ==
    \A q \in Jobs : request[q].code = 200 /\ request[q].kind # "sync" => job[q].read = request[q].text

IInv ==
    /\ ServiceKeeps
    /\ Typed
    /\ HandedIn
    /\ PayloadsAreOwn
    /\ ReadsAreOwn
    /\ LogsAreOwn
    /\ BadgesAreOwn
    /\ AskedAgain
    /\ VerdictsAreOwn

-------------------------------------------------------------------------------
(* The tables.                                                             *)

LEMMA WaitingIsRange ==
  ASSUME line \in Seq(Jobs)
  PROVE  Waiting = Range(line)
BY SequenceRange DEF Waiting

\* Rows that are added leave the others where they are.
LEMMA LogAdded ==
  ASSUME Typed, NEW q \in Jobs, NEW text \in Texts \cup {None, Torn}, CreateVerificationLog(q, text)
  PROVE  /\ logs' \in Seq(LogRows) /\ Len(logs') = Len(logs) + 1 /\ badges' = badges
         /\ logs'[Len(logs) + 1].by = q /\ logs'[Len(logs) + 1].text = text
         /\ \A i \in 1..Len(logs) : logs'[i] = logs[i]
<1>1. logs \in Seq(LogRows) /\ Len(logs) \in Nat
  BY DEF Typed
<1>2. LastAt(logs) \in Nat
  <2>1. CASE logs = <<>>
    BY <2>1 DEF LastAt
  <2>2. CASE logs # <<>>
    <3>1. logs[Len(logs)] \in LogRows
      BY <1>1, <2>2
    <3> QED BY <2>2, <3>1 DEF LastAt, LogRows
  <2> QED BY <2>1, <2>2
<1>3. PICK t \in Now(logs) : logs' = Append(logs, [by |-> q, text |-> text, at |-> t])
  BY DEF CreateVerificationLog
<1>4. t \in Nat
  BY <1>2 DEF Now
<1>5. [by |-> q, text |-> text, at |-> t] \in LogRows
  BY <1>4 DEF LogRows
<1> QED BY <1>1, <1>3, <1>5 DEF CreateVerificationLog

LEMMA BadgeAdded ==
  ASSUME Typed, NEW q \in Jobs, CreateBadge(q)
  PROVE  /\ badges' \in Seq(BadgeRows) /\ Len(badges') = Len(badges) + 1 /\ logs' = logs
         /\ badges'[Len(badges) + 1].by = q
         /\ \A i \in 1..Len(badges) : badges'[i] = badges[i]
<1>1. badges \in Seq(BadgeRows) /\ Len(badges) \in Nat
  BY DEF Typed
<1>2. LastAt(badges) \in Nat
  <2>1. CASE badges = <<>>
    BY <2>1 DEF LastAt
  <2>2. CASE badges # <<>>
    <3>1. badges[Len(badges)] \in BadgeRows
      BY <1>1, <2>2
    <3> QED BY <2>2, <3>1 DEF LastAt, BadgeRows
  <2> QED BY <2>1, <2>2
<1>3. PICK t \in Now(badges) : badges' = Append(badges, [by |-> q, status |-> "active", at |-> t])
  BY DEF CreateBadge
<1>4. t \in Nat
  BY <1>2 DEF Now
<1>5. [by |-> q, status |-> "active", at |-> t] \in BadgeRows
  BY <1>4 DEF BadgeRows, Statuses
<1> QED BY <1>1, <1>3, <1>5 DEF CreateBadge

-------------------------------------------------------------------------------
(* The service.                                                            *)

LEMMA HandInKeeps ==
  ASSUME ServiceKeeps, NEW q \in Jobs, HandIn(q)
  PROVE  /\ ServiceKeeps' /\ InService' = InService \cup {q} /\ q \notin InService
         /\ UNCHANGED <<serving, answered, refused>>
<1>1. /\ line \in Seq(Jobs) /\ Waiting = Range(line) /\ line' = Append(line, q)
      /\ UNCHANGED <<serving, answered, refused>>
  BY WaitingIsRange DEF ServiceKeeps, HandIn
<1>2. q \notin InService
  BY <1>1 DEF HandIn, InService
<1>3. Range(line') = Range(line) \cup {q}
  BY <1>1, RangeAppend
<1>4. IsInjective(line')
  BY <1>1, <1>2, InjectiveAppend DEF ServiceKeeps, InService
<1>5. line' \in Seq(Jobs)
  BY <1>1
<1> QED BY <1>1, <1>2, <1>3, <1>4, <1>5 DEF ServiceKeeps, InService

LEMMA RefuseKeeps ==
  ASSUME ServiceKeeps, NEW q \in Jobs, Refuse(q)
  PROVE  /\ ServiceKeeps' /\ InService' = InService \cup {q} /\ q \notin InService
         /\ UNCHANGED <<serving, answered>> /\ refused' = refused \cup {q}
<1>1. Waiting = Range(line) /\ refused' = refused \cup {q} /\ UNCHANGED <<line, serving, answered>>
  BY WaitingIsRange DEF ServiceKeeps, Refuse
<1>2. q \notin InService
  BY <1>1 DEF Refuse, InService
<1> QED BY <1>1, <1>2 DEF ServiceKeeps, InService

LEMMA ServeKeeps ==
  ASSUME ServiceKeeps, Serve
  PROVE  /\ ServiceKeeps' /\ InService' = InService /\ serving \subseteq serving'
         /\ UNCHANGED <<answered, refused>>
<1>1. /\ line \in Seq(Jobs) /\ line # <<>> /\ line' = Tail(line) /\ serving' = serving \cup {Head(line)}
      /\ UNCHANGED <<answered, refused>>
  BY DEF ServiceKeeps, Serve
<1>2. Range(line) = {Head(line)} \cup Range(line')
  BY <1>1, RangeTail
<1>3. IsInjective(line') /\ Head(line) \notin Range(line')
  BY <1>1, InjectiveTail DEF ServiceKeeps
<1>4. line' \in Seq(Jobs) /\ Head(line) \in Jobs
  BY <1>1
<1> QED BY <1>1, <1>2, <1>3, <1>4 DEF ServiceKeeps, InService

LEMMA AnswerKeeps ==
  ASSUME ServiceKeeps, NEW q \in Jobs, Answer(q)
  PROVE  /\ ServiceKeeps' /\ InService' = InService
         /\ q \in serving /\ serving' = serving \ {q} /\ answered' = answered \cup {q} /\ refused' = refused
<1>1. q \in serving /\ serving' = serving \ {q} /\ answered' = answered \cup {q} /\ UNCHANGED <<line, refused>>
  BY DEF Answer
<1> QED BY <1>1 DEF ServiceKeeps, InService

-------------------------------------------------------------------------------
(* Handlers.                                                               *)

\* What the arrival of a body changes: the request's own records, and the
\* payloads that still point to the buffer it was written to.
LEMMA ArriveShape ==
  ASSUME Typed, PayloadsAreOwn, NEW q \in Jobs, NEW kind \in Kinds, NEW text \in Texts, NEW b \in Buffers,
         NEW pc \in {"waiting", "sync", "done"}, NEW code \in Codes \cup {None},
         Arrive(q, kind, text, b, pc, code)
  PROVE  /\ request[q].pc = "idle" /\ UNCHANGED tables
         /\ request' \in [Jobs -> RequestRecords] /\ job' \in [Jobs -> JobRecords]
         /\ request'[q].pc = pc /\ request'[q].kind = kind /\ request'[q].text = text
         /\ request'[q].buffer = b /\ request'[q].code = code
         /\ \A x \in Jobs \ {q} : request'[x] = request[x]
         /\ \A x \in Jobs : /\ job'[x].begun = job[x].begun /\ job'[x].read = job[x].read
                            /\ job'[x].ok = job[x].ok
         /\ job'[q].says = text
         /\ \A x \in Jobs \ {q} : \/ job'[x].says = job[x].says
                                  \/ request[x].pc = "done" /\ request[x].kind \in {"raw", "bad"}
<1> DEFINE r == [pc |-> pc, kind |-> kind, text |-> text, buffer |-> b, code |-> code]
<1>1. r \in RequestRecords
  BY DEF RequestRecords
<1>2. request' = [request EXCEPT ![q] = r] /\ request[q].pc = "idle" /\ UNCHANGED tables
  BY DEF Arrive
<1>3. request \in [Jobs -> RequestRecords] /\ job \in [Jobs -> JobRecords]
  BY DEF Typed
<1>4. /\ request' \in [Jobs -> RequestRecords] /\ request'[q] = r
      /\ \A x \in Jobs \ {q} : request'[x] = request[x]
  BY <1>1, <1>2, <1>3
<1>5. ASSUME NEW x \in Jobs
      PROVE  /\ [job[x] EXCEPT !.says = text] \in JobRecords
             /\ [job[x] EXCEPT !.says = text].begun = job[x].begun
             /\ [job[x] EXCEPT !.says = text].read = job[x].read
             /\ [job[x] EXCEPT !.says = text].ok = job[x].ok
             /\ [job[x] EXCEPT !.says = text].says = text
  <2>1. job[x] \in JobRecords
    BY <1>3
  <2> QED BY <2>1 DEF JobRecords
<1>6. job' = [x \in Jobs |-> IF x = q \/ request[x].buffer = b THEN [job[x] EXCEPT !.says = text] ELSE job[x]]
  BY DEF Arrive
<1>7. ASSUME NEW x \in Jobs
      PROVE  /\ job'[x] \in JobRecords
             /\ job'[x].begun = job[x].begun /\ job'[x].read = job[x].read /\ job'[x].ok = job[x].ok
             /\ x = q => job'[x].says = text
             /\ x # q /\ request[x].buffer # b => job'[x] = job[x]
  <2>1. CASE x = q \/ request[x].buffer = b
    <3>1. job'[x] = [job[x] EXCEPT !.says = text]
      BY <1>6, <2>1
    <3> QED BY <1>5, <2>1, <3>1
  <2>2. CASE ~(x = q \/ request[x].buffer = b)
    <3>1. job'[x] = job[x] /\ job[x] \in JobRecords
      BY <1>3, <1>6, <2>2
    <3> QED BY <2>2, <3>1
  <2> QED BY <2>1, <2>2
<1>8. job' \in [Jobs -> JobRecords]
  BY <1>6, <1>7
<1>9. ASSUME NEW x \in Jobs, request[x].buffer = b
      PROVE  request[x].pc = "done" /\ request[x].kind \in {"raw", "bad"}
  <2>1. request[x].pc = "done"
    BY <1>9 DEF Arrive
  <2>2. b # None
    BY RequestsAssumption
  <2> QED BY <1>9, <2>1, <2>2 DEF PayloadsAreOwn
<1> HIDE DEF r
<1>10. ASSUME NEW x \in Jobs \ {q}
       PROVE  \/ job'[x].says = job[x].says
              \/ request[x].pc = "done" /\ request[x].kind \in {"raw", "bad"}
  BY <1>7, <1>9
<1> QED BY <1>2, <1>4, <1>7, <1>8, <1>10 DEF r

\* A request arrives; its job is handed in, refused, or there is none.
LEMMA ArriveStep ==
  ASSUME IInv, NEW q \in Jobs, NEW kind \in Kinds, NEW text \in Texts, NEW b \in Buffers,
         NEW pc \in {"waiting", "sync", "done"}, NEW code \in Codes \cup {None},
         Arrive(q, kind, text, b, pc, code),
         ServiceKeeps', InService' \subseteq InService \cup {q}, UNCHANGED <<serving, answered>>,
         refused \subseteq refused',
         q \in InService' => pc = "waiting" /\ kind \in {"issue", "copied", "raw"},
         kind = "issue" => MayAsk(text),
         pc = "sync" => kind = "sync",
         IF pc = "done" THEN kind = "bad" /\ code = 400 ELSE code = None
  PROVE  IInv'
<1>0. None \notin Kinds /\ None \notin Codes /\ kind # None
  BY RequestsAssumption
<1>1. /\ request[q].pc = "idle" /\ UNCHANGED <<badges, logs>>
      /\ request' \in [Jobs -> RequestRecords] /\ job' \in [Jobs -> JobRecords]
      /\ request'[q].pc = pc /\ request'[q].kind = kind /\ request'[q].text = text
      /\ request'[q].buffer = b /\ request'[q].code = code
      /\ \A x \in Jobs \ {q} : request'[x] = request[x]
      /\ \A x \in Jobs : /\ job'[x].begun = job[x].begun /\ job'[x].read = job[x].read
                         /\ job'[x].ok = job[x].ok
      /\ job'[q].says = text
      /\ \A x \in Jobs \ {q} : \/ job'[x].says = job[x].says
                               \/ request[x].pc = "done" /\ request[x].kind \in {"raw", "bad"}
  BY ArriveShape DEF IInv, tables
<1>2. q \notin InService /\ request[q].kind = None
  <2>1. q \notin InService
    BY <1>1 DEF IInv, HandedIn
  <2> QED BY <1>1, <2>1 DEF IInv, HandedIn
<1>3. ~job[q].begun /\ job[q].ok
  BY <1>2 DEF IInv, ReadsAreOwn, InService
<1>4. Typed'
  BY <1>1 DEF IInv, Typed
<1>5. code # 500 /\ code # 200 /\ code # 504
  BY <1>0 DEF Codes
<1>6. HandedIn'
  <2> SUFFICES ASSUME NEW x \in Jobs
               PROVE  /\ x \in InService' =>
                            request'[x].pc \in {"waiting", "done"} /\ request'[x].kind \in {"issue", "copied", "raw"}
                      /\ request'[x].pc = "done" /\ request'[x].kind \in {"issue", "copied", "raw"} =>
                            request'[x].code = 504 \/ x \in answered' \cup refused'
                      /\ request'[x].pc = "sync" => request'[x].kind = "sync"
                      /\ request'[x].code # None => request'[x].pc = "done"
                      /\ request'[x].kind # None => request'[x].pc \in {"waiting", "sync", "done"}
                      /\ request'[x].code = 500 => x \in refused' \/ ~job'[x].ok
    BY DEF HandedIn
  <2>1. CASE x = q
    BY <1>1, <1>5, <2>1
  <2>2. CASE x # q
    <3>1. request'[x] = request[x] /\ job'[x].ok = job[x].ok /\ (x \in InService' => x \in InService)
      BY <1>1, <2>2
    <3> QED BY <3>1 DEF IInv, HandedIn
  <2> QED BY <2>1, <2>2
<1>7. PayloadsAreOwn'
  <2> SUFFICES ASSUME NEW x \in Jobs
               PROVE  /\ request'[x].pc = "done" /\ request'[x].kind \notin {"raw", "bad"} => request'[x].buffer = None
                      /\ (request'[x].pc = "done" /\ request'[x].kind \in {"raw", "bad"}) \/ job'[x].says = request'[x].text
    BY DEF PayloadsAreOwn
  <2>1. CASE x = q
    BY <1>1, <2>1
  <2>2. CASE x # q
    BY <1>1, <2>2 DEF IInv, PayloadsAreOwn
  <2> QED BY <2>1, <2>2
<1>8. ReadsAreOwn'
  <2> SUFFICES ASSUME NEW x \in Jobs
               PROVE  /\ job'[x].begun => x \in serving \cup answered
                      /\ x \in answered => job'[x].begun
                      /\ job'[x].begun => job'[x].read = request'[x].text \/ Late(x)'
                      /\ ~job'[x].ok => x \in answered
    BY DEF ReadsAreOwn
  <2>1. CASE x = q
    BY <1>1, <1>2, <1>3, <2>1 DEF InService
  <2>2. CASE x # q
    BY <1>1, <2>2 DEF IInv, ReadsAreOwn, Late
  <2> QED BY <2>1, <2>2
<1>9. LogsAreOwn'
  <2> SUFFICES ASSUME NEW i \in 1..Len(logs)
               PROVE  /\ request'[logs[i].by].kind # None
                      /\ logs[i].text = request'[logs[i].by].text \/ Late(logs[i].by)'
    BY <1>1 DEF LogsAreOwn, Late
  <2>1. logs[i] \in LogRows
    BY DEF IInv, Typed
  <2>2. logs[i].by \in Jobs \ {q}
    BY <1>2, <2>1 DEF IInv, LogsAreOwn, LogRows
  <2> QED BY <1>1, <2>2 DEF IInv, LogsAreOwn, Late
<1>10. BadgesAreOwn'
  <2>1. ASSUME NEW i \in 1..Len(badges), badges[i].by # None
        PROVE  /\ badges[i].by \in answered
               /\ request'[badges[i].by].kind = "issue"
               /\ job'[badges[i].by].ok
    <3>1. badges[i].by \in answered /\ request[badges[i].by].kind = "issue" /\ job[badges[i].by].ok
      BY <2>1 DEF IInv, BadgesAreOwn
    <3>2. badges[i].by \in Jobs \ {q}
      BY <1>2, <3>1 DEF IInv, ServiceKeeps, InService
    <3> QED BY <1>1, <3>1, <3>2
  <2> QED BY <1>1, <2>1 DEF IInv, BadgesAreOwn
<1>11. AskedAgain'
  <2> SUFFICES ASSUME NEW x \in Jobs, NEW y \in Jobs, x # y, request'[x].kind = "issue",
                      request'[y].kind = "issue", request'[x].text = request'[y].text
               PROVE  Told(x)' \/ Told(y)'
    BY DEF AskedAgain
  <2>1. CASE x # q /\ y # q
    BY <1>1, <2>1 DEF IInv, AskedAgain, Told
  <2>2. CASE x = q
    <3>1. request'[y] = request[y] /\ kind = "issue" /\ request[y].text = text /\ request[y].kind = "issue"
      BY <1>1, <2>2
    <3> QED BY <3>1 DEF MayAsk, Told
  <2>3. CASE y = q
    <3>1. request'[x] = request[x] /\ kind = "issue" /\ request[x].text = text /\ request[x].kind = "issue"
      BY <1>1, <2>3
    <3> QED BY <3>1 DEF MayAsk, Told
  <2> QED BY <2>1, <2>2, <2>3
<1>12. VerdictsAreOwn'
  <2> SUFFICES ASSUME NEW x \in Jobs, request'[x].code = 200, request'[x].kind # "sync"
               PROVE  job'[x].read = request'[x].text
    BY DEF VerdictsAreOwn
  <2>1. x # q
    BY <1>1, <1>5
  <2> QED BY <1>1, <2>1 DEF IInv, VerdictsAreOwn
<1> QED BY <1>4, <1>6, <1>7, <1>8, <1>9, <1>10, <1>11, <1>12 DEF IInv

\* The handlers of the four kinds of requests.
LEMMA RequestArrives ==
  ASSUME IInv, NEW q \in Jobs, NEW text \in Texts, NEW b \in Buffers,
         \/ IssueBadge(q, text, b)
         \/ VerifyBadge(q, text, b)
         \/ BadRequest(q, text, b)
         \/ VerifyBadgeSync(q, text, b)
  PROVE  IInv'
<1>0. ServiceKeeps /\ request[q].pc = "idle"
  BY DEF IInv, IssueBadge, VerifyBadge, BadRequest, VerifyBadgeSync, Arrive
<1>1. q \notin InService
  BY <1>0 DEF IInv, HandedIn
<1>2. ASSUME HandIn(q) \/ Refuse(q)
      PROVE  /\ ServiceKeeps' /\ InService' \subseteq InService \cup {q}
             /\ UNCHANGED <<serving, answered>> /\ refused \subseteq refused'
  BY <1>0, <1>2, HandInKeeps, RefuseKeeps
<1>3. ASSUME UNCHANGED jsVars
      PROVE  /\ ServiceKeeps' /\ InService' \subseteq InService \cup {q} /\ q \notin InService'
             /\ UNCHANGED <<serving, answered>> /\ refused \subseteq refused'
  BY <1>0, <1>1, <1>3 DEF jsVars, ServiceKeeps, InService
<1>4. CASE IssueBadge(q, text, b)
  <2>1. Arrive(q, "issue", text, b, "waiting", None) /\ MayAsk(text) /\ (HandIn(q) \/ Refuse(q))
    BY <1>4 DEF IssueBadge
  <2> QED BY <1>2, <2>1, ArriveStep DEF Kinds
<1>5. CASE VerifyBadge(q, text, b)
  <2>1. PICK kind \in {"copied", "raw"} : Arrive(q, kind, text, b, "waiting", None)
    BY <1>5 DEF VerifyBadge
  <2>2. HandIn(q) \/ Refuse(q)
    BY <1>5 DEF VerifyBadge
  <2> QED BY <1>2, <2>1, <2>2, ArriveStep DEF Kinds
<1>6. CASE BadRequest(q, text, b)
  <2>1. Arrive(q, "bad", text, b, "done", 400) /\ UNCHANGED jsVars
    BY <1>6 DEF BadRequest
  <2> QED BY <1>3, <2>1, ArriveStep DEF Kinds, Codes
<1>7. CASE VerifyBadgeSync(q, text, b)
  <2>1. Arrive(q, "sync", text, b, "sync", None) /\ UNCHANGED jsVars
    BY <1>7 DEF VerifyBadgeSync
  <2> QED BY <1>3, <2>1, ArriveStep DEF Kinds
<1> QED BY <1>4, <1>5, <1>6, <1>7

\* A handler answers.
LEMMA RespondShape ==
  ASSUME Typed, NEW q \in Jobs, NEW code \in Codes, Respond(q, code)
  PROVE  /\ request' \in [Jobs -> RequestRecords]
         /\ request'[q].pc = "done" /\ request'[q].code = code
         /\ request'[q].kind = request[q].kind /\ request'[q].text = request[q].text
         /\ request[q].kind # "raw" => request'[q].buffer = None
         /\ \A x \in Jobs \ {q} : request'[x] = request[x]
<1> DEFINE r == [pc |-> "done", kind |-> request[q].kind, text |-> request[q].text,
                 buffer |-> IF PointsToBody(request[q].kind) THEN request[q].buffer ELSE None, code |-> code]
<1>1. request \in [Jobs -> RequestRecords] /\ request[q] \in RequestRecords
  BY DEF Typed
<1>2. r \in RequestRecords
  BY <1>1 DEF RequestRecords
<1>3. request' = [request EXCEPT ![q] = r]
  BY DEF Respond
<1>4. request'[q] = r /\ request' \in [Jobs -> RequestRecords] /\ \A x \in Jobs \ {q} : request'[x] = request[x]
  BY <1>1, <1>2, <1>3
<1> QED BY <1>4 DEF PointsToBody

LEMMA RespondStep ==
  ASSUME IInv, NEW q \in Jobs, NEW code \in Codes, request[q].pc \in {"waiting", "sync"}, Respond(q, code),
         UNCHANGED <<job, jsVars, badges>>,
         \/ logs' = logs
         \/ /\ logs' \in Seq(LogRows) /\ Len(logs') = Len(logs) + 1 /\ request[q].kind # None
            /\ logs'[Len(logs) + 1].by = q /\ logs'[Len(logs) + 1].text = request[q].text
            /\ \A i \in 1..Len(logs) : logs'[i] = logs[i],
         request[q].pc = "waiting" => code = 504 \/ q \in answered \cup refused,
         code = 500 => q \in refused \/ ~job[q].ok,
         code = 200 /\ request[q].kind # "sync" => job[q].read = request[q].text
  PROVE  IInv'
<1>0. None \notin Codes
  BY RequestsAssumption
<1>1. /\ request' \in [Jobs -> RequestRecords]
      /\ request'[q].pc = "done" /\ request'[q].code = code
      /\ request'[q].kind = request[q].kind /\ request'[q].text = request[q].text
      /\ request[q].kind # "raw" => request'[q].buffer = None
      /\ \A x \in Jobs \ {q} : request'[x] = request[x]
  BY RespondShape DEF IInv
<1>2. job' = job /\ badges' = badges /\ UNCHANGED <<line, serving, answered, refused>>
  BY DEF jsVars
<1>3. request[q].code = None /\ ~Late(q) /\ ~Told(q)
  <2>1. request[q].code = None
    BY DEF IInv, HandedIn
  <2> QED BY <2>1, <1>0 DEF Late, Told, Codes
<1>4. ServiceKeeps' /\ InService' = InService
  BY <1>2 DEF IInv, ServiceKeeps, InService
<1>5. Typed'
  BY <1>1, <1>2 DEF IInv, Typed
<1>6. HandedIn'
  <2> SUFFICES ASSUME NEW x \in Jobs
               PROVE  /\ x \in InService =>
                            request'[x].pc \in {"waiting", "done"} /\ request'[x].kind \in {"issue", "copied", "raw"}
                      /\ request'[x].pc = "done" /\ request'[x].kind \in {"issue", "copied", "raw"} =>
                            request'[x].code = 504 \/ x \in answered \cup refused
                      /\ request'[x].pc = "sync" => request'[x].kind = "sync"
                      /\ request'[x].code # None => request'[x].pc = "done"
                      /\ request'[x].kind # None => request'[x].pc \in {"waiting", "sync", "done"}
                      /\ request'[x].code = 500 => x \in refused \/ ~job[x].ok
    BY <1>2, <1>4 DEF HandedIn
  <2>1. CASE x = q
    <3>1. request[q].pc = "sync" => request[q].kind = "sync"
      BY DEF IInv, HandedIn
    <3>2. q \in InService => request[q].kind \in {"issue", "copied", "raw"}
      BY DEF IInv, HandedIn
    <3> QED BY <1>1, <2>1, <3>1, <3>2
  <2>2. CASE x # q
    <3>1. request'[x] = request[x]
      BY <1>1, <2>2
    <3> QED BY <3>1 DEF IInv, HandedIn
  <2> QED BY <2>1, <2>2
<1>7. PayloadsAreOwn'
  <2> SUFFICES ASSUME NEW x \in Jobs
               PROVE  /\ request'[x].pc = "done" /\ request'[x].kind \notin {"raw", "bad"} => request'[x].buffer = None
                      /\ (request'[x].pc = "done" /\ request'[x].kind \in {"raw", "bad"}) \/ job[x].says = request'[x].text
    BY <1>2 DEF PayloadsAreOwn
  <2>1. CASE x = q
    <3>1. job[q].says = request[q].text
      BY DEF IInv, PayloadsAreOwn
    <3> QED BY <1>1, <2>1, <3>1
  <2>2. CASE x # q
    <3>1. request'[x] = request[x]
      BY <1>1, <2>2
    <3> QED BY <3>1 DEF IInv, PayloadsAreOwn
  <2> QED BY <2>1, <2>2
<1>8. \A x \in Jobs : request'[x].text = request[x].text /\ request'[x].kind = request[x].kind
                      /\ (Late(x) => Late(x)') /\ (Told(x) => Told(x)')
  <2> SUFFICES ASSUME NEW x \in Jobs
               PROVE  request'[x].text = request[x].text /\ request'[x].kind = request[x].kind
                      /\ (Late(x) => Late(x)') /\ (Told(x) => Told(x)')
    OBVIOUS
  <2>1. CASE x = q
    BY <1>1, <1>3, <2>1
  <2>2. CASE x # q
    BY <1>1, <2>2 DEF Late, Told
  <2> QED BY <2>1, <2>2
<1>9. ReadsAreOwn'
  BY <1>2, <1>8 DEF IInv, ReadsAreOwn
<1>10. LogsAreOwn'
  <2> SUFFICES ASSUME NEW i \in 1..Len(logs')
               PROVE  /\ request'[logs'[i].by].kind # None
                      /\ logs'[i].text = request'[logs'[i].by].text \/ Late(logs[i].by)'
    BY DEF LogsAreOwn, Late
  <2>0. logs \in Seq(LogRows) /\ Len(logs) \in Nat
    BY DEF IInv, Typed
  <2>1. ASSUME i \in 1..Len(logs), logs'[i] = logs[i]
        PROVE  /\ request'[logs'[i].by].kind # None
               /\ logs'[i].text = request'[logs'[i].by].text \/ Late(logs[i].by)'
    <3>0. logs[i] \in LogRows
      BY <2>0, <2>1
    <3>1. logs[i].by \in Jobs
      BY <3>0 DEF LogRows
    <3>2. /\ request[logs[i].by].kind # None
          /\ logs[i].text = request[logs[i].by].text \/ Late(logs[i].by)
      BY <2>1 DEF IInv, LogsAreOwn
    <3> DEFINE x == logs[i].by
    <3>3. x \in Jobs /\ logs'[i].by = x /\ request[x].kind # None /\ (logs[i].text = request[x].text \/ Late(x))
      BY <2>1, <3>1, <3>2
    <3> HIDE DEF x
    <3> QED BY <1>8, <2>1, <3>3 DEF Late
  <2>2. CASE i \in 1..Len(logs)
    BY <2>1, <2>2
  <2>3. CASE i \notin 1..Len(logs)
    <3>1. i = Len(logs) + 1 /\ logs'[i].by = q /\ logs'[i].text = request[q].text /\ request[q].kind # None
      BY <2>0, <2>3
    <3> QED BY <1>1, <3>1
  <2> QED BY <2>2, <2>3
<1>11. BadgesAreOwn'
  <2>1. ASSUME NEW i \in 1..Len(badges), badges[i].by # None
        PROVE  request'[badges[i].by].kind = "issue"
    <3>1. badges[i].by \in Jobs /\ request[badges[i].by].kind = "issue"
      BY <2>1 DEF IInv, BadgesAreOwn, ServiceKeeps
    <3> QED BY <1>8, <3>1
  <2> QED BY <1>2, <2>1 DEF IInv, BadgesAreOwn
<1>12. AskedAgain'
  BY <1>8 DEF IInv, AskedAgain
<1>13. VerdictsAreOwn'
  <2> SUFFICES ASSUME NEW x \in Jobs, request'[x].code = 200, request'[x].kind # "sync"
               PROVE  job[x].read = request'[x].text
    BY <1>2 DEF VerdictsAreOwn
  <2>1. CASE x = q
    BY <1>1, <2>1
  <2>2. CASE x # q
    BY <1>1, <2>2 DEF IInv, VerdictsAreOwn
  <2> QED BY <2>1, <2>2
<1> QED BY <1>4, <1>5, <1>6, <1>7, <1>9, <1>10, <1>11, <1>12, <1>13 DEF IInv

\* The answers of the synchronous endpoint, of the pool and of the timer.
LEMMA RequestAnswered ==
  ASSUME IInv, NEW q \in Jobs, SyncAnswers(q) \/ PoolAnswers(q) \/ TimesOut(q)
  PROVE  IInv'
<1>0. request[q].pc \in {"waiting", "sync"} => request[q].code = None /\ ~Late(q) /\ job[q].says = request[q].text
  <2>1. request[q].pc \in {"waiting", "sync"} => request[q].code = None
    BY DEF IInv, HandedIn
  <2>2. None # 504
    BY RequestsAssumption DEF Codes
  <2>3. request[q].pc \in {"waiting", "sync"} => job[q].says = request[q].text
    BY DEF IInv, PayloadsAreOwn
  <2> QED BY <2>1, <2>2, <2>3 DEF Late
<1>1. CASE SyncAnswers(q)
  <2>1. /\ request[q].pc = "sync" /\ Respond(q, 200) /\ UNCHANGED <<job, jsVars>>
        /\ CreateVerificationLog(q, job[q].says) \/ UNCHANGED tables
    BY <1>1 DEF SyncAnswers
  <2>2. request[q].kind = "sync" /\ request[q].kind # None
    <3>1. request[q].kind = "sync"
      BY <2>1 DEF IInv, HandedIn
    <3> QED BY <3>1, RequestsAssumption DEF Kinds
  <2>3. 200 \in Codes
    BY DEF Codes
  <2>4. CASE CreateVerificationLog(q, job[q].says)
    <3>1. job[q].says \in Texts \cup {None, Torn}
      <4>1. job[q] \in JobRecords
        BY DEF IInv, Typed
      <4> QED BY <4>1 DEF JobRecords
    <3>2. /\ logs' \in Seq(LogRows) /\ Len(logs') = Len(logs) + 1 /\ badges' = badges
          /\ logs'[Len(logs) + 1].by = q /\ logs'[Len(logs) + 1].text = job[q].says
          /\ \A i \in 1..Len(logs) : logs'[i] = logs[i]
      BY <2>4, <3>1, LogAdded DEF IInv
    <3> QED BY <1>0, <2>1, <2>2, <2>3, <3>2, RespondStep
  <2>5. CASE UNCHANGED tables
    <3>1. logs' = logs /\ badges' = badges
      BY <2>5 DEF tables
    <3> QED BY <2>1, <2>2, <2>3, <3>1, RespondStep
  <2> QED BY <2>1, <2>4, <2>5
<1>2. CASE PoolAnswers(q)
  <2> DEFINE code == IF q \in refused \/ ~job[q].ok THEN 500 ELSE IF request[q].kind = "issue" THEN 201 ELSE 200
  <2>1. /\ request[q].pc = "waiting" /\ q \in answered \cup refused /\ Respond(q, code)
        /\ UNCHANGED <<job, jsVars>> /\ logs' = logs /\ badges' = badges
    BY <1>2 DEF PoolAnswers, tables
  <2>2. code \in Codes
    BY DEF Codes
  <2>3. code = 500 => q \in refused \/ ~job[q].ok
    OBVIOUS
  <2>4. code = 200 => job[q].read = request[q].text
    <3>1. code = 200 => q \in answered
      BY <2>1
    <3>2. q \in answered => job[q].read = request[q].text
      BY <1>0, <2>1 DEF IInv, ReadsAreOwn
    <3> QED BY <3>1, <3>2
  <2> HIDE DEF code
  <2> QED BY <2>1, <2>2, <2>3, <2>4, RespondStep
<1>3. CASE TimesOut(q)
  <2>1. /\ request[q].pc = "waiting" /\ Respond(q, 504)
        /\ UNCHANGED <<job, jsVars>> /\ logs' = logs /\ badges' = badges
    BY <1>3 DEF TimesOut, tables
  <2>2. 504 \in Codes
    BY DEF Codes
  <2> QED BY <2>1, <2>2, RespondStep
<1> QED BY <1>1, <1>2, <1>3

-------------------------------------------------------------------------------
(* Processors.                                                             *)

\* A job is taken from the line.
LEMMA ServeStep ==
  ASSUME IInv, Serve, UNCHANGED <<tables, requestVars>>
  PROVE  IInv'
<1>1. /\ ServiceKeeps' /\ InService' = InService /\ serving \subseteq serving' /\ UNCHANGED <<answered, refused>>
      /\ request' = request /\ job' = job /\ badges' = badges /\ logs' = logs
  BY ServeKeeps DEF IInv, tables, requestVars
<1>2. Typed' /\ HandedIn' /\ PayloadsAreOwn'
  BY <1>1 DEF IInv, Typed, HandedIn, PayloadsAreOwn
<1>3. LogsAreOwn' /\ BadgesAreOwn'
  BY <1>1 DEF IInv, LogsAreOwn, BadgesAreOwn, Late
<1>4. AskedAgain' /\ VerdictsAreOwn'
  BY <1>1 DEF IInv, AskedAgain, VerdictsAreOwn, Told
<1>5. ReadsAreOwn'
  BY <1>1 DEF IInv, ReadsAreOwn, Late
<1> QED BY <1>1, <1>2, <1>3, <1>4, <1>5 DEF IInv

\* A job that is served is of a request that waits, or that timed out.
LEMMA Served ==
  ASSUME IInv, NEW q \in Jobs, q \in serving
  PROVE  /\ q \notin answered \cup refused /\ job[q].ok
         /\ request[q].kind \in {"issue", "copied", "raw"} /\ request[q].kind # None
         /\ request[q].pc = "done" => request[q].code = 504
         /\ request[q].code \notin {200, 500}
<1>1. q \notin answered \cup refused /\ q \in InService
  BY DEF IInv, ServiceKeeps, InService
<1>2. job[q].ok
  BY <1>1 DEF IInv, ReadsAreOwn
<1>3. /\ request[q].kind \in {"issue", "copied", "raw"}
      /\ request[q].pc = "done" => request[q].code = 504
      /\ request[q].code # None => request[q].pc = "done"
  BY <1>1 DEF IInv, HandedIn
<1>4. None \notin Kinds /\ None \notin Codes
  BY RequestsAssumption
<1> QED BY <1>1, <1>2, <1>3, <1>4 DEF Kinds, Codes

\* The processor reads the payload: the request's own body, unless it is late.
LEMMA BeginStep ==
  ASSUME IInv, NEW q \in Jobs, Begin(q)
  PROVE  IInv'
<1>1. PICK text \in Readable(q), ok \in BOOLEAN :
         /\ ok \/ request[q].kind = "issue"
         /\ job' = [job EXCEPT ![q] = [begun |-> TRUE, says |-> @.says, read |-> text, ok |-> ok]]
         /\ IF ok THEN ~failed /\ UNCHANGED jsVars ELSE Answer(q)
  BY DEF Begin
<1>2. q \in serving /\ ~job[q].begun /\ request' = request /\ badges' = badges /\ logs' = logs
  BY DEF Begin, tables
<1>3. /\ q \notin answered \cup refused /\ job[q].ok
      /\ request[q].kind \in {"issue", "copied", "raw"}
      /\ request[q].pc = "done" => request[q].code = 504
      /\ request[q].code \notin {200, 500}
  BY <1>2, Served
<1>4. request[q] \in RequestRecords /\ job[q] \in JobRecords /\ job \in [Jobs -> JobRecords]
  BY DEF IInv, Typed
<1>5. text \in Texts \cup {None, Torn}
  BY <1>1, <1>4 DEF Readable, RequestRecords, JobRecords
<1>6. text = request[q].text \/ Late(q)
  <2>1. CASE job[q].says = request[q].text
    BY <1>1, <2>1 DEF Readable
  <2>2. CASE job[q].says # request[q].text
    <3>1. request[q].pc = "done" /\ request[q].kind \in {"raw", "bad"}
      BY <2>2 DEF IInv, PayloadsAreOwn
    <3> QED BY <1>3, <3>1 DEF Late
  <2> QED BY <2>1, <2>2
<1> DEFINE r == [begun |-> TRUE, says |-> job[q].says, read |-> text, ok |-> ok]
<1>7. r \in JobRecords
  BY <1>4, <1>5 DEF JobRecords
<1>8. job' = [job EXCEPT ![q] = r]
  BY <1>1
<1>9. /\ job' \in [Jobs -> JobRecords] /\ job'[q] = r
      /\ \A x \in Jobs \ {q} : job'[x] = job[x]
  BY <1>4, <1>7, <1>8
<1>10. /\ job'[q].begun /\ job'[q].says = job[q].says /\ job'[q].read = text /\ job'[q].ok = ok
  BY <1>9
<1> HIDE DEF r
<1>11. /\ ServiceKeeps' /\ InService' = InService /\ refused' = refused
       /\ answered \subseteq answered' /\ answered' \subseteq answered \cup {q}
       /\ serving' \cup answered' = serving \cup answered
       /\ ok => answered' = answered
       /\ ~ok => q \in answered'
  <2>1. CASE ok
    BY <1>1, <2>1 DEF jsVars, IInv, ServiceKeeps, InService
  <2>2. CASE ~ok
    <3>1. Answer(q) /\ ServiceKeeps
      BY <1>1, <2>2 DEF IInv
    <3> QED BY <2>2, <3>1, AnswerKeeps
  <2> QED BY <2>1, <2>2
<1>12. Typed'
  BY <1>2, <1>9 DEF IInv, Typed
<1>13. HandedIn'
  <2> SUFFICES ASSUME NEW x \in Jobs
               PROVE  /\ x \in InService' =>
                            request[x].pc \in {"waiting", "done"} /\ request[x].kind \in {"issue", "copied", "raw"}
                      /\ request[x].pc = "done" /\ request[x].kind \in {"issue", "copied", "raw"} =>
                            request[x].code = 504 \/ x \in answered' \cup refused'
                      /\ request[x].pc = "sync" => request[x].kind = "sync"
                      /\ request[x].code # None => request[x].pc = "done"
                      /\ request[x].kind # None => request[x].pc \in {"waiting", "sync", "done"}
                      /\ request[x].code = 500 => x \in refused' \/ ~job'[x].ok
    BY <1>2 DEF HandedIn
  <2>1. request[x].code = 500 => x # q /\ (x \in refused \/ ~job[x].ok)
    BY <1>3 DEF IInv, HandedIn
  <2> QED BY <1>9, <1>11, <2>1 DEF IInv, HandedIn
<1>14. PayloadsAreOwn'
  <2> SUFFICES ASSUME NEW x \in Jobs PROVE job'[x].says = job[x].says
    BY <1>2 DEF IInv, PayloadsAreOwn
  <2> QED BY <1>9, <1>10
<1>15. ReadsAreOwn'
  <2> SUFFICES ASSUME NEW x \in Jobs
               PROVE  /\ job'[x].begun => x \in serving \cup answered
                      /\ x \in answered' => job'[x].begun
                      /\ job'[x].begun => job'[x].read = request[x].text \/ Late(x)
                      /\ ~job'[x].ok => x \in answered'
    BY <1>2, <1>11 DEF ReadsAreOwn, Late
  <2>1. CASE x = q
    BY <1>2, <1>6, <1>10, <1>11, <2>1
  <2>2. CASE x # q
    BY <1>9, <1>11, <2>2 DEF IInv, ReadsAreOwn
  <2> QED BY <2>1, <2>2
<1>16. LogsAreOwn' /\ AskedAgain'
  BY <1>2 DEF IInv, LogsAreOwn, AskedAgain, Late, Told
<1>17. BadgesAreOwn'
  <2>1. ASSUME NEW i \in 1..Len(badges), badges[i].by # None
        PROVE  badges[i].by \in answered' /\ request[badges[i].by].kind = "issue" /\ job'[badges[i].by].ok
    <3>1. badges[i].by \in answered /\ request[badges[i].by].kind = "issue" /\ job[badges[i].by].ok
      BY <2>1 DEF IInv, BadgesAreOwn
    <3>2. badges[i].by \in Jobs \ {q}
      BY <1>3, <3>1 DEF IInv, ServiceKeeps
    <3>3. job'[badges[i].by] = job[badges[i].by]
      BY <1>9, <3>2
    <3> QED BY <1>11, <3>1, <3>3
  <2> QED BY <1>2, <2>1 DEF IInv, BadgesAreOwn
<1>18. VerdictsAreOwn'
  <2> SUFFICES ASSUME NEW x \in Jobs, request[x].code = 200, request[x].kind # "sync"
               PROVE  job'[x].read = request[x].text
    BY <1>2 DEF VerdictsAreOwn
  <2>1. job'[x] = job[x]
    BY <1>3, <1>9
  <2> QED BY <2>1 DEF IInv, VerdictsAreOwn
<1> QED BY <1>11, <1>12, <1>13, <1>14, <1>15, <1>16, <1>17, <1>18 DEF IInv

\* The processor saves its row, or fails to, and sends its result.
LEMMA SaveStep ==
  ASSUME IInv, NEW q \in Jobs, Save(q)
  PROVE  IInv'
<1>1. job[q].begun /\ SaveRow(q) /\ Answer(q) /\ request' = request /\ job' = job
  BY DEF Save, requestVars
<1>2. /\ ServiceKeeps' /\ InService' = InService
      /\ q \in serving /\ serving' = serving \ {q} /\ answered' = answered \cup {q} /\ refused' = refused
  BY <1>1, AnswerKeeps DEF IInv
<1>3. q \notin answered \cup refused /\ job[q].ok /\ request[q].kind # None
  BY <1>2, Served
<1>4. logs \in Seq(LogRows) /\ Len(logs) \in Nat /\ badges \in Seq(BadgeRows) /\ Len(badges) \in Nat
      /\ job[q] \in JobRecords
  BY DEF IInv, Typed
<1>5. \/ logs' = logs /\ badges' = badges
      \/ /\ logs' \in Seq(LogRows) /\ Len(logs') = Len(logs) + 1 /\ badges' = badges
         /\ logs'[Len(logs) + 1].by = q /\ logs'[Len(logs) + 1].text = job[q].read
         /\ \A i \in 1..Len(logs) : logs'[i] = logs[i]
      \/ /\ badges' \in Seq(BadgeRows) /\ Len(badges') = Len(badges) + 1 /\ logs' = logs
         /\ badges'[Len(badges) + 1].by = q /\ request[q].kind = "issue"
         /\ \A i \in 1..Len(badges) : badges'[i] = badges[i]
  <2>1. job[q].read \in Texts \cup {None, Torn}
    BY <1>4 DEF JobRecords
  <2>2. CASE UNCHANGED tables
    BY <2>2 DEF tables
  <2>3. CASE CreateVerificationLog(q, job[q].read)
    BY <2>1, <2>3, LogAdded DEF IInv
  <2>4. CASE request[q].kind = "issue" /\ CreateBadge(q)
    BY <2>4, BadgeAdded DEF IInv
  <2> QED BY <1>1, <2>2, <2>3, <2>4 DEF SaveRow
<1>6. Typed'
  BY <1>1, <1>5 DEF IInv, Typed
<1>7. HandedIn' /\ PayloadsAreOwn' /\ AskedAgain' /\ VerdictsAreOwn'
  BY <1>1, <1>2 DEF IInv, HandedIn, PayloadsAreOwn, AskedAgain, VerdictsAreOwn, Told
<1>8. ReadsAreOwn'
  BY <1>1, <1>2 DEF IInv, ReadsAreOwn, Late
<1>9. LogsAreOwn'
  <2> SUFFICES ASSUME NEW i \in 1..Len(logs')
               PROVE  /\ request[logs'[i].by].kind # None
                      /\ logs'[i].text = request[logs'[i].by].text \/ Late(logs'[i].by)
    BY <1>1 DEF LogsAreOwn, Late
  <2>1. CASE i \in 1..Len(logs)
    <3>1. logs'[i] = logs[i]
      BY <1>5, <2>1
    <3> QED BY <2>1, <3>1 DEF IInv, LogsAreOwn
  <2>2. CASE i \notin 1..Len(logs)
    <3>1. logs'[i].by = q /\ logs'[i].text = job[q].read
      BY <1>4, <1>5, <2>2
    <3>2. job[q].read = request[q].text \/ Late(q)
      BY <1>1 DEF IInv, ReadsAreOwn
    <3> QED BY <1>3, <3>1, <3>2
  <2> QED BY <2>1, <2>2
<1>10. BadgesAreOwn'
  <2>1. CASE badges' = badges
    BY <1>1, <1>2, <2>1 DEF IInv, BadgesAreOwn
  <2>2. CASE /\ badges' \in Seq(BadgeRows) /\ Len(badges') = Len(badges) + 1
             /\ badges'[Len(badges) + 1].by = q /\ request[q].kind = "issue"
             /\ \A i \in 1..Len(badges) : badges'[i] = badges[i]
    <3>1. \A i \in 1..Len(badges') : i \in 1..Len(badges) \/ i = Len(badges) + 1
      BY <1>4, <2>2
    <3>2. \A i \in 1..Len(badges) : badges'[i].by = badges[i].by /\ badges[i].by # q
      BY <1>3, <2>2, RequestsAssumption DEF IInv, BadgesAreOwn, ServiceKeeps
    <3>3. ASSUME NEW i \in 1..Len(badges'), badges'[i].by # None
          PROVE  badges'[i].by \in answered' /\ request[badges'[i].by].kind = "issue" /\ job[badges'[i].by].ok
      BY <1>2, <1>3, <2>2, <3>1, <3>2, <3>3 DEF IInv, BadgesAreOwn
    <3>4. ASSUME NEW i \in 1..Len(badges'), NEW k \in 1..Len(badges'), i # k, badges'[i].by # None
          PROVE  badges'[i].by # badges'[k].by
      BY <2>2, <3>1, <3>2, <3>4 DEF IInv, BadgesAreOwn
    <3> QED BY <1>1, <3>3, <3>4 DEF BadgesAreOwn
  <2> QED BY <1>5, <2>1, <2>2
<1> QED BY <1>2, <1>6, <1>7, <1>8, <1>9, <1>10 DEF IInv

-------------------------------------------------------------------------------
(* The other steps, and the whole.                                         *)

\* The row of a badge that is revoked stays the row of the same request.
LEMMA RevokeStep ==
  ASSUME IInv, NEW i \in DOMAIN badges, RevokeBadge(i)
  PROVE  IInv'
<1>1. /\ badges' = [badges EXCEPT ![i].status = "revoked"] /\ logs' = logs
      /\ request' = request /\ job' = job /\ UNCHANGED <<line, serving, answered, refused>>
  BY DEF RevokeBadge, UpdateBadgeStatus, requestVars, jsVars
<1>2. badges \in Seq(BadgeRows) /\ Len(badges) \in Nat /\ DOMAIN badges = 1..Len(badges)
  BY DEF IInv, Typed
<1>3. badges[i] \in BadgeRows
  BY <1>2
<1>4. /\ [badges[i] EXCEPT !.status = "revoked"] \in BadgeRows
      /\ [badges[i] EXCEPT !.status = "revoked"].by = badges[i].by
  BY <1>3 DEF BadgeRows, Statuses
<1> DEFINE r == [badges[i] EXCEPT !.status = "revoked"]
<1>5. r \in BadgeRows /\ r.by = badges[i].by /\ badges' = [badges EXCEPT ![i] = r]
  BY <1>1, <1>4
<1> HIDE DEF r
<1>6. badges' \in Seq(BadgeRows) /\ Len(badges') = Len(badges) /\ \A k \in 1..Len(badges) : badges'[k].by = badges[k].by
  <2>1. badges' \in Seq(BadgeRows) /\ Len(badges') = Len(badges)
    BY <1>2, <1>5
  <2>2. ASSUME NEW k \in 1..Len(badges) PROVE badges'[k].by = badges[k].by
    <3>1. CASE k = i
      BY <1>2, <1>5, <3>1
    <3>2. CASE k # i
      BY <1>2, <1>5, <3>2
    <3> QED BY <3>1, <3>2
  <2> QED BY <2>1, <2>2
<1>7. ServiceKeeps' /\ InService' = InService
  BY <1>1 DEF IInv, ServiceKeeps, InService
<1>8. Typed'
  BY <1>1, <1>6 DEF IInv, Typed
<1>9. HandedIn' /\ PayloadsAreOwn' /\ ReadsAreOwn' /\ LogsAreOwn' /\ AskedAgain' /\ VerdictsAreOwn'
  BY <1>1, <1>7 DEF IInv, HandedIn, PayloadsAreOwn, ReadsAreOwn, LogsAreOwn, AskedAgain, VerdictsAreOwn, Late, Told
<1>10. BadgesAreOwn'
  <2>1. ASSUME NEW k \in 1..Len(badges), badges'[k].by # None
        PROVE  badges'[k].by \in answered /\ request[badges'[k].by].kind = "issue" /\ job[badges'[k].by].ok
    <3>1. badges'[k].by = badges[k].by
      BY <1>6
    <3> QED BY <2>1, <3>1 DEF IInv, BadgesAreOwn
  <2>2. ASSUME NEW j \in 1..Len(badges), NEW k \in 1..Len(badges), j # k, badges'[j].by # None
        PROVE  badges'[j].by # badges'[k].by
    <3>1. badges'[j].by = badges[j].by /\ badges'[k].by = badges[k].by
      BY <1>6
    <3> QED BY <2>2, <3>1 DEF IInv, BadgesAreOwn
  <2> QED BY <1>1, <1>6, <2>1, <2>2 DEF BadgesAreOwn
<1> QED BY <1>7, <1>8, <1>9, <1>10 DEF IInv

\* What touches neither the requests, nor the tables, nor the line.
LEMMA OtherStep ==
  ASSUME IInv, UNCHANGED <<tables, requestVars, line, serving, answered, refused>>
  PROVE  IInv'
<1>1. /\ request' = request /\ job' = job /\ badges' = badges /\ logs' = logs
      /\ UNCHANGED <<line, serving, answered, refused>>
  BY DEF tables, requestVars
<1>2. ServiceKeeps' /\ InService' = InService
  BY <1>1 DEF IInv, ServiceKeeps, InService
<1> QED BY <1>1, <1>2 DEF IInv, Typed, HandedIn, PayloadsAreOwn, ReadsAreOwn, LogsAreOwn, BadgesAreOwn,
                         AskedAgain, VerdictsAreOwn, Late, Told

LEMMA InitIInv == Init => IInv
<1> SUFFICES ASSUME Init PROVE IInv
  OBVIOUS
<1>1. PICK n \in Earlier : badges = EarlierRows(n)
  BY DEF Init
<1>2. PICK present : RequestsInit(present)
  BY DEF Init
<1>3. n \in Nat /\ logs = <<>> /\ line = <<>> /\ serving = {} /\ answered = {} /\ refused = {}
  BY ApiAssumption DEF Init, JSInit
<1>4. InService = {} /\ ServiceKeeps
  BY <1>3, EmptySequence DEF InService, ServiceKeeps
<1>5. /\ \A q \in Jobs : /\ request[q].pc \in {"absent", "idle"} /\ request[q].kind = None
                         /\ request[q].text = None /\ request[q].buffer = None /\ request[q].code = None
                         /\ ~job[q].begun /\ job[q].says = None /\ job[q].read = None /\ job[q].ok
  BY <1>2 DEF RequestsInit
<1>6. request \in [Jobs -> RequestRecords] /\ job \in [Jobs -> JobRecords]
  BY <1>2 DEF RequestsInit, RequestRecords, JobRecords
<1>7. badges \in Seq(BadgeRows) /\ Len(badges) = n /\ \A i \in 1..n : badges[i].by = None
  <2>1. \A i \in 1..n : [by |-> None, status |-> "active", at |-> i] \in BadgeRows
    BY <1>3 DEF BadgeRows, Statuses
  <2> QED BY <1>1, <1>3, <2>1 DEF EarlierRows
<1>8. Typed
  BY <1>3, <1>6, <1>7 DEF Typed
<1>9. HandedIn /\ PayloadsAreOwn /\ ReadsAreOwn
  <2>1. None \notin {"issue", "copied", "raw", "sync"} /\ None # 500
    BY RequestsAssumption DEF Kinds, Codes
  <2> QED BY <1>4, <1>5, <1>3, <2>1 DEF HandedIn, PayloadsAreOwn, ReadsAreOwn
<1>10. LogsAreOwn /\ BadgesAreOwn
  BY <1>3, <1>7 DEF LogsAreOwn, BadgesAreOwn
<1>11. AskedAgain /\ VerdictsAreOwn
  <2>1. None # "issue" /\ None # 200
    BY RequestsAssumption DEF Kinds, Codes
  <2> QED BY <1>5, <2>1 DEF AskedAgain, VerdictsAreOwn
<1> QED BY <1>4, <1>8, <1>9, <1>10, <1>11 DEF IInv

LEMMA StepInvariant ==
  ASSUME IInv, [Next]_vars
  PROVE  IInv'
<1>1. ASSUME NEW q \in Jobs, Handles(q)
      PROVE  IInv'
  BY <1>1, RequestArrives, RequestAnswered DEF Handles
<1>2. ASSUME NEW q \in Jobs, Processes(q)
      PROVE  IInv'
  BY <1>2, BeginStep, SaveStep DEF Processes
<1>3. CASE Serve /\ UNCHANGED <<tables, reader, requestVars>>
  <2>1. UNCHANGED <<tables, requestVars>>
    BY <1>3
  <2> QED BY <1>3, <2>1, ServeStep
<1>4. ASSUME NEW r \in Readers, Reads(r), UNCHANGED <<requestVars, jsVars>>
      PROVE  IInv'
  <2>1. UNCHANGED <<tables, requestVars, line, serving, answered, refused>>
    BY <1>4 DEF Reads, FirstPage, NextPage, ReadPage, NegativeOffset, QueryFails, jsVars
  <2> QED BY <2>1, OtherStep
<1>5. ASSUME NEW i \in DOMAIN badges, RevokeBadge(i)
      PROVE  IInv'
  BY <1>5, RevokeStep
<1>6. CASE GetMissingBadge
  <2>1. UNCHANGED <<tables, requestVars, line, serving, answered, refused>>
    BY <1>6 DEF GetMissingBadge, Fail
  <2> QED BY <2>1, OtherStep
<1>7. CASE UNCHANGED vars
  <2>1. UNCHANGED <<tables, requestVars, line, serving, answered, refused>>
    BY <1>7 DEF vars, jsVars
  <2> QED BY <2>1, OtherStep
<1> QED BY <1>1, <1>2, <1>3, <1>4, <1>5, <1>6, <1>7 DEF Next

LEMMA Invariance == Spec => []IInv
BY InitIInv, StepInvariant, PTL DEF Spec

-------------------------------------------------------------------------------
\* An answer to a verification is about the body that was sent; a row of the
\* log is, unless the body was bare and its request had timed out.
THEOREM ApiVerdictIsOfOwnBody == Spec => []VerdictIsOfOwnBody
<1>1. IInv => VerdictIsOfOwnBody
  <2> SUFFICES ASSUME IInv PROVE VerdictIsOfOwnBody
    OBVIOUS
  <2>1. DOMAIN logs = 1..Len(logs)
    BY DEF IInv, Typed
  <2> QED BY <2>1 DEF IInv, VerdictsAreOwn, LogsAreOwn, Late, VerdictIsOfOwnBody
<1> QED BY <1>1, Invariance, PTL

\* Two badges for what a client asked for once: one of the two requests was
\* answered 504.  The client that asked again was told so by a 500 or a 504,
\* and a 500 is about a job that saved nothing.
THEOREM ApiDuplicatesHaveCause == Spec => []DuplicatesHaveCause
<1>1. IInv => DuplicatesHaveCause
  <2> SUFFICES ASSUME IInv, NEW i \in 1..Len(badges), NEW j \in 1..Len(badges), i # j,
                      badges[i].by # None, badges[j].by # None,
                      request[badges[i].by].text = request[badges[j].by].text
               PROVE  504 \in {request[badges[i].by].code, request[badges[j].by].code}
    <3>1. IInv => DOMAIN badges = 1..Len(badges)
      BY DEF IInv, Typed
    <3> QED BY <3>1 DEF DuplicatesHaveCause
  <2> DEFINE p == badges[i].by
             q == badges[j].by
  <2>1. p # q /\ p \in answered /\ q \in answered
    BY DEF IInv, BadgesAreOwn
  <2>2. request[p].kind = "issue" /\ request[q].kind = "issue" /\ job[p].ok /\ job[q].ok
    BY DEF IInv, BadgesAreOwn
  <2>3. p \in Jobs /\ q \in Jobs /\ p \notin refused /\ q \notin refused
    BY <2>1 DEF IInv, ServiceKeeps
  <2>4. request[p].text = request[q].text
    OBVIOUS
  <2> HIDE DEF p, q
  <2>5. Told(p) \/ Told(q)
    BY <2>1, <2>2, <2>3, <2>4 DEF IInv, AskedAgain
  <2>6. request[p].code # 500 /\ request[q].code # 500
    BY <2>2, <2>3 DEF IInv, HandedIn
  <2>7. request[p].code = 504 \/ request[q].code = 504
    BY <2>5, <2>6 DEF Told
  <2> QED BY <2>7 DEF p, q
<1> QED BY <1>1, Invariance, PTL

-------------------------------------------------------------------------------
(* What the readers of listings know.                                      *)

ReaderRecords ==
    [pc : {"absent", "idle", "counted", "served", "rejected", "failed"},
     list : {None, "badges", "issues", "verifications"}, status : Filters,
     page : Nat \ {0}, perPage : 1..MaxPerPage, total : Nat,
     items : Seq(Nat), owed : SUBSET Nat, seen : SUBSET Nat]

\* Rows of verification_logs have no status that could be asked for, and who
\* has asked for nothing is owed nothing.
AsksProperly(a) ==
    /\ a.list = "verifications" => a.status = None
    /\ a.pc = "idle" => a.owed = {}

\* A page is read after its rows were counted, and tables only grow.
PageIsFull(a, t) ==
    /\ a.pc \in {"counted", "served"} /\ a.status = None => a.total =< Len(t)
    /\ a.pc = "served" /\ a.items # <<>> => Before(a) < Len(t) \/ Before(a) > MaxInt
    /\ a.pc = "served" /\ a.status = None /\ a.total > Before(a) =>
          Len(a.items) = a.perPage \/ Len(a.items) >= a.total - Before(a)

\* The rows that ORDER BY puts above row x.
Above(table, S, x) == {y \in S : table[y].at > table[x].at}

Revoked == \E i \in DOMAIN badges : badges[i].status = "revoked"

\* A walk in which nothing that excuses a gap has happened.
Walks(a, t) ==
    /\ a.pc \in {"counted", "served"}
    /\ a.owed # {}
    /\ ~TiedInstants(t)
    /\ ~(a.status = "active" /\ Revoked)

\* The rows that a walk has read once its page is answered.
Passed(a) == Before(a) + (IF a.pc = "served" THEN a.perPage ELSE 0)

\* A row that is owed and has not been seen is below all that was read.
OwedIsBelow(a, t, S) ==
    /\ a.owed \subseteq S
    /\ Before(a) =< MaxInt + (IF a.pc = "served" THEN 0 ELSE a.perPage)
    /\ \A x \in a.owed \ a.seen : Cardinality(Above(t, S, x)) >= Passed(a)
    /\ a.pc = "served" /\ a.items = <<>> => a.owed \subseteq a.seen

ReaderKeeps(a, t) ==
    /\ AsksProperly(a)
    /\ PageIsFull(a, t)
    /\ Walks(a, t) => OwedIsBelow(a, t, Matching(t, a.status))

ListInv ==
    /\ reader \in [Readers -> ReaderRecords]
    /\ \A r \in Readers : ReaderKeeps(reader[r], TableOf(reader[r].list))

-------------------------------------------------------------------------------
(* Listings.                                                               *)

\* Multiplying keeps natural numbers natural.
LEMMA Products ==
  ASSUME NEW p \in Nat \ {0}, NEW n \in Nat
  PROVE  (p - 1) * n \in Nat /\ p * n = (p - 1) * n + n /\ (p = 1 => (p - 1) * n = 0)
OBVIOUS

\* An offset that wraps is never larger than what was asked for, and negative
\* unless the product is out by more than one range of integers.
LEMMA OffsetBounds ==
  ASSUME NEW p \in Nat \ {0}, NEW n \in Nat
  PROVE  LET before == (p - 1) * n
             off == Offset(p, n)
         IN  /\ off \in Int /\ off =< before
             /\ before =< MaxInt => off = before
             /\ before > MaxInt /\ before =< 2 * MaxInt + 1 => off < 0
<1> DEFINE before == (p - 1) * n
<1>1. before \in Nat /\ MaxInt \in Nat
  BY Products, RepositoryAssumption
<1> HIDE DEF before
<1>2. /\ Wrap(before) \in Int /\ Wrap(before) =< before
      /\ before =< MaxInt => Wrap(before) = before
      /\ before > MaxInt /\ before =< 2 * MaxInt + 1 => Wrap(before) < 0
  BY <1>1 DEF Wrap
<1> QED BY <1>2 DEF Offset, before

LEMMA LeastOfTwo ==
  ASSUME NEW a \in Int, NEW b \in Int
  PROVE  Min({a, b}) = IF a =< b THEN a ELSE b
<1> DEFINE m == IF a =< b THEN a ELSE b
<1>1. m \in {a, b} /\ \A y \in {a, b} : m =< y
  OBVIOUS
<1>2. \A x \in {a, b} : (\A y \in {a, b} : x =< y) => x = m
  OBVIOUS
<1> HIDE DEF m
<1>3. Min({a, b}) = m
  BY <1>1, <1>2 DEF Min
<1> QED BY <1>3 DEF m

\* A page of a sequence: how long it is and what it holds.
LEMMA PageShape ==
  ASSUME NEW S, NEW o \in Seq(S), NEW off \in Nat, NEW n \in Nat \ {0}
  PROVE  LET page == SubSeq(o, off + 1, Min({off + n, Len(o)}))
         IN  /\ page \in Seq(S)
             /\ Len(o) =< off => page = <<>>
             /\ Len(o) > off => page # <<>>
             /\ Len(page) = n \/ Len(page) >= Len(o) - off
             /\ \A i \in 1..Len(o) : i > off /\ i =< off + n => o[i] \in ToSet(page)
<1> DEFINE last == Min({off + n, Len(o)})
           page == SubSeq(o, off + 1, last)
<1>1. Len(o) \in Nat /\ last = IF off + n =< Len(o) THEN off + n ELSE Len(o)
  BY LeastOfTwo
<1> HIDE DEF last
<1>2. last \in Nat /\ \A i \in (off + 1)..last : i \in 1..Len(o) /\ o[i] \in S
  BY <1>1
<1>3. /\ page \in Seq(S)
      /\ Len(page) = IF off + 1 =< last THEN last - (off + 1) + 1 ELSE 0
      /\ \A i \in 1..(last - (off + 1) + 1) : page[i] = o[(off + 1) + i - 1]
  <2>1. off + 1 \in Int /\ last \in Int /\ \A i \in (off + 1)..last : i \in 1..Len(o)
    BY <1>1, <1>2
  <2> DEFINE first == off + 1
  <2>2. first \in Int /\ \A i \in first..last : i \in 1..Len(o)
    BY <2>1
  <2> HIDE DEF first
  <2>3. /\ SubSeq(o, first, last) \in Seq(S)
        /\ Len(SubSeq(o, first, last)) = IF first =< last THEN last - first + 1 ELSE 0
        /\ \A i \in 1..(last - first + 1) : SubSeq(o, first, last)[i] = o[first + i - 1]
    BY <2>1, <2>2, SubSeqProperties
  <2> QED BY <2>3 DEF first
<1> HIDE DEF page
<1>4. Len(o) =< off => page = <<>>
  BY <1>1, <1>2, <1>3
<1>5. Len(o) > off => page # <<>>
  <2>1. ASSUME Len(o) > off PROVE off + 1 =< last
    BY <1>1, <2>1
  <2>2. ASSUME Len(o) > off PROVE Len(page) > 0
    BY <1>2, <1>3, <2>1, <2>2
  <2>3. Len(<<>>) = 0
    OBVIOUS
  <2> QED BY <2>2, <2>3
<1>6. Len(page) = n \/ Len(page) >= Len(o) - off
  BY <1>1, <1>3
<1>7. ASSUME NEW i \in 1..Len(o), i > off, i =< off + n
      PROVE  o[i] \in ToSet(page)
  <2>1. i - off \in 1..(last - (off + 1) + 1) /\ i - off \in 1..Len(page)
    BY <1>1, <1>3, <1>7
  <2>2. page[i - off] = o[i]
    <3>1. page[i - off] = o[(off + 1) + (i - off) - 1]
      BY <1>3, <2>1
    <3>2. (off + 1) + (i - off) - 1 = i
      OBVIOUS
    <3> QED BY <3>1, <3>2
  <2>3. DOMAIN page = 1..Len(page)
    BY <1>3
  <2> QED BY <2>1, <2>2, <2>3 DEF ToSet
<1>8. /\ page \in Seq(S)
      /\ Len(o) =< off => page = <<>>
      /\ Len(o) > off => page # <<>>
      /\ Len(page) = n \/ Len(page) >= Len(o) - off
      /\ \A i \in 1..Len(o) : i > off /\ i =< off + n => o[i] \in ToSet(page)
  BY <1>3, <1>4, <1>5, <1>6, <1>7
<1> QED BY <1>8 DEF page, last


\* An order of finitely many rows is a sequence of all of them.  If no instants
\* are tied, a row's place in it is told by the rows that are above it.
LEMMA Rank ==
  ASSUME NEW table, NEW n \in Nat, DOMAIN table = 1..n, \A i \in 1..n : table[i].at \in Nat,
         NEW S \in SUBSET (1..n), NEW o \in Orders(table, S)
  PROVE  /\ IsFiniteSet(S)
         /\ o \in Seq(S) /\ Len(o) = Cardinality(S)
         /\ \A x \in S : \E i \in 1..Len(o) :
               /\ o[i] = x
               /\ ~TiedInstants(table) => Cardinality(Above(table, S, x)) = i - 1
<1>1. IsFiniteSet(S) /\ Cardinality(S) \in Nat
  <2>1. IsFiniteSet(1..n)
    BY FS_Interval
  <2>2. IsFiniteSet(S)
    BY <2>1, FS_Subset
  <2> QED BY <2>2, FS_CardinalityType
<1> DEFINE c == Cardinality(S)
<1>2. /\ o \in [1..c -> S]
      /\ \A i, j \in 1..c : i # j => o[i] # o[j]
      /\ \A i, j \in 1..c : i < j => table[o[i]].at >= table[o[j]].at
  BY DEF Orders, SetToSeqs
<1> HIDE DEF c
<1>3. c \in Nat /\ o \in Seq(S) /\ Len(o) = c
  BY <1>1, <1>2 DEF c
<1>4. o \in Surjection(1..c, S)
  <2>1. o \in Injection(1..c, S)
    BY <1>2 DEF Injection, IsInjective
  <2>2. Cardinality(1..c) = c
    BY <1>3, FS_Interval
  <2> QED BY <1>1, <2>1, <2>2, FS_Injection DEF c
<1>5. ASSUME NEW x \in S
      PROVE  \E i \in 1..c : /\ o[i] = x
                             /\ ~TiedInstants(table) => Cardinality(Above(table, S, x)) = i - 1
  <2>1. PICK i \in 1..c : o[i] = x
    BY <1>4 DEF Surjection
  <2>2. ASSUME ~TiedInstants(table) PROVE Cardinality(Above(table, S, x)) = i - 1
    <3> DEFINE f == [j \in 1..(i - 1) |-> o[j]]
    <3>1. \A j, k \in 1..c : j < k => table[o[j]].at > table[o[k]].at
      <4> SUFFICES ASSUME NEW j \in 1..c, NEW k \in 1..c, j < k
                   PROVE  table[o[j]].at > table[o[k]].at
        OBVIOUS
      <4>1. o[j] \in 1..n /\ o[k] \in 1..n /\ o[j] # o[k]
        <5>1. o[j] \in S /\ o[k] \in S
          BY <1>2
        <5>2. j # k
          BY <1>3
        <5> QED BY <1>2, <5>1, <5>2
      <4>2. table[o[j]].at # table[o[k]].at
        BY <2>2, <4>1 DEF TiedInstants
      <4>3. table[o[j]].at >= table[o[k]].at
        BY <1>2
      <4>4. table[o[j]].at \in Nat /\ table[o[k]].at \in Nat
        BY <4>1
      <4> QED BY <4>2, <4>3, <4>4
    <3>2. \A j \in 1..c : table[o[j]].at > table[x].at <=> j < i
      <4> SUFFICES ASSUME NEW j \in 1..c PROVE table[o[j]].at > table[x].at <=> j < i
        OBVIOUS
      <4>1. j < i \/ j = i \/ i < j
        OBVIOUS
      <4>2. table[o[j]].at \in Nat /\ table[x].at \in Nat
        BY <1>2, <1>3
      <4>3. j < i => table[o[j]].at > table[x].at
        BY <2>1, <3>1
      <4>4. i < j => table[x].at > table[o[j]].at
        BY <2>1, <3>1
      <4> QED BY <2>1, <4>1, <4>2, <4>3, <4>4
    <3>3. \A y \in S : \E j \in 1..c : o[j] = y
      BY <1>4 DEF Surjection
    <3>4. f \in [1..(i - 1) -> Above(table, S, x)]
      BY <1>2, <1>3, <3>2 DEF Above
    <3>5. \A y \in Above(table, S, x) : \E j \in 1..(i - 1) : f[j] = y
      <4> SUFFICES ASSUME NEW y \in Above(table, S, x) PROVE \E j \in 1..(i - 1) : f[j] = y
        OBVIOUS
      <4>1. y \in S /\ table[y].at > table[x].at
        BY DEF Above
      <4>2. PICK j \in 1..c : o[j] = y
        BY <3>3, <4>1
      <4>3. table[o[j]].at > table[x].at
        BY <4>1, <4>2
      <4>4. j < i
        BY <3>2, <4>3
      <4>5. j \in 1..(i - 1)
        BY <1>3, <4>4
      <4> QED BY <4>2, <4>5
    <3>6. \A j, k \in 1..(i - 1) : f[j] = f[k] => j = k
      BY <1>2, <1>3
    <3>7. f \in Bijection(1..(i - 1), Above(table, S, x))
      <4> HIDE DEF f
      <4> QED BY <3>4, <3>5, <3>6 DEF Bijection, Injection, Surjection, IsInjective
    <3>8. ExistsBijection(1..(i - 1), Above(table, S, x)) /\ i - 1 \in Nat
      BY <1>3, <3>7 DEF ExistsBijection
    <3> QED BY <3>8, FS_CountingElements
  <2> QED BY <2>1, <2>2
<1> QED BY <1>1, <1>3, <1>5 DEF c

Table(t) == Len(t) \in Nat /\ DOMAIN t = 1..Len(t) /\ \A i \in 1..Len(t) : t[i].at \in Nat

LEMMA TablesTyped ==
  ASSUME NEW t \in Seq(BadgeRows) \cup Seq(LogRows)
  PROVE  Table(t)
<1>1. Len(t) \in Nat /\ DOMAIN t = 1..Len(t) /\ \A i \in 1..Len(t) : t[i] \in BadgeRows \cup LogRows
  OBVIOUS
<1> QED BY <1>1 DEF Table, BadgeRows, LogRows

LEMMA MatchingRows ==
  ASSUME NEW t, Table(t), NEW status
  PROVE  /\ Matching(t, status) \subseteq 1..Len(t) /\ IsFiniteSet(Matching(t, status))
         /\ Cardinality(Matching(t, status)) \in Nat /\ Cardinality(Matching(t, status)) =< Len(t)
         /\ status = None => Cardinality(Matching(t, status)) = Len(t)
<1>1. /\ Matching(t, status) \subseteq 1..Len(t)
      /\ status = None => Matching(t, status) = 1..Len(t)
  BY DEF Matching, Table
<1>2. IsFiniteSet(1..Len(t)) /\ Cardinality(1..Len(t)) = Len(t)
  <2> DEFINE m == Len(t)
  <2>1. m \in Nat
    BY DEF Table
  <2> HIDE DEF m
  <2>2. IsFiniteSet(1..m) /\ Cardinality(1..m) = IF 1 =< m THEN m - 1 + 1 ELSE 0
    BY <2>1, FS_Interval
  <2>3. Cardinality(1..m) = m
    BY <2>1, <2>2
  <2> QED BY <2>2, <2>3 DEF m
<1>3. IsFiniteSet(Matching(t, status)) /\ Cardinality(Matching(t, status)) =< Len(t)
  BY <1>1, <1>2, FS_Subset
<1> QED BY <1>1, <1>2, <1>3, FS_CardinalityType

\* What may happen to a table between two of a reader's queries.
RowsStay(t, u) ==
    /\ Len(t) =< Len(u)
    /\ \A i \in 1..Len(t) :
          /\ u[i].at = t[i].at
          /\ u[i].status = t[i].status \/ (t[i].status = "active" /\ u[i].status = "revoked")

LEMMA MatchingGrows ==
  ASSUME NEW t, NEW u, Table(t), Table(u), RowsStay(t, u), NEW status,
         \A i \in 1..Len(t) : status = None \/ t[i].status # status \/ u[i].status = status
  PROVE  /\ Matching(t, status) \subseteq Matching(u, status)
         /\ ~TiedInstants(u) => ~TiedInstants(t)
         /\ \A x \in Matching(t, status) :
               LET before == Cardinality(Above(t, Matching(t, status), x))
                   after == Cardinality(Above(u, Matching(u, status), x))
               IN  before \in Nat /\ after \in Nat /\ before =< after
<1>1. 1..Len(t) \subseteq 1..Len(u)
  BY DEF Table, RowsStay
<1>2. Matching(t, status) \subseteq Matching(u, status)
  BY <1>1 DEF Matching, Table
<1>3. ~TiedInstants(u) => ~TiedInstants(t)
  BY <1>1 DEF TiedInstants, Table, RowsStay
<1>4. ASSUME NEW x \in Matching(t, status)
      PROVE  LET before == Cardinality(Above(t, Matching(t, status), x))
                 after == Cardinality(Above(u, Matching(u, status), x))
             IN  before \in Nat /\ after \in Nat /\ before =< after
  <2> DEFINE A == Above(t, Matching(t, status), x)
             B == Above(u, Matching(u, status), x)
  <2>1. IsFiniteSet(B)
    <3>1. IsFiniteSet(Matching(u, status)) /\ B \subseteq Matching(u, status)
      BY MatchingRows DEF Above
    <3> QED BY <3>1, FS_Subset
  <2>2. A \subseteq B
    <3>1. \A y \in Matching(t, status) : u[y].at = t[y].at
      BY MatchingRows DEF RowsStay
    <3> QED BY <1>2, <3>1 DEF Above
  <2> HIDE DEF A, B
  <2>3. IsFiniteSet(A) /\ Cardinality(A) =< Cardinality(B)
    BY <2>1, <2>2, FS_Subset
  <2>4. Cardinality(A) \in Nat /\ Cardinality(B) \in Nat
    BY <2>1, <2>3, FS_CardinalityType
  <2> QED BY <2>3, <2>4 DEF A, B
<1> QED BY <1>2, <1>3, <1>4

\* A step is one of a reader, or leaves the rows where they are.
LEMMA TablesStep ==
  ASSUME IInv, [Next]_vars
  PROVE  \/ UNCHANGED tables /\ \E r \in Readers : Reads(r)
         \/ reader' = reader /\ RowsStay(badges, badges') /\ RowsStay(logs, logs')
<1> DEFINE stay == RowsStay(badges, badges') /\ RowsStay(logs, logs')
<1>0. Table(badges) /\ Table(logs)
  BY TablesTyped DEF IInv, Typed
<1>1. ASSUME UNCHANGED tables PROVE stay
  <2>1. badges' = badges /\ logs' = logs
    BY <1>1 DEF tables
  <2> QED BY <1>0, <2>1 DEF RowsStay, Table
<1>2. ASSUME NEW q \in Jobs, CreateBadge(q) PROVE stay
  <2>1. /\ logs' = logs /\ Len(badges') = Len(badges) + 1
        /\ \A i \in 1..Len(badges) : badges'[i] = badges[i]
    BY <1>2, BadgeAdded DEF IInv
  <2> QED BY <1>0, <2>1 DEF RowsStay, Table
<1>3. ASSUME NEW q \in Jobs, NEW text \in Texts \cup {None, Torn}, CreateVerificationLog(q, text) PROVE stay
  <2>1. /\ badges' = badges /\ Len(logs') = Len(logs) + 1
        /\ \A i \in 1..Len(logs) : logs'[i] = logs[i]
    BY <1>3, LogAdded DEF IInv
  <2> QED BY <1>0, <2>1 DEF RowsStay, Table
<1>4. \A q \in Jobs : job[q].says \in Texts \cup {None, Torn} /\ job[q].read \in Texts \cup {None, Torn}
  <2>1. \A q \in Jobs : job[q] \in JobRecords
    BY DEF IInv, Typed
  <2> QED BY <2>1 DEF JobRecords
<1>5. ASSUME NEW i \in DOMAIN badges, RevokeBadge(i) PROVE stay
  <2>1. badges' = [badges EXCEPT ![i].status = "revoked"] /\ logs' = logs /\ badges[i].status = "active"
    BY <1>5 DEF RevokeBadge, UpdateBadgeStatus
  <2>2. badges \in Seq(BadgeRows)
    BY DEF IInv, Typed
  <2>3. Len(badges') = Len(badges)
    BY <2>1, <2>2
  <2>4. ASSUME NEW k \in 1..Len(badges)
        PROVE  /\ badges'[k].at = badges[k].at
               /\ \/ badges'[k].status = badges[k].status
                  \/ badges[k].status = "active" /\ badges'[k].status = "revoked"
    <3>1. CASE k = i
      <4>1. badges'[k] = [badges[k] EXCEPT !.status = "revoked"] /\ badges[k] \in BadgeRows
        BY <2>1, <2>2, <3>1
      <4> QED BY <2>1, <3>1, <4>1 DEF BadgeRows
    <3>2. CASE k # i
      BY <2>1, <2>2, <3>2
    <3> QED BY <3>1, <3>2
  <2> QED BY <1>0, <2>1, <2>3, <2>4 DEF RowsStay, Table
<1> HIDE DEF stay
<1>6. ASSUME NEW q \in Jobs, Handles(q) PROVE stay
  <2>1. CASE \E text \in Texts, b \in Buffers : \/ IssueBadge(q, text, b) \/ VerifyBadge(q, text, b)
                                               \/ BadRequest(q, text, b) \/ VerifyBadgeSync(q, text, b)
    <3>1. UNCHANGED tables
      BY <2>1 DEF IssueBadge, VerifyBadge, BadRequest, VerifyBadgeSync, Arrive
    <3> QED BY <1>1, <3>1
  <2>2. CASE SyncAnswers(q)
    BY <1>1, <1>3, <1>4, <2>2 DEF SyncAnswers
  <2>3. CASE PoolAnswers(q) \/ TimesOut(q)
    BY <1>1, <2>3 DEF PoolAnswers, TimesOut
  <2> QED BY <1>6, <2>1, <2>2, <2>3 DEF Handles
<1>7. ASSUME NEW q \in Jobs, Processes(q) PROVE stay
  <2>1. CASE Begin(q)
    BY <1>1, <2>1 DEF Begin
  <2>2. CASE Save(q)
    BY <1>1, <1>2, <1>3, <1>4, <2>2 DEF Save, SaveRow
  <2> QED BY <1>7, <2>1, <2>2 DEF Processes
<1>8. ASSUME NEW r \in Readers, Reads(r) PROVE UNCHANGED tables
  BY <1>8 DEF Reads, FirstPage, NextPage, ReadPage, NegativeOffset, QueryFails
<1>9. CASE \E q \in Jobs : (Handles(q) \/ Processes(q)) /\ UNCHANGED reader
  BY <1>6, <1>7, <1>9 DEF stay
<1>10. CASE Serve /\ UNCHANGED <<tables, reader, requestVars>>
  BY <1>1, <1>10 DEF stay
<1>11. CASE \E r \in Readers : ~failed /\ Reads(r) /\ UNCHANGED <<requestVars, jsVars>>
  BY <1>8, <1>11
<1>12. CASE \E i \in DOMAIN badges : RevokeBadge(i)
  <2>1. reader' = reader
    BY <1>12 DEF RevokeBadge
  <2> QED BY <1>5, <1>12, <2>1 DEF stay
<1>13. CASE GetMissingBadge \/ UNCHANGED vars
  <2>1. UNCHANGED tables /\ reader' = reader
    BY <1>13 DEF GetMissingBadge, vars
  <2> QED BY <1>1, <2>1 DEF stay
<1> QED BY <1>9, <1>10, <1>11, <1>12, <1>13 DEF Next

\* Rows that are added or revoked do not reach what a reader is owed.
LEMMA ReadersStay ==
  ASSUME Typed, Typed', ListInv, reader' = reader, RowsStay(badges, badges'), RowsStay(logs, logs')
  PROVE  ListInv'
<1> SUFFICES ASSUME NEW r \in Readers
             PROVE  ReaderKeeps(reader[r], TableOf(reader[r].list))'
  BY DEF ListInv
<1> DEFINE a == reader[r]
           t == TableOf(a.list)
           u == TableOf(a.list)'
<1>1. a \in ReaderRecords /\ ReaderKeeps(a, t) /\ a' = a
  BY DEF ListInv
<1>0. Table(badges) /\ Table(logs) /\ Table(badges') /\ Table(logs')
  BY TablesTyped DEF Typed
<1>2. Table(t) /\ Table(u) /\ RowsStay(t, u)
  BY <1>0 DEF TableOf
<1>3. Revoked => Revoked'
  BY <1>0 DEF Revoked, RowsStay, Table
<1>4. ASSUME ~(a.status = "active" /\ Revoked')
      PROVE  \A i \in 1..Len(t) : a.status = None \/ t[i].status # a.status \/ u[i].status = a.status
  <2>1. CASE a.list = "verifications"
    BY <1>1, <2>1 DEF ReaderKeeps, AsksProperly
  <2>2. CASE a.list # "verifications"
    <3>1. t = badges /\ u = badges'
      BY <2>2 DEF TableOf
    <3>2. Table(badges) /\ Table(badges')
      BY <1>2, <3>1
    <3> SUFFICES ASSUME NEW i \in 1..Len(badges), badges[i].status = a.status, badges'[i].status # a.status
                 PROVE  FALSE
      BY <3>1
    <3>3. badges[i].status = "active" /\ badges'[i].status = "revoked" /\ i \in DOMAIN badges'
      BY <3>2 DEF RowsStay, Table
    <3> QED BY <1>4, <3>3 DEF Revoked
  <2> QED BY <2>1, <2>2
<1>5. Len(t) \in Nat /\ Len(u) \in Nat /\ Len(t) =< Len(u)
  BY <1>2 DEF Table, RowsStay
<1>6. AsksProperly(a) /\ PageIsFull(a, u)
  <2>1. Before(a) \in Nat /\ a.total \in Nat /\ MaxInt \in Nat
    BY <1>1, Products, RepositoryAssumption DEF ReaderRecords, Before
  <2> HIDE DEF t, u
  <2> QED BY <1>1, <1>5, <2>1 DEF ReaderKeeps, PageIsFull
<1>7. ASSUME a.pc \in {"counted", "served"}, a.owed # {}, ~TiedInstants(u), ~(a.status = "active" /\ Revoked')
      PROVE  OwedIsBelow(a, u, Matching(u, a.status))
  <2> DEFINE S == Matching(t, a.status)
             T == Matching(u, a.status)
  <2> HIDE DEF t, u, S, T
  <2>1. /\ S \subseteq T /\ ~TiedInstants(t)
        /\ \A x \in S : LET before == Cardinality(Above(t, S, x))
                            after == Cardinality(Above(u, T, x))
                        IN  before \in Nat /\ after \in Nat /\ before =< after
    BY <1>2, <1>4, <1>7, MatchingGrows DEF S, T
  <2>2. OwedIsBelow(a, t, S)
    BY <1>1, <1>3, <1>7, <2>1 DEF ReaderKeeps, Walks, S
  <2>3. Passed(a) \in Nat
    BY <1>1, Products DEF ReaderRecords, Before, Passed
  <2>4. ASSUME NEW x \in a.owed \ a.seen
        PROVE  Cardinality(Above(u, T, x)) >= Passed(a)
    <3>1. x \in S /\ Cardinality(Above(t, S, x)) >= Passed(a)
      BY <2>2 DEF OwedIsBelow
    <3> QED BY <2>1, <2>3, <3>1
  <2> QED BY <2>1, <2>2, <2>4 DEF OwedIsBelow, T
<1>8. u = TableOf(reader[r].list)'
  OBVIOUS
<1> HIDE DEF t, u
<1>9. /\ AsksProperly(a)
      /\ PageIsFull(a, u)
      /\ (/\ a.pc \in {"counted", "served"} /\ a.owed # {} /\ ~TiedInstants(u)
          /\ ~(a.status = "active" /\ Revoked')) => OwedIsBelow(a, u, Matching(u, a.status))
  BY <1>6, <1>7
<1> QED BY <1>1, <1>8, <1>9 DEF ReaderKeeps, Walks

-------------------------------------------------------------------------------
(* The steps of a reader.                                                  *)

LEMMA ReaderChanges ==
  ASSUME ListInv, UNCHANGED tables, NEW r \in Readers, NEW b \in ReaderRecords,
         ReaderKeeps(b, TableOf(b.list)), reader' = [reader EXCEPT ![r] = b]
  PROVE  ListInv'
<1>1. reader' \in [Readers -> ReaderRecords] /\ badges' = badges /\ logs' = logs
  BY DEF ListInv, tables
<1> SUFFICES ASSUME NEW x \in Readers
             PROVE  ReaderKeeps(reader[x], TableOf(reader[x].list))'
  BY <1>1 DEF ListInv
<1>2. PICK c : c = reader'[x] /\ ReaderKeeps(c, TableOf(c.list))
  BY DEF ListInv
<1>3. TableOf(reader[x].list)' = TableOf(c.list)
  BY <1>1, <1>2 DEF TableOf
<1> QED BY <1>1, <1>2, <1>3 DEF ReaderKeeps, Walks, Revoked

\* A listing that is refused, or that failed, is not heard of again.
LEMMA GivenUp ==
  ASSUME ListInv, UNCHANGED tables, NEW r \in Readers, NEW pc \in {"rejected", "failed"},
         reader' = [reader EXCEPT ![r] = [Idle EXCEPT !.pc = pc]]
  PROVE  ListInv'
<1> DEFINE b == [Idle EXCEPT !.pc = pc]
<1>1. 1 \in 1..MaxPerPage
  BY RepositoryAssumption
<1>2. b \in ReaderRecords /\ b.pc = pc /\ b.status = None /\ b.owed = {}
  <2>1. <<>> \in Seq(Nat) /\ 1 \in Nat \ {0} /\ 0 \in Nat /\ {} \in SUBSET Nat /\ None \in Filters
    BY DEF Filters
  <2>2. Idle \in ReaderRecords /\ Idle.status = None /\ Idle.owed = {}
    BY <1>1, <2>1 DEF Idle, ReaderRecords
  <2> QED BY <2>2 DEF ReaderRecords
<1> HIDE DEF b
<1>3. ReaderKeeps(b, TableOf(b.list))
  BY <1>2 DEF ReaderKeeps, AsksProperly, PageIsFull, Walks
<1>4. reader' = [reader EXCEPT ![r] = b]
  BY DEF b
<1> QED BY <1>2, <1>3, <1>4, ReaderChanges

LEMMA Normal ==
  ASSUME NEW page \in Int, NEW perPage \in Int
  PROVE  /\ NormalPage(page) \in Nat \ {0} /\ (page \in Nat \ {0} => NormalPage(page) = page)
         /\ NormalPerPage(perPage) \in 1..MaxPerPage
         /\ perPage \in 1..MaxPerPage => NormalPerPage(perPage) = perPage
BY RepositoryAssumption DEF NormalPage, NormalPerPage

\* A walk begins, or goes on with the next page.
LEMMA CountKeeps ==
  ASSUME Typed, ListInv, UNCHANGED tables, NEW r \in Readers,
         NEW list \in {"badges", "issues", "verifications"}, NEW status \in Filters,
         NEW p \in Nat \ {0}, NEW n \in 1..MaxPerPage, Count(r, list, status, p, n),
         list = "verifications" => status = None,
         \/ reader[r].owed = {}
         \/ /\ reader[r].pc = "served" /\ list = reader[r].list /\ status = reader[r].status
            /\ p = reader[r].page + 1 /\ n = reader[r].perPage
  PROVE  ListInv'
<1> DEFINE a == reader[r]
           t == TableOf(list)
           S == Matching(t, status)
           c == Cardinality(S)
           owed == IF p = 1 THEN S ELSE a.owed
           b == [a EXCEPT !.pc = "counted", !.list = list, !.status = status, !.page = p,
                          !.perPage = n, !.total = c, !.owed = owed]
<1>1. a \in ReaderRecords /\ ReaderKeeps(a, TableOf(a.list)) /\ reader' = [reader EXCEPT ![r] = b]
  <2>1. reader' = [reader EXCEPT ![r] = b]
    BY DEF Count
  <2> QED BY <2>1 DEF ListInv
<1>2. Table(t)
  BY TablesTyped DEF Typed, TableOf
<1>3. /\ Len(t) \in Nat /\ S \in SUBSET Nat /\ IsFiniteSet(S) /\ c \in Nat /\ c =< Len(t)
  <2>1. Len(t) \in Nat
    BY <1>2 DEF Table
  <2> HIDE DEF t
  <2>2. S \subseteq 1..Len(t) /\ IsFiniteSet(S) /\ c \in Nat /\ c =< Len(t)
    BY <1>2, MatchingRows
  <2> QED BY <2>1, <2>2
<1> HIDE DEF S, c
<1>4. owed \in SUBSET Nat
  BY <1>1, <1>3 DEF ReaderRecords
<1> HIDE DEF owed
<1>5. /\ b \in ReaderRecords
      /\ b.pc = "counted" /\ b.list = list /\ b.status = status /\ b.page = p /\ b.perPage = n
      /\ b.total = c /\ b.owed = owed /\ b.seen = a.seen
  BY <1>1, <1>3, <1>4 DEF ReaderRecords
<1> HIDE DEF b
<1>6. AsksProperly(b) /\ PageIsFull(b, t)
  BY <1>3, <1>5 DEF AsksProperly, PageIsFull
<1>7. ASSUME Walks(b, t)
      PROVE  OwedIsBelow(b, t, S)
  <2>0. /\ n \in Nat \ {0} /\ MaxInt \in Nat /\ Before(b) = (p - 1) * n
        /\ Passed(b) = Before(b) /\ (p - 1) * n \in Nat
    <3>1. n \in Nat \ {0} /\ MaxInt \in Nat
      BY RepositoryAssumption
    <3> QED BY <1>5, <3>1, Products DEF Before, Passed
  <2>1. CASE p = 1
    <3>1. (p - 1) * n = 0 /\ owed = S
      BY <2>0, <2>1, Products DEF owed
    <3>2. ASSUME NEW x \in S PROVE Cardinality(Above(t, S, x)) \in Nat
      <4>1. Above(t, S, x) \subseteq S
        BY DEF Above
      <4> QED BY <1>3, <4>1, FS_Subset, FS_CardinalityType
    <3>3. Before(b) = 0 /\ Passed(b) = 0
      BY <2>0, <3>1
    <3>4. \A x \in S : Cardinality(Above(t, S, x)) >= 0
      BY <3>2
    <3> HIDE DEF t
    <3> QED BY <1>5, <2>0, <3>1, <3>3, <3>4 DEF OwedIsBelow
  <2>2. CASE p # 1
    <3>1. owed = a.owed /\ a.owed # {}
      BY <1>5, <1>7, <2>2 DEF owed, Walks
    <3>2. /\ a.pc = "served" /\ list = a.list /\ status = a.status /\ p = a.page + 1 /\ n = a.perPage
      BY <3>1
    <3>3. Walks(a, t)
      BY <1>5, <1>7, <3>1, <3>2 DEF Walks
    <3>4. OwedIsBelow(a, t, S)
      BY <1>1, <3>2, <3>3 DEF ReaderKeeps, S
    <3>5. a.page \in Nat \ {0}
      BY <1>1 DEF ReaderRecords
    <3>6. /\ (p - 1) * n = (a.page - 1) * n + n /\ (a.page - 1) * n \in Nat
          /\ Before(a) = (a.page - 1) * n
      <4>1. a.page * n = (a.page - 1) * n + n /\ (a.page - 1) * n \in Nat
        BY <2>0, <3>5, Products
      <4>2. p - 1 = a.page
        BY <3>2, <3>5
      <4> QED BY <3>2, <4>1, <4>2 DEF Before
    <3>7. Before(a) =< MaxInt /\ Passed(a) = Before(a) + n
      <4>1. Before(a) =< MaxInt + 0
        BY <3>2, <3>4 DEF OwedIsBelow
      <4> QED BY <2>0, <3>2, <3>6, <4>1 DEF Passed
    <3>8. Before(b) = Before(a) + n /\ Passed(b) = Passed(a) /\ Before(b) =< MaxInt + n
      BY <2>0, <3>6, <3>7
    <3> HIDE DEF t
    <3> QED BY <1>5, <3>1, <3>4, <3>8 DEF OwedIsBelow
  <2> QED BY <2>1, <2>2
<1>8. ReaderKeeps(b, TableOf(b.list))
  BY <1>5, <1>6, <1>7 DEF ReaderKeeps, S
<1> HIDE DEF t
<1> QED BY <1>1, <1>5, <1>8, ReaderChanges

\* The page is read: what is owed was read before, is on it, or is below it.
LEMMA ReadKeeps ==
  ASSUME Typed, ListInv, NEW r \in Readers, ReadPage(r)
  PROVE  ListInv'
<1> DEFINE a == reader[r]
           t == TableOf(a.list)
           S == Matching(t, a.status)
           n == a.perPage
           before == Before(a)
           off == Offset(a.page, n)
<1>1. a \in ReaderRecords /\ ReaderKeeps(a, t) /\ a.pc = "counted" /\ off >= 0 /\ UNCHANGED tables
  BY DEF ListInv, ReadPage
<1>2. PICK o \in Orders(t, S) :
         LET p == SubSeq(o, off + 1, Min({off + n, Len(o)}))
         IN  reader' = [reader EXCEPT ![r] =
                [a EXCEPT !.pc = "served", !.items = p, !.seen = a.seen \cup ToSet(p)]]
  BY DEF ReadPage, Pages
<1> DEFINE p == SubSeq(o, off + 1, Min({off + n, Len(o)}))
           b == [a EXCEPT !.pc = "served", !.items = p, !.seen = a.seen \cup ToSet(p)]
<1>3. n \in 1..MaxPerPage /\ n \in Nat \ {0} /\ MaxInt \in Nat /\ n =< MaxInt /\ a.page \in Nat \ {0} /\ a.total \in Nat
  BY <1>1, RepositoryAssumption DEF ReaderRecords
<1>4. /\ before \in Nat /\ off \in Nat /\ off =< before
      /\ before =< MaxInt => off = before
      /\ before > MaxInt /\ before =< 2 * MaxInt + 1 => off < 0
  <2>1. before = (a.page - 1) * n /\ (a.page - 1) * n \in Nat
    BY <1>3, Products DEF Before
  <2>2. /\ Offset(a.page, n) \in Int /\ Offset(a.page, n) =< (a.page - 1) * n
        /\ (a.page - 1) * n =< MaxInt => Offset(a.page, n) = (a.page - 1) * n
        /\ (a.page - 1) * n > MaxInt /\ (a.page - 1) * n =< 2 * MaxInt + 1 => Offset(a.page, n) < 0
    <3>1. a.page \in Nat \ {0} /\ n \in Nat
      BY <1>3
    <3> HIDE DEF n
    <3> QED BY <3>1, OffsetBounds
  <2>3. off = Offset(a.page, n)
    OBVIOUS
  <2> HIDE DEF off, before
  <2> QED BY <1>1, <2>1, <2>2, <2>3
<1>5. Table(t)
  BY TablesTyped DEF Typed, TableOf
<1> HIDE DEF off, before, t
<1>6. /\ S \subseteq 1..Len(t) /\ Cardinality(S) \in Nat /\ Cardinality(S) =< Len(t) /\ Len(t) \in Nat
      /\ a.status = None => Cardinality(S) = Len(t)
  BY <1>5, MatchingRows DEF Table
<1> HIDE DEF S
<1>7. /\ o \in Seq(S) /\ Len(o) = Cardinality(S)
      /\ \A x \in S : \E i \in 1..Len(o) :
            /\ o[i] = x
            /\ ~TiedInstants(t) => Cardinality(Above(t, S, x)) = i - 1
  BY <1>5, <1>6, Rank DEF Table
<1>8. /\ p \in Seq(S)
      /\ Len(o) =< off => p = <<>>
      /\ Len(o) > off => p # <<>>
      /\ Len(p) = n \/ Len(p) >= Len(o) - off
      /\ \A i \in 1..Len(o) : i > off /\ i =< off + n => o[i] \in ToSet(p)
  BY <1>3, <1>4, <1>7, PageShape
<1> HIDE DEF p
<1>9. p \in Seq(Nat) /\ ToSet(p) \in SUBSET Nat /\ Len(p) \in Nat
  <2>1. S \subseteq Nat
    BY <1>6
  <2>2. p \in Seq(Nat)
    <3>1. p \in Seq(S)
      BY <1>8
    <3>2. Len(p) \in Nat /\ p \in [1..Len(p) -> S]
      BY <3>1
    <3>3. p \in [1..Len(p) -> Nat]
      BY <2>1, <3>2
    <3> QED BY <3>2, <3>3
  <2> QED BY <2>2 DEF ToSet
<1>10. /\ b \in ReaderRecords
       /\ b.pc = "served" /\ b.list = a.list /\ b.status = a.status /\ b.page = a.page /\ b.perPage = n
       /\ b.total = a.total /\ b.items = p /\ b.owed = a.owed /\ b.seen = a.seen \cup ToSet(p)
  <2>1. a.seen \cup ToSet(p) \in SUBSET Nat
    BY <1>1, <1>9 DEF ReaderRecords
  <2> QED BY <1>1, <1>9, <2>1 DEF ReaderRecords
<1>11. reader' = [reader EXCEPT ![r] = b]
  BY <1>2 DEF p
<1> HIDE DEF b
<1>12. Before(b) = before
  BY <1>10 DEF Before, before
<1>13. AsksProperly(b)
  BY <1>1, <1>10 DEF ReaderKeeps, AsksProperly
<1>14. PageIsFull(b, t)
  <2>1. a.status = None => a.total =< Len(o) /\ Len(o) = Len(t)
    BY <1>1, <1>6, <1>7 DEF ReaderKeeps, PageIsFull
  <2>2. p # <<>> => Len(o) > off
    BY <1>4, <1>6, <1>7, <1>8
  <2>3. p # <<>> => before < Len(t) \/ before > MaxInt
    BY <1>3, <1>4, <1>6, <1>7, <2>2
  <2>4. a.status = None /\ a.total > before => Len(p) = n \/ Len(p) >= a.total - before
    BY <1>3, <1>4, <1>6, <1>7, <1>8, <1>9, <2>1
  <2>5. a.status = None => a.total =< Len(t)
    BY <2>1
  <2> QED BY <1>10, <1>12, <2>3, <2>4, <2>5 DEF PageIsFull
<1>15. ASSUME Walks(b, t)
       PROVE  OwedIsBelow(b, t, S)
  <2>1. ~TiedInstants(t) /\ Walks(a, t)
    BY <1>1, <1>10, <1>15 DEF Walks
  <2>2. OwedIsBelow(a, t, S)
    BY <1>1, <2>1 DEF ReaderKeeps, S
  <2>3. before =< MaxInt /\ off = before
    <3>1. before =< MaxInt + n
      BY <1>1, <2>2 DEF OwedIsBelow, before
    <3> QED BY <1>3, <1>4, <3>1
  <2>4. ASSUME NEW x \in a.owed \ b.seen
        PROVE  x \in S /\ Len(o) > off /\ Cardinality(Above(t, S, x)) >= before + n
    <3>1. x \in S /\ x \notin a.seen /\ x \notin ToSet(p)
      BY <1>10, <2>2 DEF OwedIsBelow
    <3>2. PICK i \in 1..Len(o) : o[i] = x /\ Cardinality(Above(t, S, x)) = i - 1
      BY <1>7, <2>1, <3>1
    <3>3. i - 1 >= before
      <4>1. Cardinality(Above(t, S, x)) >= Passed(a) /\ Passed(a) = before + 0
        BY <1>1, <2>2, <3>1 DEF OwedIsBelow, Passed, before
      <4> QED BY <1>4, <3>2, <4>1
    <3>4. ~(i > off /\ i =< off + n)
      BY <1>8, <3>1, <3>2
    <3>5. Len(o) \in Nat /\ i \in Nat
      BY <1>6, <1>7
    <3>6. i - 1 >= before + n /\ Len(o) > off
      BY <1>3, <1>4, <2>3, <3>3, <3>4, <3>5
    <3> QED BY <3>1, <3>2, <3>6
  <2>5. p = <<>> => a.owed \subseteq b.seen
    BY <1>8, <2>4
  <2>6. Before(b) =< MaxInt + 0 /\ Passed(b) = before + n
    BY <1>3, <1>4, <1>10, <1>12, <2>3 DEF Passed
  <2> QED BY <1>10, <2>2, <2>4, <2>5, <2>6 DEF OwedIsBelow
<1>16. ReaderKeeps(b, TableOf(b.list))
  BY <1>10, <1>13, <1>14, <1>15 DEF ReaderKeeps, S, t
<1> QED BY <1>1, <1>10, <1>11, <1>16, ReaderChanges

LEMMA ReadsKeep ==
  ASSUME Typed, ListInv, NEW r \in Readers, Reads(r)
  PROVE  ListInv'
<1> DEFINE a == reader[r]
<1>1. a \in ReaderRecords /\ AsksProperly(a)
  BY DEF ListInv, ReaderKeeps
<1>2. CASE FirstPage(r)
  <2>1. a.pc = "idle" /\ a.owed = {} /\ UNCHANGED tables
    BY <1>1, <1>2 DEF FirstPage, AsksProperly
  <2>2. PICK page \in AskedPages, perPage \in AskedPerPages :
          \/ \E status \in Filters :
               ListBadges(r, status, page, perPage) \/ IssueHistory(r, status, page, perPage)
          \/ VerificationHistory(r, page, perPage)
    BY <1>2 DEF FirstPage
  <2>3. NormalPage(page) \in Nat \ {0} /\ NormalPerPage(perPage) \in 1..MaxPerPage
    BY HistoryAssumption, Normal
  <2>4. ASSUME NEW status \in Filters, NEW list \in {"badges", "issues", "verifications"},
               Count(r, list, status, NormalPage(page), NormalPerPage(perPage)),
               list = "verifications" => status = None
        PROVE  ListInv'
    BY <2>1, <2>3, <2>4, CountKeeps
  <2>5. ASSUME NEW status \in Filters, ListBadges(r, status, page, perPage)
        PROVE  ListInv'
    <3>1. CASE status = "unknown"
      BY <2>1, <2>5, <3>1, GivenUp DEF ListBadges
    <3>2. CASE status # "unknown"
      BY <2>4, <2>5, <3>2 DEF ListBadges
    <3> QED BY <3>1, <3>2
  <2>6. ASSUME NEW status \in Filters, IssueHistory(r, status, page, perPage)
        PROVE  ListInv'
    BY <2>4, <2>6 DEF IssueHistory
  <2>7. ASSUME VerificationHistory(r, page, perPage)
        PROVE  ListInv'
    BY <2>4, <2>7 DEF VerificationHistory, Filters
  <2> QED BY <2>2, <2>5, <2>6, <2>7
<1>3. CASE NextPage(r)
  <2>1. /\ a.pc = "served" /\ UNCHANGED tables /\ a.status \in Filters
        /\ a.page \in Nat \ {0} /\ a.page + 1 \in Nat \ {0} /\ a.perPage \in 1..MaxPerPage
        /\ a.page + 1 \in Int /\ a.perPage \in Int
    BY <1>1, <1>3 DEF NextPage, ReaderRecords
  <2>2. NormalPage(a.page + 1) = a.page + 1 /\ NormalPerPage(a.perPage) = a.perPage
    BY <2>1, Normal
  <2>3. ASSUME NEW list \in {"badges", "issues", "verifications"}, list = a.list,
               Count(r, list, a.status, a.page + 1, a.perPage)
        PROVE  ListInv'
    BY <1>1, <2>1, <2>3, CountKeeps DEF AsksProperly
  <2>4. CASE a.list = "badges" /\ ListBadges(r, a.status, a.page + 1, a.perPage)
    <3>1. CASE a.status = "unknown"
      BY <2>1, <2>4, <3>1, GivenUp DEF ListBadges
    <3>2. CASE a.status # "unknown"
      BY <2>2, <2>3, <2>4, <3>2 DEF ListBadges
    <3> QED BY <3>1, <3>2
  <2>5. CASE a.list = "issues" /\ IssueHistory(r, a.status, a.page + 1, a.perPage)
    BY <2>2, <2>3, <2>5 DEF IssueHistory
  <2>6. CASE a.list = "verifications" /\ VerificationHistory(r, a.page + 1, a.perPage)
    <3>1. a.status = None
      BY <1>1, <2>6 DEF AsksProperly
    <3> QED BY <2>2, <2>3, <2>6, <3>1 DEF VerificationHistory
  <2> QED BY <1>3, <2>4, <2>5, <2>6 DEF NextPage
<1>4. CASE ReadPage(r)
  BY <1>4, ReadKeeps
<1>5. CASE NegativeOffset(r) \/ QueryFails(r)
  BY <1>5, GivenUp DEF NegativeOffset, QueryFails
<1> QED BY <1>2, <1>3, <1>4, <1>5 DEF Reads

LEMMA InitListInv == Init => ListInv
<1> SUFFICES ASSUME Init PROVE ListInv
  OBVIOUS
<1>1. PICK present : reader = [r \in Readers |-> IF r \in present THEN Idle ELSE [Idle EXCEPT !.pc = "absent"]]
  BY DEF Init, HistoryInit
<1>2. Idle \in ReaderRecords /\ Idle.pc = "idle" /\ Idle.status = None /\ Idle.owed = {}
  <2>1. <<>> \in Seq(Nat) /\ 1 \in Nat \ {0} /\ 0 \in Nat /\ {} \in SUBSET Nat /\ None \in Filters
    BY DEF Filters
  <2>2. 1 \in 1..MaxPerPage
    BY RepositoryAssumption
  <2> QED BY <2>1, <2>2 DEF Idle, ReaderRecords
<1>3. [Idle EXCEPT !.pc = "absent"] \in ReaderRecords /\ [Idle EXCEPT !.pc = "absent"].pc = "absent"
      /\ [Idle EXCEPT !.pc = "absent"].owed = {} /\ [Idle EXCEPT !.pc = "absent"].status = None
  BY <1>2 DEF ReaderRecords
<1>4. /\ reader \in [Readers -> ReaderRecords]
      /\ \A r \in Readers : reader[r].pc \notin {"counted", "served"} /\ reader[r].status = None /\ reader[r].owed = {}
  BY <1>1, <1>2, <1>3
<1> QED BY <1>4 DEF ListInv, ReaderKeeps, AsksProperly, PageIsFull, Walks

LEMMA ListInvariance == Spec => [](IInv /\ ListInv)
<1>1. Init => IInv /\ ListInv
  BY InitIInv, InitListInv
<1>2. ASSUME IInv, ListInv, [Next]_vars
      PROVE  IInv' /\ ListInv'
  <2>1. IInv'
    BY <1>2, StepInvariant
  <2>2. Typed /\ Typed'
    BY <1>2, <2>1 DEF IInv
  <2>3. CASE \E r \in Readers : Reads(r)
    BY <1>2, <2>1, <2>2, <2>3, ReadsKeep
  <2>4. CASE reader' = reader /\ RowsStay(badges, badges') /\ RowsStay(logs, logs')
    BY <1>2, <2>1, <2>2, <2>4, ReadersStay
  <2> QED BY <1>2, <2>1, <2>3, <2>4, TablesStep
<1> QED BY <1>1, <1>2, PTL DEF Spec

\* A page holds at least what the total announces for it, although both come
\* from different statements, and a page behind the last row is empty unless
\* its offset overflows.
THEOREM ApiPageKeepsPromise == Spec => []PageKeepsPromise
<1>1. IInv /\ ListInv => PageKeepsPromise
  BY DEF ListInv, ReaderKeeps, PageIsFull, PageKeepsPromise
<1> QED BY <1>1, ListInvariance, PTL

\* A client that walks from the first page to the first empty one misses a row
\* only when rows share an instant, or when it asks for active badges and some
\* are revoked.
THEOREM ApiWalkSkipsHaveCause == Spec => []WalkSkipsHaveCause
<1>1. IInv /\ ListInv => WalkSkipsHaveCause
  <2> SUFFICES ASSUME ListInv, NEW r \in Readers, reader[r].pc = "served", reader[r].items = <<>>,
                      ~(reader[r].owed \subseteq reader[r].seen), ~TiedInstants(TableOf(reader[r].list)),
                      ~(reader[r].status = "active" /\ \E i \in DOMAIN badges : badges[i].status = "revoked")
               PROVE  FALSE
    BY DEF WalkSkipsHaveCause
  <2>1. reader[r].owed # {}
    OBVIOUS
  <2> QED BY <2>1 DEF ListInv, ReaderKeeps, Walks, OwedIsBelow, Revoked
<1> QED BY <1>1, ListInvariance, PTL

===============================================================================
