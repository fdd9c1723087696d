----------------------------- MODULE BadgeService -----------------------------
(***************************************************************************)
(* The life of a badge between the database and the chain: the issue       *)
(* processor and recordOnChain (cmd/server/main.go), ReissueBadge and      *)
(* RevokeBadge (handler/credential.go), the client that sends transactions *)
(* (pkg/blockchain) and the node and contract that mine and execute them.  *)
(* The handlers, the processors and the goroutines they start interleave.  *)
(* A credential is named by the number that nextval gave it, and its hash  *)
(* by the same number, the reason of a revocation by the request that gave *)
(* it, a transaction by the goroutine that sent it.  The chain client is   *)
(* configured, which does not mean that a started process has one, and no  *)
(* one else sends transactions from its account.                           *)
(***************************************************************************)
EXTENDS Integers

CONSTANTS
    Requests,    \* requests to revoke, each with a handler and a goroutine
    None,        \* no reason, no row, not recorded
    MaxBadges,   \* bound: credentials ever numbered
    Faults       \* what may go wrong: a subset of AllFaults

Ids == 1..MaxBadges
Senders == Ids \cup Requests
AllFaults == {"db", "rpc", "crash"}

Rows == [status : {"active", "revoked"}, reason : Requests \cup {None}, anchored : BOOLEAN]
NewRow == [status |-> "active", reason |-> None, anchored |-> FALSE]

ASSUME ServiceAssumption ==
    /\ MaxBadges \in Nat \ {0}
    /\ Requests \cap Nat = {}
    /\ None \notin Requests \cup Nat \cup Rows
    /\ Faults \subseteq AllFaults

VARIABLES
    seq,         \* last value of badge_credential_seq
    rows,        \* id -> its row of badges, or None
    job,         \* id -> how far the handler or processor that made it has come
    reissue,     \* the ids made by ReissueBadge
    request,     \* request to revoke -> its handler
    ctx,         \* request to revoke -> the fiber.Ctx that its goroutine captured:
                 \* whether a request holds it, and the id in its path buffer
    client,      \* the process has a chain client: it found the node when it started
    offline,     \* history: the badges and requests a process without one handled
    sender,      \* goroutine that sends a transaction
    tx,          \* the transaction it sent, as the nodes have it
    mined,       \* transactions of the server's account that are mined: its nonce
    ledger       \* the registry: badgeHash and reason of each id

chainVars == <<tx, mined, ledger>>
senderVars == <<client, offline, sender>>
serviceVars == <<seq, rows, job, reissue, request, ctx, senderVars, chainVars>>

\* gone: another transaction with its nonce was mined, so this one never will be.
Transactions == [status : {"unsent", "pending", "ok", "reverted", "gone"}, nonce : Nat]

Ledgers == [hash : [Ids -> Ids \cup {None}], revokedFor : [Ids -> Requests \cup {None}]]

\* failed: ended with an error, which is only logged; lost: died with the process.
Active == {"spawned", "estimating", "numbering", "sending", "waiting", "storing"}
Failures == {"failed", "lost"}

Handlers == [pc : {"idle", "checked", "answering", "done", "refused", "failed"}, id : Ids]
Goroutines == [pc : {"idle", "succeeded"} \cup Active \cup Failures, id : Ids, nonce : Nat]
Idle == [pc |-> "idle", id |-> 1, nonce |-> 0]

\* initBlockchain: nil if the node does not answer at that moment, until the end
\* of the process.
Clients == IF "rpc" \in Faults THEN BOOLEAN ELSE {TRUE}

Init ==
    /\ seq = 0
    /\ rows = [id \in Ids |-> None]
    /\ job = [id \in Ids |-> "none"]
    /\ reissue = {}
    /\ request = [q \in Requests |-> [pc |-> "idle", id |-> 1]]
    /\ ctx = [q \in Requests |-> [held |-> TRUE, path |-> 1]]
    /\ client \in Clients
    /\ offline = {}
    /\ sender = [s \in Senders |-> Idle]
    /\ tx = [s \in Senders |-> [status |-> "unsent", nonce |-> 0]]
    /\ mined = 0
    /\ ledger = [hash |-> [id \in Ids |-> None], revokedFor |-> [id \in Ids |-> None]]

-------------------------------------------------------------------------------
(* Issue and reissue.                                                      *)

\* nextval, then build, sign and hash; a signing error ends the job.
NextCredential(id) ==
    /\ seq < MaxBadges
    /\ id = seq + 1
    /\ seq' = id
    /\ \E pc \in {"signed", "failed"} : job' = [job EXCEPT ![id] = pc]
    /\ UNCHANGED <<rows, request, ctx, senderVars, chainVars>>

IssueBadge(id) == NextCredential(id) /\ UNCHANGED reissue

\* Whether the old badge is revoked is not asked.
ReissueBadge(id) ==
    /\ \E old \in Ids : rows[old] # None
    /\ NextCredential(id)
    /\ reissue' = reissue \cup {id}

\* A badge that cannot be marshalled is answered with all the same: it gets no
\* row, no hash and no goroutine.  ReissueBadge answers with an error instead.
DeliverUnhashed(id) ==
    /\ job[id] = "signed"
    /\ job' = [job EXCEPT ![id] = IF id \in reissue THEN "failed" ELSE "unhashed"]
    /\ UNCHANGED <<seq, rows, reissue, request, ctx, senderVars, chainVars>>

\* saveBadgeToDB and Step 5 of ReissueBadge: an error is only noted.
SaveBadge(id) ==
    /\ job[id] = "signed"
    /\ job' = [job EXCEPT ![id] = "saved"]
    /\ \/ rows' = [rows EXCEPT ![id] = NewRow]
       \/ "db" \in Faults /\ rows' = rows
    /\ UNCHANGED <<seq, reissue, request, ctx, senderVars, chainVars>>

\* Faulty variant: the processor answers without starting recordOnChain.
DeliverOnly(id) ==
    /\ job[id] = "saved"
    /\ job' = [job EXCEPT ![id] = "done"]
    /\ UNCHANGED <<seq, rows, reissue, request, ctx, senderVars, chainVars>>

\* The processor starts recordOnChain before it answers, if the process has a
\* chain client; ReissueBadge never does.
Deliver(id) ==
    /\ job[id] = "saved"
    /\ job' = [job EXCEPT ![id] = "done"]
    /\ sender' = IF id \in reissue \/ ~client THEN sender
                 ELSE [sender EXCEPT ![id] = [pc |-> "estimating", id |-> id, nonce |-> 0]]
    /\ offline' = IF id \in reissue \/ client THEN offline ELSE offline \cup {id}
    /\ UNCHANGED <<seq, rows, reissue, request, ctx, client, chainVars>>

-------------------------------------------------------------------------------
(* RevokeBadge.                                                            *)

Revocable(id) == rows[id] # None /\ rows[id].status # "revoked"

RevokeLookup(q, id) ==
    /\ request[q].pc = "idle"
    /\ \/ /\ Revocable(id)
          /\ request' = [request EXCEPT ![q] = [pc |-> "checked", id |-> id]]
          /\ ctx' = [ctx EXCEPT ![q].path = id]
       \/ /\ ~Revocable(id) \/ "db" \in Faults
          /\ request' = [request EXCEPT ![q].pc = "refused"]
          /\ ctx' = ctx
    /\ UNCHANGED <<seq, rows, job, reissue, senderVars, chainVars>>

RevokedRow(q) == [rows[request[q].id] EXCEPT !.status = "revoked", !.reason = q]

\* Faulty variants: the row is updated and the chain left out; or the goroutine
\* is started before the row is updated.
RevokeInDatabase(q) ==
    /\ request[q].pc = "checked"
    /\ rows' = [rows EXCEPT ![request[q].id] = RevokedRow(q)]
    /\ request' = [request EXCEPT ![q].pc = "answering"]
    /\ UNCHANGED <<seq, job, reissue, ctx, senderVars, chainVars>>

RevokeOnChainFirst(q) ==
    /\ request[q].pc = "checked"
    /\ rows' \in {rows, [rows EXCEPT ![request[q].id] = RevokedRow(q)]}
    /\ request' = [request EXCEPT ![q].pc = "answering"]
    /\ sender' = IF client THEN [sender EXCEPT ![q].pc = "spawned"] ELSE sender
    /\ UNCHANGED <<seq, job, reissue, ctx, client, offline, chainVars>>

\* The UPDATE of step 3 does not look at the status again.  An error may come
\* back although the row was updated; the chain is then left alone, as it is if
\* the process has no chain client.
RevokeUpdate(q) ==
    /\ request[q].pc = "checked"
    /\ \/ /\ rows' = [rows EXCEPT ![request[q].id] = RevokedRow(q)]
          /\ request' = [request EXCEPT ![q].pc = "answering"]
          /\ sender' = IF client THEN [sender EXCEPT ![q].pc = "spawned"] ELSE sender
          /\ offline' = IF client THEN offline ELSE offline \cup {q}
       \/ /\ "db" \in Faults
          /\ rows' \in {rows, [rows EXCEPT ![request[q].id] = RevokedRow(q)]}
          /\ request' = [request EXCEPT ![q].pc = "failed"]
          /\ UNCHANGED <<sender, offline>>
    /\ UNCHANGED <<seq, job, reissue, ctx, client, chainVars>>

\* The handler returns and fiber puts its Ctx back into the pool ...
RevokeReturn(q) ==
    /\ request[q].pc = "answering"
    /\ request' = [request EXCEPT ![q].pc = "done"]
    /\ ctx' = [ctx EXCEPT ![q].held = FALSE]
    /\ UNCHANGED <<seq, rows, job, reissue, senderVars, chainVars>>

\* ... where a request with another badge in its path may take it, and with it
\* the path buffer that the strings of c.Params point into.  It matters only
\* while the goroutine has not yet packed its arguments.
CtxReused(q) ==
    /\ ~ctx[q].held
    /\ sender[q].pc = "spawned"
    /\ \E id \in Ids : ctx' = [ctx EXCEPT ![q] = [held |-> TRUE, path |-> id]]
    /\ UNCHANGED <<seq, rows, job, reissue, request, senderVars, chainVars>>

\* The goroutine evaluates c.UserContext() and credentialID when it runs.
RevokeStart(q) ==
    /\ sender[q].pc = "spawned"
    /\ ctx[q].held
    /\ sender' = [sender EXCEPT ![q] = [pc |-> "estimating", id |-> ctx[q].path, nonce |-> 0]]
    /\ UNCHANGED <<seq, rows, job, reissue, request, ctx, client, offline, chainVars>>

-------------------------------------------------------------------------------
(* The client and the node.                                                *)

Ended(s, pc) == [sender EXCEPT ![s] = [pc |-> pc, id |-> @.id, nonce |-> 0]]

Reason(s) == IF s \in Ids THEN None ELSE s
Pending == {s \in Senders : tx[s].status = "pending"}

\* Whether the contract lets the transaction of s through, and what it then does.
Accepts(l, s) ==
    IF s \in Ids THEN l.hash[sender[s].id] = None
    ELSE l.hash[sender[s].id] # None /\ l.revokedFor[sender[s].id] = None
Execute(l, s) ==
    IF ~Accepts(l, s) THEN l
    ELSE IF s \in Ids THEN [l EXCEPT !.hash[sender[s].id] = sender[s].id]
    ELSE [l EXCEPT !.revokedFor[sender[s].id] = Reason(s)]

\* Transact estimates the gas on the state the node has, with or without what is
\* in its pool; a call that would revert there is not sent.
EstimateGas(s) ==
    /\ sender[s].pc = "estimating"
    /\ \E view \in {ledger} \cup {Execute(ledger, r) : r \in Pending} :
          sender' = [sender EXCEPT ![s].pc = IF Accepts(view, s) THEN "numbering" ELSE "failed"]
    /\ UNCHANGED <<seq, rows, job, reissue, request, ctx, client, offline, chainVars>>

\* PendingNonceAt: the first nonce that neither a block nor the node's pool has
\* used; the pool may have lost what other goroutines, or other nodes, put there.
PendingNonces ==
    {mined} \cup {tx[r].nonce + 1 : r \in {r \in Pending :
        \A n \in mined..tx[r].nonce : \E p \in Pending : tx[p].nonce = n}}

GetNonce(s) ==
    /\ sender[s].pc = "numbering"
    /\ \E n \in PendingNonces :
          sender' = [sender EXCEPT ![s] = [pc |-> "sending", id |-> @.id, nonce |-> n]]
    /\ UNCHANGED <<seq, rows, job, reissue, request, ctx, client, offline, chainVars>>

\* SendTransaction: two goroutines may have read one nonce.  The node refuses a
\* nonce that was used and may refuse one that waits in its pool; or it takes the
\* transaction, which replaces that one or competes with it.  The answer may be
\* lost, or come after recordOnChain's 60 s, although the transaction was taken.
SendTransaction(s) ==
    /\ sender[s].pc = "sending"
    /\ \/ /\ sender[s].nonce >= mined
          /\ tx' = [tx EXCEPT ![s] = [status |-> "pending", nonce |-> sender[s].nonce]]
          /\ \/ sender' = Ended(s, "waiting")
             \/ ("rpc" \in Faults \/ s \in Ids) /\ sender' = Ended(s, "failed")
       \/ /\ \/ sender[s].nonce < mined
             \/ \E r \in Pending : tx[r].nonce = sender[s].nonce
          /\ sender' = Ended(s, "failed")
          /\ tx' = tx
    /\ UNCHANGED <<seq, rows, job, reissue, request, ctx, client, offline, mined, ledger>>

\* A block takes the transaction with the next nonce, or one of those that have it.
Mine(s) ==
    /\ s \in Pending
    /\ tx[s].nonce = mined
    /\ ledger' = Execute(ledger, s)
    /\ tx' = [r \in Senders |->
          IF r \in Pending /\ tx[r].nonce = mined
          THEN [tx[r] EXCEPT !.status = IF r # s THEN "gone"
                                        ELSE IF Accepts(ledger, s) THEN "ok" ELSE "reverted"]
          ELSE tx[r]]
    /\ mined' = mined + 1
    /\ UNCHANGED <<seq, rows, job, reissue, request, ctx, senderVars>>

\* Faulty variant: a receipt is a receipt.
WaitForAnyReceipt(s) ==
    /\ sender[s].pc = "waiting"
    /\ tx[s].status \in {"ok", "reverted"}
    /\ sender' = Ended(s, IF s \in Ids THEN "storing" ELSE "succeeded")
    /\ UNCHANGED <<seq, rows, job, reissue, request, ctx, client, offline, chainVars>>

\* waitForReceipt asks for the receipt of its own transaction's hash, and goes on
\* asking if the node does not answer.  Only recordOnChain has something left to do.
WaitForReceipt(s) ==
    /\ sender[s].pc = "waiting"
    /\ tx[s].status \in {"ok", "reverted"}
    /\ sender' = Ended(s, IF tx[s].status = "reverted" THEN "failed"
                          ELSE IF s \in Ids THEN "storing" ELSE "succeeded")
    /\ UNCHANGED <<seq, rows, job, reissue, request, ctx, client, offline, chainVars>>

\* Faulty variant: the row is written back as it was when the badge was issued.
StoreIssuedRow(id) ==
    /\ sender[id].pc = "storing"
    /\ sender' = Ended(id, "succeeded")
    /\ rows' = [rows EXCEPT ![id] = [NewRow EXCEPT !.anchored = TRUE]]
    /\ UNCHANGED <<seq, job, reissue, request, ctx, client, offline, chainVars>>

\* UPDATE badges SET blockchain_tx_hash: touches no row if there is none.
StoreTxHash(id) ==
    /\ sender[id].pc = "storing"
    /\ sender' = Ended(id, "succeeded")
    /\ \/ rows[id] # None /\ rows' = [rows EXCEPT ![id].anchored = TRUE]
       \/ (rows[id] = None \/ "db" \in Faults) /\ rows' = rows
    /\ UNCHANGED <<seq, job, reissue, request, ctx, client, offline, chainVars>>

\* A call to the node fails before there is a receipt to wait for.
CallFails(s) ==
    /\ "rpc" \in Faults
    /\ sender[s].pc \in {"estimating", "numbering", "sending"}
    /\ sender' = Ended(s, "failed")
    /\ UNCHANGED <<seq, rows, job, reissue, request, ctx, client, offline, chainVars>>

\* Faulty variants: the time-out is left to the single calls; or the hash that
\* RecordIssuance returns beside its error is taken for a success.
CallTimesOut(id) ==
    /\ sender[id].pc \in {"estimating", "numbering", "sending"}
    /\ sender' = Ended(id, "failed")
    /\ UNCHANGED <<seq, rows, job, reissue, request, ctx, client, offline, chainVars>>

DeadlineIgnored(id) ==
    /\ sender[id].pc \in {"estimating", "numbering", "sending", "waiting"}
    /\ sender' = Ended(id, IF sender[id].pc = "waiting" THEN "storing" ELSE "failed")
    /\ UNCHANGED <<seq, rows, job, reissue, request, ctx, client, offline, chainVars>>

\* The 60 s of recordOnChain are over; a transaction that was sent may still be
\* mined.  The goroutine of RevokeBadge has no such deadline.
DeadlinePasses(id) ==
    /\ sender[id].pc \in {"estimating", "numbering", "sending", "waiting"}
    /\ sender' = Ended(id, "failed")
    /\ UNCHANGED <<seq, rows, job, reissue, request, ctx, client, offline, chainVars>>

-------------------------------------------------------------------------------
\* The process ends and is started again: whatever was in memory is lost.
Die ==
    /\ job' = [id \in Ids |-> IF job[id] \in {"signed", "saved"} THEN "failed" ELSE job[id]]
    /\ request' = [q \in Requests |->
          IF request[q].pc \in {"checked", "answering"} THEN [request[q] EXCEPT !.pc = "failed"]
          ELSE request[q]]
    /\ sender' = [s \in Senders |->
          IF sender[s].pc \in Active THEN [pc |-> "lost", id |-> sender[s].id, nonce |-> 0]
          ELSE sender[s]]
    /\ client' \in Clients
    /\ UNCHANGED <<seq, rows, reissue, ctx, offline, chainVars>>

\* SIGTERM: main does not wait for the goroutines; or the machine stops.
Crash == "crash" \in Faults /\ Die

\* c.UserContext() on a released Ctx dereferences nil, outside any recover.
RevokePanics(q) ==
    /\ sender[q].pc = "spawned"
    /\ ~ctx[q].held
    /\ Die

-------------------------------------------------------------------------------
Issue(id) == IssueBadge(id) \/ ReissueBadge(id)
Job(id) == DeliverUnhashed(id) \/ SaveBadge(id) \/ Deliver(id)
Handler(q) == RevokeUpdate(q) \/ RevokeReturn(q)
Send(s) == EstimateGas(s) \/ GetNonce(s) \/ SendTransaction(s) \/ WaitForReceipt(s) \/ CallFails(s)
Record(id) == Send(id) \/ StoreTxHash(id) \/ DeadlinePasses(id)
Revoke(q) == RevokeStart(q) \/ RevokePanics(q) \/ Send(q)

Next ==
    \/ \E id \in Ids : Issue(id) \/ Job(id) \/ Record(id)
    \/ \E q \in Requests, id \in Ids : RevokeLookup(q, id)
    \/ \E q \in Requests : Handler(q) \/ CtxReused(q) \/ Revoke(q)
    \/ \E s \in Senders : Mine(s)
    \/ Crash

Spec == Init /\ [][Next]_serviceVars

\* Only recordOnChain is known to come to an end: it has 60 s for the chain and
\* 5 s for the database.  The other goroutines may wait for ever, as may handlers
\* in the database, and the chain need not mine what it is sent.
Fairness == \A id \in Ids : WF_serviceVars(Record(id))

FairSpec == Spec /\ Fairness

-------------------------------------------------------------------------------
TypeOK ==
    /\ seq \in 0..MaxBadges
    /\ rows \in [Ids -> Rows \cup {None}]
    /\ job \in [Ids -> {"none", "signed", "unhashed", "saved", "done", "failed"}]
    /\ reissue \subseteq Ids
    /\ request \in [Requests -> Handlers]
    /\ ctx \in [Requests -> [held : BOOLEAN, path : Ids]]
    /\ sender \in [Senders -> Goroutines]
    /\ client \in BOOLEAN
    /\ offline \subseteq Senders
    /\ tx \in [Senders -> Transactions]
    /\ mined \in Nat
    /\ ledger \in Ledgers

\* A blockchain_tx_hash in a row, and a goroutine's log of success, are true of
\* the chain: the badge is recorded, or revoked for the request's reason.
ConfirmedIsOnChain ==
    /\ \A id \in Ids : rows[id] # None =>
          (rows[id].anchored => ledger.hash[id] = id)
    /\ \A q \in Requests : sender[q].pc = "succeeded" =>
          ledger.revokedFor[sender[q].id] = q

\* A badge that was issued and is not recorded has its goroutine at work, or has
\* lost it to an error, or was issued by a process that found no node when it
\* started: nothing else keeps an issued badge off the chain.  (One that could not
\* be marshalled has no hash to record; its job is "unhashed".)
UnrecordedHasCause ==
    \A id \in Ids : job[id] = "done" /\ id \notin reissue /\ ledger.hash[id] = None =>
        sender[id].pc \in Active \cup Failures \/ id \in offline

\* A row that says revoked while the chain does not is being worked on (it may be
\* for ever, if another goroutine's transaction took the nonce), or one of the
\* requests that revoked it failed, or had no chain client, or sent another id.
DivergenceHasCause ==
    \A id \in Ids : rows[id] # None /\ rows[id].status = "revoked" /\ ledger.revokedFor[id] = None =>
        \E q \in Requests : request[q].id = id /\
            \/ sender[q].pc \in Active \cup Failures
            \/ request[q].pc = "failed" \/ q \in offline
            \/ sender[q].pc = "succeeded" /\ sender[q].id # id

\* The chain does not run ahead of the database: what it holds as revoked for a
\* request, the row of the badge that was asked for says too, whichever step of
\* the request failed and whatever was written to the row since.
RevocationFollowsRow ==
    \A id \in Ids : LET q == ledger.revokedFor[id] IN
        q # None => rows[request[q].id] # None /\ rows[request[q].id].status = "revoked"

\* A row is never deleted, a revoked one never becomes active again (whatever a
\* late save or a late UPDATE of the transaction hash does) and a transaction
\* hash is never lost.
RowsOnlyAdvance ==
    [][\A id \in Ids : rows[id] # None =>
         /\ rows'[id] # None
         /\ rows[id].status = "revoked" => rows'[id].status = "revoked"
         /\ rows[id].anchored => rows'[id].anchored]_serviceVars

\* Every recordOnChain ends, in success or in an error, whatever the node, the
\* chain and the other goroutines' transactions do.
SendersEnd == \A id \in Ids : sender[id].pc \in Active ~> sender[id].pc \notin Active

\* An issued badge is recorded in the end unless its goroutine ended in an error,
\* or the process never had a chain client to start one with.
IssuedIsRecordedOrReported ==
    \A id \in Ids : job[id] = "done" /\ id \notin reissue
                    ~> ledger.hash[id] = id \/ sender[id].pc \in Failures \/ id \in offline

-------------------------------------------------------------------------------
(* What the code or its documents say, and the code does not do.           *)

\* "Verify it is not already revoked" (credential.go:258): a revoked badge is not
\* revoked again, so the reason of its revocation stays what it was.
RevokedOnce ==
    [][\A id \in Ids : rows[id] # None /\ rows[id].status = "revoked"
                       => rows'[id].reason = rows[id].reason]_serviceVars

\* "Record revocation on-chain" (credential.go:260): the badge revoked on the
\* chain is the one whose row was revoked.
RevokesTheSameBadge ==
    \A id \in Ids : ledger.revokedFor[id] # None => rows[id] # None /\ rows[id].status = "revoked"

===============================================================================
