--------------------------- MODULE BadgeServiceProofs ---------------------------
(***************************************************************************)
(* The safety of the badge service, for any badges, requests and faults:   *)
(* whatever the order of handlers, goroutines and blocks, whichever of the *)
(* transactions with one nonce is mined, and wherever the process dies or  *)
(* starts without a chain client.  The ledger keeps the effect of what     *)
(* succeeded, and nothing is sent to it but by a goroutine that a handler  *)
(* or a processor started once the rows were written.                      *)
(***************************************************************************)
EXTENDS BadgeService, TLAPS

\* A badge has no row before its job has saved it, nor a job before its number.
RowsFollowJobs ==
    \A id \in Ids : /\ id > seq => job[id] = "none"
                    /\ job[id] \in {"none", "signed"} => rows[id] = None

\* recordOnChain is about the badge that started it, and every delivered badge
\* has started it, or had no client to start it with.
SendersFollowJobs ==
    \A id \in Ids :
        /\ sender[id].pc # "idle" => sender[id].id = id
        /\ job[id] = "done" /\ id \notin reissue => sender[id].pc # "idle" \/ id \in offline

\* A goroutine that has not begun has sent nothing.
UnsentAtFirst == \A s \in Senders : sender[s].pc \in {"idle", "spawned"} => tx[s].status = "unsent"

\* What the transaction of s leaves on the chain if it goes through.
OnChain(l, s) == IF s \in Ids THEN l.hash[s] = s ELSE l.revokedFor[sender[s].id] = s

\* The ledger holds what succeeded.
MinedIsOnChain == \A s \in Senders : tx[s].status = "ok" => OnChain(ledger, s)

\* A goroutine that stores a hash, or has stored one, is about a recorded badge.
StoredIsOnChain ==
    /\ \A q \in Requests : sender[q].pc # "storing"
    /\ \A id \in Ids : sender[id].pc \in {"storing", "succeeded"} => ledger.hash[id] = id

RowRevoked(id) == rows[id] # None /\ rows[id].status = "revoked"

\* A request that got past its lookup has a row; one that updated it has a
\* goroutine, or had no client; and a goroutine is started after the update only.
RequestsHaveRows ==
    \A q \in Requests :
        /\ request[q].pc \in {"checked", "answering", "done"} => rows[request[q].id] # None
        /\ request[q].pc \in {"answering", "done"} => sender[q].pc # "idle" \/ q \in offline
        /\ request[q].pc \in {"idle", "checked"} => sender[q].pc = "idle"
        /\ sender[q].pc # "idle" => RowRevoked(request[q].id)

\* A revoked row was revoked by some request ...
RevokedByRequest ==
    \A id \in Ids : RowRevoked(id) =>
        \E q \in Requests : request[q].id = id /\ request[q].pc \in {"answering", "done", "failed"}

\* ... and a badge on the chain by some goroutine of a request.
RevokedBySender ==
    \A id \in Ids : ledger.revokedFor[id] # None => sender[ledger.revokedFor[id]].pc # "idle"

IInv ==
    /\ TypeOK
    /\ RowsFollowJobs
    /\ SendersFollowJobs
    /\ UnsentAtFirst
    /\ MinedIsOnChain
    /\ StoredIsOnChain
    /\ ConfirmedIsOnChain
    /\ RequestsHaveRows
    /\ RevokedByRequest
    /\ RevokedBySender

-------------------------------------------------------------------------------
\* Badges are numbers and requests are not, so neither takes the other's goroutine.
LEMMA TwoKinds ==
  /\ Ids \subseteq Nat \ {0} /\ 1 \in Ids
  /\ Ids \cap Requests = {}
  /\ None \notin Ids /\ None \notin Requests /\ None \notin Rows
  /\ Ids \subseteq Senders /\ Requests \subseteq Senders
BY ServiceAssumption DEF Ids, Senders

\* What a step of one goroutine leaves of the others.
LEMMA OneSender ==
  ASSUME TypeOK, NEW s \in Senders, NEW r \in Goroutines, sender' = [sender EXCEPT ![s] = r]
  PROVE  /\ sender' \in [Senders -> Goroutines]
         /\ sender'[s] = r
         /\ \A t \in Senders \ {s} : sender'[t] = sender[t]
BY DEF TypeOK

\* A goroutine that ends keeps its badge.
LEMMA EndedSender ==
  ASSUME TypeOK, NEW s \in Senders, NEW pc \in {"succeeded"} \cup Active \cup Failures
  PROVE  LET r == [pc |-> pc, id |-> sender[s].id, nonce |-> 0] IN
         r \in Goroutines /\ Ended(s, pc) = [sender EXCEPT ![s] = r]
<1>1. sender[s] \in Goroutines /\ sender \in [Senders -> Goroutines]
  BY DEF TypeOK
<1>2. [pc |-> pc, id |-> sender[s].id, nonce |-> 0] \in Goroutines
  BY <1>1 DEF Goroutines
<1>3. Ended(s, pc) = [sender EXCEPT ![s] = [pc |-> pc, id |-> sender[s].id, nonce |-> 0]]
  BY <1>1 DEF Ended
<1> QED BY <1>2, <1>3

\* A goroutine that goes on keeps its badge and its nonce.
LEMMA MovedSender ==
  ASSUME TypeOK, NEW s \in Senders, NEW pc \in {"succeeded"} \cup Active \cup Failures
  PROVE  LET r == [pc |-> pc, id |-> sender[s].id, nonce |-> sender[s].nonce] IN
         r \in Goroutines /\ [sender EXCEPT ![s].pc = pc] = [sender EXCEPT ![s] = r]
<1> DEFINE r == [pc |-> pc, id |-> sender[s].id, nonce |-> sender[s].nonce]
<1>1. sender[s] \in Goroutines
  BY DEF TypeOK
<1>2. r \in Goroutines
  BY <1>1 DEF Goroutines
<1>3. [sender[s] EXCEPT !.pc = pc] = r
  BY <1>1 DEF Goroutines
<1> HIDE DEF r
<1>4. [sender EXCEPT ![s].pc = pc] = [sender EXCEPT ![s] = r]
  BY <1>3
<1> QED BY <1>2, <1>4 DEF r

\* What a goroutine's step may do to the rows.
RowsKept ==
    /\ rows' \in [Ids -> Rows \cup {None}]
    /\ \A x \in Ids : rows'[x] = None <=> rows[x] = None
    /\ \A x \in Ids : rows[x] # None =>
          /\ rows'[x].status = rows[x].status
          /\ rows'[x].anchored => rows[x].anchored \/ ledger.hash[x] = x

\* What it may do to the transactions: none succeeds by it.
TxsKept(s) ==
    /\ tx' \in [Senders -> Transactions]
    /\ \A t \in Senders \ {s} : tx'[t] = tx[t]
    /\ tx'[s].status = "ok" => tx[s].status = "ok" /\ sender[s].pc # "spawned"

\* Where it may go: to success only if the chain says so.
MayMove(s, r) ==
    /\ r \in Goroutines
    /\ sender[s].pc # "idle" /\ r.pc \notin {"idle", "spawned"}
    /\ r.id = sender[s].id \/ (s \in Requests /\ sender[s].pc = "spawned")
    /\ s \in Requests => r.pc # "storing"
    /\ s \in Ids /\ r.pc \in {"storing", "succeeded"} => ledger.hash[s] = s
    /\ s \in Requests /\ r.pc = "succeeded" => ledger.revokedFor[r.id] = s

LEMMA NothingKept ==
  ASSUME IInv
  PROVE  /\ rows' = rows => RowsKept
         /\ \A s \in Senders : tx' = tx => TxsKept(s)
<1>1. rows \in [Ids -> Rows \cup {None}] /\ tx \in [Senders -> Transactions]
  BY DEF IInv, TypeOK
<1>2. \A s \in Senders : sender[s].pc = "spawned" => tx[s].status # "ok"
  BY DEF IInv, UnsentAtFirst
<1> QED BY <1>1, <1>2 DEF RowsKept, TxsKept

\* The steps of one goroutine.
LEMMA SenderStep ==
  ASSUME IInv, NEW s \in Senders, NEW r, MayMove(s, r),
         sender' = [sender EXCEPT ![s] = r], RowsKept, TxsKept(s),
         UNCHANGED <<seq, job, reissue, request, ctx, client, offline, mined, ledger>>
  PROVE  IInv'
<1> USE TwoKinds
<1>1. /\ r \in Goroutines /\ r.pc \notin {"idle", "spawned"} /\ sender[s].pc # "idle"
      /\ sender' \in [Senders -> Goroutines]
      /\ sender'[s] = r
      /\ \A t \in Senders \ {s} : sender'[t] = sender[t]
  BY OneSender DEF IInv, MayMove
<1>2. s \in Ids => r.id = s
  BY DEF IInv, SendersFollowJobs, MayMove
<1>3. TypeOK'
  BY <1>1 DEF IInv, TypeOK, RowsKept, TxsKept
<1>4. RowsFollowJobs'
  BY DEF IInv, RowsFollowJobs, RowsKept
<1>5. SendersFollowJobs'
  BY <1>1, <1>2 DEF IInv, SendersFollowJobs
<1>6. UnsentAtFirst'
  BY <1>1 DEF IInv, UnsentAtFirst, TxsKept
<1>7. MinedIsOnChain'
  <2> SUFFICES ASSUME NEW t \in Senders, tx'[t].status = "ok"
               PROVE  IF t \in Ids THEN ledger.hash[t] = t ELSE ledger.revokedFor[sender'[t].id] = t
    BY DEF MinedIsOnChain, OnChain
  <2>1. tx[t].status = "ok"
    BY DEF TxsKept
  <2>2. t \notin Ids => sender'[t].id = sender[t].id
    BY <1>1 DEF TxsKept, MayMove
  <2> QED BY <2>1, <2>2 DEF IInv, MinedIsOnChain, OnChain
<1>8. StoredIsOnChain'
  BY <1>1 DEF IInv, StoredIsOnChain, MayMove
<1>9. ConfirmedIsOnChain'
  <2>1. ASSUME NEW id \in Ids, rows'[id] # None, rows'[id].anchored PROVE ledger.hash[id] = id
    BY <2>1 DEF IInv, ConfirmedIsOnChain, RowsKept
  <2>2. ASSUME NEW q \in Requests, sender'[q].pc = "succeeded" PROVE ledger.revokedFor[sender'[q].id] = q
    BY <1>1, <2>2 DEF IInv, ConfirmedIsOnChain, MayMove
  <2> QED BY <2>1, <2>2 DEF ConfirmedIsOnChain
<1>10. \A x \in Ids : RowRevoked(x)' <=> RowRevoked(x)
  BY DEF RowRevoked, RowsKept
<1>11. \A q \in Requests : request[q].id \in Ids
  BY DEF IInv, TypeOK, Handlers
<1>12. \A t \in Senders : sender'[t].pc = "idle" <=> sender[t].pc = "idle"
  BY <1>1
<1>13. RequestsHaveRows'
  <2> SUFFICES ASSUME NEW q \in Requests
               PROVE  /\ request[q].pc \in {"checked", "answering", "done"} => rows'[request[q].id] # None
                      /\ request[q].pc \in {"answering", "done"} => sender'[q].pc # "idle" \/ q \in offline
                      /\ request[q].pc \in {"idle", "checked"} => sender'[q].pc = "idle"
                      /\ sender'[q].pc # "idle" => RowRevoked(request[q].id)'
    BY DEF RequestsHaveRows, RowRevoked
  <2>1. /\ request[q].pc \in {"checked", "answering", "done"} => rows[request[q].id] # None
        /\ request[q].pc \in {"answering", "done"} => sender[q].pc # "idle" \/ q \in offline
        /\ request[q].pc \in {"idle", "checked"} => sender[q].pc = "idle"
        /\ sender[q].pc # "idle" => RowRevoked(request[q].id)
    BY DEF IInv, RequestsHaveRows
  <2>2. RowRevoked(request[q].id) => RowRevoked(request[q].id)'
    BY <1>10, <1>11 DEF RowRevoked
  <2>3. rows'[request[q].id] = None => rows[request[q].id] = None
    BY <1>11 DEF RowsKept
  <2> QED BY <1>12, <2>1, <2>2, <2>3
<1>14. RevokedByRequest'
  BY <1>10 DEF IInv, RevokedByRequest
<1>15. RevokedBySender'
  <2>1. \A id \in Ids : ledger.revokedFor[id] # None => ledger.revokedFor[id] \in Requests
    BY DEF IInv, TypeOK, Ledgers
  <2> QED BY <1>12, <2>1 DEF IInv, RevokedBySender
<1> QED BY <1>3, <1>4, <1>5, <1>6, <1>7, <1>8, <1>9, <1>13, <1>14, <1>15 DEF IInv

\* Steps that leave goroutines, ledger and transactions alone.
LEMMA ChainKept ==
  ASSUME IInv, UNCHANGED <<senderVars, chainVars>>
  PROVE  UnsentAtFirst' /\ MinedIsOnChain' /\ StoredIsOnChain' /\ RevokedBySender'
<1>1. sender' = sender /\ tx' = tx /\ ledger' = ledger
  BY DEF senderVars, chainVars
<1> QED
  BY <1>1 DEF IInv, UnsentAtFirst, MinedIsOnChain, OnChain, StoredIsOnChain, RevokedBySender

-------------------------------------------------------------------------------
(* One lemma for each action.                                              *)

LEMMA NextCredentialStep ==
  ASSUME IInv, NEW id \in Ids, NextCredential(id), reissue' \in {reissue, reissue \cup {id}}
  PROVE  IInv'
<1> USE TwoKinds
<1>1. /\ id = seq + 1 /\ seq' = id /\ seq \in Nat
      /\ job[id] = "none"
      /\ UNCHANGED <<rows, request, ctx, client, offline, sender, tx, mined, ledger>>
  BY DEF IInv, TypeOK, RowsFollowJobs, NextCredential, senderVars, chainVars
<1>2. PICK pc \in {"signed", "failed"} : job' = [job EXCEPT ![id] = pc]
  BY DEF NextCredential
<1>3. TypeOK'
  BY <1>1, <1>2 DEF IInv, TypeOK, NextCredential, Ids
<1>4. job'[id] = pc /\ \A x \in Ids \ {id} : job'[x] = job[x]
  BY <1>2 DEF IInv, TypeOK
<1>5. RowsFollowJobs'
  BY <1>1, <1>4 DEF IInv, RowsFollowJobs
<1>6. SendersFollowJobs'
  BY <1>1, <1>4 DEF IInv, SendersFollowJobs
<1>7. UnsentAtFirst' /\ MinedIsOnChain' /\ StoredIsOnChain' /\ RevokedBySender'
  BY <1>1, ChainKept DEF senderVars, chainVars
<1>8. ConfirmedIsOnChain' /\ RequestsHaveRows' /\ RevokedByRequest'
  BY <1>1 DEF IInv, ConfirmedIsOnChain, RequestsHaveRows, RevokedByRequest, RowRevoked
<1> QED BY <1>3, <1>5, <1>6, <1>7, <1>8 DEF IInv

LEMMA UnhashedStep ==
  ASSUME IInv, NEW id \in Ids, DeliverUnhashed(id)
  PROVE  IInv'
<1> USE TwoKinds
<1>1. /\ job[id] = "signed"
      /\ UNCHANGED <<seq, rows, reissue, request, ctx, client, offline, sender, tx, mined, ledger>>
  BY DEF DeliverUnhashed, senderVars, chainVars
<1>2. /\ job'[id] \in {"failed", "unhashed"}
      /\ \A x \in Ids \ {id} : job'[x] = job[x]
  BY DEF IInv, TypeOK, DeliverUnhashed
<1>3. TypeOK'
  BY <1>1 DEF IInv, TypeOK, DeliverUnhashed
<1>4. RowsFollowJobs' /\ SendersFollowJobs'
  BY <1>1, <1>2 DEF IInv, RowsFollowJobs, SendersFollowJobs
<1>5. UnsentAtFirst' /\ MinedIsOnChain' /\ StoredIsOnChain' /\ RevokedBySender'
  BY <1>1, ChainKept DEF senderVars, chainVars
<1>6. ConfirmedIsOnChain' /\ RequestsHaveRows' /\ RevokedByRequest'
  BY <1>1 DEF IInv, ConfirmedIsOnChain, RequestsHaveRows, RevokedByRequest, RowRevoked
<1> QED BY <1>3, <1>4, <1>5, <1>6 DEF IInv

LEMMA SaveBadgeStep ==
  ASSUME IInv, NEW id \in Ids, SaveBadge(id)
  PROVE  IInv'
<1> USE TwoKinds
<1>1. /\ job[id] = "signed" /\ rows[id] = None
      /\ UNCHANGED <<seq, reissue, request, ctx, client, offline, sender, tx, mined, ledger>>
  BY DEF IInv, RowsFollowJobs, SaveBadge, senderVars, chainVars
<1>2. job'[id] = "saved" /\ \A x \in Ids \ {id} : job'[x] = job[x]
  BY DEF IInv, TypeOK, SaveBadge
<1>3. NewRow \in Rows /\ NewRow.status # "revoked" /\ ~NewRow.anchored
  BY DEF NewRow, Rows
<1>4. rows'[id] \in {rows[id], NewRow} /\ \A x \in Ids \ {id} : rows'[x] = rows[x]
  BY DEF IInv, TypeOK, SaveBadge
<1>5. TypeOK'
  BY <1>1, <1>3 DEF IInv, TypeOK, SaveBadge
<1>6. RowsFollowJobs' /\ SendersFollowJobs'
  BY <1>1, <1>2, <1>4 DEF IInv, RowsFollowJobs, SendersFollowJobs
<1>7. UnsentAtFirst' /\ MinedIsOnChain' /\ StoredIsOnChain' /\ RevokedBySender'
  BY <1>1, ChainKept DEF senderVars, chainVars
<1>8. ConfirmedIsOnChain'
  BY <1>1, <1>3, <1>4 DEF IInv, ConfirmedIsOnChain
<1>9. \A x \in Ids : RowRevoked(x)' <=> RowRevoked(x)
  BY <1>1, <1>3, <1>4 DEF RowRevoked
<1>10. RequestsHaveRows'
  <2>1. \A q \in Requests : request[q].id \in Ids
    BY DEF IInv, TypeOK, Handlers
  <2>2. \A q \in Requests : RowRevoked(request[q].id) => RowRevoked(request[q].id)'
    BY <1>1, <1>9, <2>1 DEF RowRevoked
  <2>3. \A q \in Requests : rows[request[q].id] # None => rows'[request[q].id] # None
    BY <1>1, <1>4, <2>1
  <2> QED BY <1>1, <2>2, <2>3 DEF IInv, RequestsHaveRows
<1>11. RevokedByRequest'
  BY <1>1, <1>9 DEF IInv, RevokedByRequest
<1> QED BY <1>5, <1>6, <1>7, <1>8, <1>10, <1>11 DEF IInv

LEMMA DeliverStep ==
  ASSUME IInv, NEW id \in Ids, Deliver(id)
  PROVE  IInv'
<1> USE TwoKinds
<1> DEFINE r == [pc |-> "estimating", id |-> id, nonce |-> 0]
<1>1. /\ job[id] = "saved"
      /\ UNCHANGED <<seq, rows, reissue, request, ctx, client, tx, mined, ledger>>
  BY DEF Deliver, chainVars
<1>2. job'[id] = "done" /\ \A x \in Ids \ {id} : job'[x] = job[x]
  BY DEF IInv, TypeOK, Deliver
<1>3. r \in Goroutines /\ r.pc \notin {"idle", "spawned", "storing", "succeeded"} /\ r.id = id
  BY DEF Goroutines, Active
<1>4. sender' = sender \/ sender' = [sender EXCEPT ![id] = r]
  BY DEF Deliver
<1> HIDE DEF r
<1>5. /\ sender' \in [Senders -> Goroutines]
      /\ sender'[id] \in {sender[id], r}
      /\ \A t \in Senders \ {id} : sender'[t] = sender[t]
  BY <1>3, <1>4, OneSender DEF IInv, TypeOK
<1>6. /\ offline' \in {offline, offline \cup {id}}
      /\ id \notin reissue => sender'[id] = r \/ id \in offline'
  <2>1. CASE id \in reissue
    BY <2>1 DEF Deliver
  <2>2. CASE id \notin reissue /\ client
    <3>1. sender' = [sender EXCEPT ![id] = r] /\ offline' = offline
      BY <2>2 DEF Deliver, r
    <3> QED BY <1>3, <3>1, OneSender DEF IInv
  <2>3. CASE id \notin reissue /\ ~client
    BY <2>3 DEF Deliver
  <2> QED BY <2>1, <2>2, <2>3
<1>7. TypeOK'
  BY <1>1, <1>5, <1>6 DEF IInv, TypeOK, Deliver
<1>8. RowsFollowJobs'
  BY <1>1, <1>2 DEF IInv, RowsFollowJobs
<1>9. SendersFollowJobs'
  <2> SUFFICES ASSUME NEW x \in Ids
               PROVE  /\ sender'[x].pc # "idle" => sender'[x].id = x
                      /\ job'[x] = "done" /\ x \notin reissue => sender'[x].pc # "idle" \/ x \in offline'
    BY <1>1 DEF SendersFollowJobs
  <2>1. /\ sender[x].pc # "idle" => sender[x].id = x
        /\ job[x] = "done" /\ x \notin reissue => sender[x].pc # "idle" \/ x \in offline
    BY DEF IInv, SendersFollowJobs
  <2>2. CASE x = id
    BY <1>3, <1>5, <1>6, <2>1, <2>2
  <2>3. CASE x # id
    BY <1>2, <1>5, <1>6, <2>1, <2>3
  <2> QED BY <2>2, <2>3
<1>10. UnsentAtFirst' /\ StoredIsOnChain' /\ ConfirmedIsOnChain'
  BY <1>1, <1>3, <1>5 DEF IInv, UnsentAtFirst, StoredIsOnChain, ConfirmedIsOnChain
<1>11. MinedIsOnChain'
  BY <1>1, <1>5 DEF IInv, MinedIsOnChain, OnChain
<1>12. \A q \in Requests : sender'[q] = sender[q]
  BY <1>5
<1>13. RequestsHaveRows' /\ RevokedByRequest'
  BY <1>1, <1>6, <1>12 DEF IInv, RequestsHaveRows, RevokedByRequest, RowRevoked
<1>14. RevokedBySender'
  <2>1. \A x \in Ids : ledger.revokedFor[x] # None => ledger.revokedFor[x] \in Requests
    BY DEF IInv, TypeOK, Ledgers
  <2> QED BY <1>1, <1>12, <2>1 DEF IInv, RevokedBySender
<1> QED BY <1>7, <1>8, <1>9, <1>10, <1>11, <1>13, <1>14 DEF IInv

LEMMA RevokeLookupStep ==
  ASSUME IInv, NEW q \in Requests, NEW id \in Ids, RevokeLookup(q, id)
  PROVE  IInv'
<1> USE TwoKinds
<1>1. /\ request[q].pc = "idle"
      /\ UNCHANGED <<seq, rows, job, reissue, client, offline, sender, tx, mined, ledger>>
  BY DEF RevokeLookup, senderVars, chainVars
<1>2. /\ request'[q].pc \in {"checked", "refused"}
      /\ request'[q].pc = "checked" => request'[q].id = id /\ rows[id] # None
      /\ \A x \in Requests \ {q} : request'[x] = request[x]
  BY DEF IInv, TypeOK, RevokeLookup, Revocable, Handlers
<1>3. request' \in [Requests -> Handlers]
  <2>1. request \in [Requests -> Handlers] /\ request[q] \in Handlers
    BY DEF IInv, TypeOK
  <2>2. [pc |-> "checked", id |-> id] \in Handlers /\ [request[q] EXCEPT !.pc = "refused"] \in Handlers
    BY <2>1 DEF Handlers
  <2>3. request' \in {[request EXCEPT ![q] = [pc |-> "checked", id |-> id]],
                     [request EXCEPT ![q] = [request[q] EXCEPT !.pc = "refused"]]}
    BY <2>1 DEF RevokeLookup
  <2> QED BY <2>1, <2>2, <2>3
<1>4. ctx' \in [Requests -> [held : BOOLEAN, path : Ids]]
  <2>1. ctx \in [Requests -> [held : BOOLEAN, path : Ids]] /\ ctx[q] \in [held : BOOLEAN, path : Ids]
    BY DEF IInv, TypeOK
  <2>2. [ctx[q] EXCEPT !.path = id] \in [held : BOOLEAN, path : Ids]
    BY <2>1
  <2>3. ctx' \in {ctx, [ctx EXCEPT ![q] = [ctx[q] EXCEPT !.path = id]]}
    BY <2>1 DEF RevokeLookup
  <2> QED BY <2>1, <2>2, <2>3
<1>5. TypeOK'
  BY <1>1, <1>3, <1>4 DEF IInv, TypeOK
<1>6. RowsFollowJobs' /\ SendersFollowJobs' /\ ConfirmedIsOnChain'
  BY <1>1 DEF IInv, RowsFollowJobs, SendersFollowJobs, ConfirmedIsOnChain
<1>7. UnsentAtFirst' /\ MinedIsOnChain' /\ StoredIsOnChain' /\ RevokedBySender'
  BY <1>1, ChainKept DEF senderVars, chainVars
<1>8. RequestsHaveRows'
  BY <1>1, <1>2 DEF IInv, RequestsHaveRows, RowRevoked
<1>9. RevokedByRequest'
  <2> SUFFICES ASSUME NEW x \in Ids, RowRevoked(x)
               PROVE  \E y \in Requests : /\ request'[y].id = x
                                         /\ request'[y].pc \in {"answering", "done", "failed"}
    BY <1>1 DEF RevokedByRequest, RowRevoked
  <2>1. PICK y \in Requests : request[y].id = x /\ request[y].pc \in {"answering", "done", "failed"}
    BY DEF IInv, RevokedByRequest
  <2>2. request'[y] = request[y]
    BY <1>1, <1>2, <2>1
  <2> QED BY <2>1, <2>2
<1> QED BY <1>5, <1>6, <1>7, <1>8, <1>9 DEF IInv

LEMMA RevokeUpdateStep ==
  ASSUME IInv, NEW q \in Requests, RevokeUpdate(q)
  PROVE  IInv'
<1> USE TwoKinds
<1> DEFINE id == request[q].id
           row == RevokedRow(q)
<1>1. /\ request[q].pc = "checked" /\ id \in Ids /\ rows[id] \in Rows /\ rows[id] # None
      /\ sender[q].pc = "idle"
      /\ UNCHANGED <<seq, job, reissue, ctx, client, tx, mined, ledger>>
  BY DEF IInv, TypeOK, RequestsHaveRows, RevokeUpdate, Handlers, chainVars
<1>2. /\ row \in Rows /\ row # None /\ row.status = "revoked" /\ row.anchored = rows[id].anchored
  BY <1>1 DEF RevokedRow, Rows
<1> HIDE DEF row
<1>3. rows'[id] \in {rows[id], row} /\ \A x \in Ids \ {id} : rows'[x] = rows[x]
  BY <1>1 DEF IInv, TypeOK, RevokeUpdate, row
<1>4. rows' \in [Ids -> Rows \cup {None}]
  <2>1. rows \in [Ids -> Rows \cup {None}]
    BY DEF IInv, TypeOK
  <2>2. rows' = rows \/ rows' = [rows EXCEPT ![id] = row]
    BY DEF RevokeUpdate, row
  <2> HIDE DEF id
  <2> QED BY <1>1, <1>2, <2>1, <2>2
<1>5. /\ request' \in [Requests -> Handlers]
      /\ request'[q].id = id /\ request'[q].pc \in {"answering", "failed"}
      /\ \A x \in Requests \ {q} : request'[x] = request[x]
  <2>1. request \in [Requests -> Handlers] /\ request[q] \in Handlers
    BY DEF IInv, TypeOK
  <2>2. PICK pc \in {"answering", "failed"} : request' = [request EXCEPT ![q].pc = pc]
    BY DEF RevokeUpdate
  <2>3. [request[q] EXCEPT !.pc = pc] \in Handlers
    BY <2>1 DEF Handlers
  <2> QED BY <2>1, <2>2, <2>3 DEF Handlers
<1>6. /\ sender' \in [Senders -> Goroutines]
      /\ sender'[q].pc \in {"idle", "spawned"}
      /\ \A t \in Senders \ {q} : sender'[t] = sender[t]
      /\ sender'[q].pc # "idle" => rows'[id] = row
      /\ request'[q].pc = "answering" => rows'[id] = row
      /\ request'[q].pc = "answering" => sender'[q].pc # "idle" \/ q \in offline'
      /\ offline' \in {offline, offline \cup {q}}
  <2>1. /\ sender \in [Senders -> Goroutines] /\ sender[q] \in Goroutines /\ rows \in [Ids -> Rows \cup {None}]
        /\ request \in [Requests -> Handlers]
    BY DEF IInv, TypeOK
  <2>2. [sender[q] EXCEPT !.pc = "spawned"] \in Goroutines
    BY <2>1 DEF Goroutines, Active
  <2>3. CASE /\ rows' = [rows EXCEPT ![id] = RevokedRow(q)]
             /\ sender' = IF client THEN [sender EXCEPT ![q].pc = "spawned"] ELSE sender
             /\ offline' = IF client THEN offline ELSE offline \cup {q}
    <3>1. rows'[id] = row
      BY <1>1, <2>1, <2>3 DEF row
    <3>2. CASE client
      <4>1. sender' = [sender EXCEPT ![q] = [sender[q] EXCEPT !.pc = "spawned"]] /\ offline' = offline
        BY <2>1, <2>3, <3>2
      <4> QED BY <2>1, <2>2, <3>1, <4>1 DEF Goroutines
    <3>3. CASE ~client
      BY <1>1, <2>1, <2>3, <3>1, <3>3
    <3> QED BY <3>2, <3>3
  <2>4. CASE sender' = sender /\ offline' = offline /\ request' = [request EXCEPT ![q].pc = "failed"]
    <3>1. request'[q].pc = "failed"
      BY <2>1, <2>4 DEF Handlers
    <3> QED BY <1>1, <2>1, <2>4, <3>1
  <2> QED BY <2>3, <2>4 DEF RevokeUpdate
<1>7. TypeOK'
  BY <1>1, <1>4, <1>5, <1>6 DEF IInv, TypeOK
<1>8. RowsFollowJobs' /\ SendersFollowJobs'
  BY <1>1, <1>3, <1>6 DEF IInv, RowsFollowJobs, SendersFollowJobs
<1>9. UnsentAtFirst' /\ StoredIsOnChain'
  BY <1>1, <1>6 DEF IInv, UnsentAtFirst, StoredIsOnChain
<1>10. MinedIsOnChain'
  <2>1. tx[q].status # "ok"
    BY <1>1 DEF IInv, UnsentAtFirst
  <2> QED BY <1>1, <1>6, <2>1 DEF IInv, MinedIsOnChain, OnChain
<1>11. ConfirmedIsOnChain'
  <2>1. ASSUME NEW x \in Ids, rows'[x] # None, rows'[x].anchored PROVE ledger.hash[x] = x
    <3>1. rows[x] # None /\ rows[x].anchored
      BY <1>1, <1>2, <1>3, <2>1
    <3> QED BY <3>1 DEF IInv, ConfirmedIsOnChain
  <2>2. ASSUME NEW x \in Requests, sender'[x].pc = "succeeded" PROVE ledger.revokedFor[sender'[x].id] = x
    BY <1>6, <2>2 DEF IInv, ConfirmedIsOnChain
  <2> QED BY <1>1, <2>1, <2>2 DEF ConfirmedIsOnChain
<1>12. \A x \in Ids : /\ rows[x] # None => rows'[x] # None
                      /\ RowRevoked(x) => RowRevoked(x)'
                      /\ RowRevoked(x)' => RowRevoked(x) \/ x = id
  BY <1>1, <1>2, <1>3 DEF RowRevoked
<1>13. RequestsHaveRows'
  <2> SUFFICES ASSUME NEW x \in Requests
               PROVE  /\ request'[x].pc \in {"checked", "answering", "done"} => rows'[request'[x].id] # None
                      /\ request'[x].pc \in {"answering", "done"} => sender'[x].pc # "idle" \/ x \in offline'
                      /\ request'[x].pc \in {"idle", "checked"} => sender'[x].pc = "idle"
                      /\ sender'[x].pc # "idle" => RowRevoked(request[x].id)'
    BY DEF RequestsHaveRows, RowRevoked
  <2>1. CASE x = q
    <3>1. rows'[id] = row => rows'[id] # None /\ rows'[id].status = "revoked"
      BY <1>2
    <3>2. request'[q].id = id /\ rows'[id] # None
      BY <1>1, <1>2, <1>3, <1>5
    <3>3. sender'[q].pc # "idle" => RowRevoked(request[q].id)'
      BY <1>6, <3>1, <3>2 DEF RowRevoked
    <3> QED BY <1>5, <1>6, <2>1, <3>2, <3>3
  <2>2. CASE x # q
    <3>1. request'[x] = request[x] /\ sender'[x] = sender[x] /\ request[x].id \in Ids
      BY <1>5, <1>6, <2>2 DEF IInv, TypeOK, Handlers
    <3>2. /\ rows[request[x].id] # None => rows'[request'[x].id] # None
          /\ RowRevoked(request[x].id) => RowRevoked(request[x].id)'
      BY <1>12, <3>1 DEF RowRevoked
    <3> QED BY <1>6, <3>1, <3>2 DEF IInv, RequestsHaveRows
  <2> QED BY <2>1, <2>2
<1>14. RevokedByRequest'
  BY <1>1, <1>5, <1>12 DEF IInv, RevokedByRequest
<1>15. RevokedBySender'
  <2>1. \A x \in Ids : ledger.revokedFor[x] # None => ledger.revokedFor[x] \in Requests
    BY DEF IInv, TypeOK, Ledgers
  <2> QED BY <1>1, <1>6, <2>1 DEF IInv, RevokedBySender
<1> QED BY <1>7, <1>8, <1>9, <1>10, <1>11, <1>13, <1>14, <1>15 DEF IInv

LEMMA RevokeReturnStep ==
  ASSUME IInv, NEW q \in Requests, RevokeReturn(q)
  PROVE  IInv'
<1> USE TwoKinds
<1>1. /\ request[q].pc = "answering"
      /\ UNCHANGED <<seq, rows, job, reissue, client, offline, sender, tx, mined, ledger>>
  BY DEF RevokeReturn, senderVars, chainVars
<1>2. /\ request' \in [Requests -> Handlers] /\ ctx' \in [Requests -> [held : BOOLEAN, path : Ids]]
      /\ request'[q].id = request[q].id /\ request'[q].pc = "done"
      /\ \A x \in Requests \ {q} : request'[x] = request[x]
  <2>1. /\ request \in [Requests -> Handlers] /\ request[q] \in Handlers
        /\ ctx \in [Requests -> [held : BOOLEAN, path : Ids]]
    BY DEF IInv, TypeOK
  <2>2. /\ [request[q] EXCEPT !.pc = "done"] \in Handlers
        /\ [request[q] EXCEPT !.pc = "done"].id = request[q].id
        /\ [request[q] EXCEPT !.pc = "done"].pc = "done"
    BY <2>1 DEF Handlers
  <2>3. ctx' \in [Requests -> [held : BOOLEAN, path : Ids]]
    BY <2>1 DEF RevokeReturn
  <2>4. request' = [request EXCEPT ![q] = [request[q] EXCEPT !.pc = "done"]]
    BY <2>1 DEF RevokeReturn
  <2> QED BY <2>1, <2>2, <2>3, <2>4
<1>3. TypeOK'
  BY <1>1, <1>2 DEF IInv, TypeOK
<1>4. RowsFollowJobs' /\ SendersFollowJobs' /\ ConfirmedIsOnChain'
  BY <1>1 DEF IInv, RowsFollowJobs, SendersFollowJobs, ConfirmedIsOnChain
<1>5. UnsentAtFirst' /\ MinedIsOnChain' /\ StoredIsOnChain' /\ RevokedBySender'
  BY <1>1, ChainKept DEF senderVars, chainVars
<1>6. RequestsHaveRows'
  BY <1>1, <1>2 DEF IInv, RequestsHaveRows, RowRevoked
<1>7. RevokedByRequest'
  BY <1>1, <1>2 DEF IInv, RevokedByRequest, RowRevoked
<1> QED BY <1>3, <1>4, <1>5, <1>6, <1>7 DEF IInv

LEMMA CtxReusedStep ==
  ASSUME IInv, NEW q \in Requests, CtxReused(q)
  PROVE  IInv'
<1>1. /\ ctx' \in [Requests -> [held : BOOLEAN, path : Ids]]
      /\ UNCHANGED <<seq, rows, job, reissue, request, client, offline, sender, tx, mined, ledger>>
  BY DEF IInv, TypeOK, CtxReused, senderVars, chainVars
<1>2. TypeOK'
  BY <1>1 DEF IInv, TypeOK
<1>3. UnsentAtFirst' /\ MinedIsOnChain' /\ StoredIsOnChain' /\ RevokedBySender'
  BY <1>1, ChainKept DEF senderVars, chainVars
<1> QED
  BY <1>1, <1>2, <1>3 DEF IInv, RowsFollowJobs, SendersFollowJobs, ConfirmedIsOnChain, RequestsHaveRows,
       RevokedByRequest, RowRevoked

\* Whatever was in memory is lost; rows and chain are as they were.
LEMMA DieStep ==
  ASSUME IInv, Die
  PROVE  IInv'
<1> USE TwoKinds
<1>1. UNCHANGED <<seq, rows, reissue, ctx, offline, tx, mined, ledger>> /\ client' \in BOOLEAN
  BY DEF Die, Clients, chainVars
<1>2. /\ job' \in [Ids -> {"none", "signed", "unhashed", "saved", "done", "failed"}]
      /\ \A id \in Ids : job'[id] = job[id] \/ (job[id] \in {"signed", "saved"} /\ job'[id] = "failed")
  <2>1. job' = [id \in Ids |-> IF job[id] \in {"signed", "saved"} THEN "failed" ELSE job[id]]
    BY DEF Die
  <2>2. job \in [Ids -> {"none", "signed", "unhashed", "saved", "done", "failed"}]
    BY DEF IInv, TypeOK
  <2>3. \A id \in Ids : job'[id] = job[id] \/ (job[id] \in {"signed", "saved"} /\ job'[id] = "failed")
    <3> SUFFICES ASSUME NEW id \in Ids
                 PROVE  job'[id] = job[id] \/ (job[id] \in {"signed", "saved"} /\ job'[id] = "failed")
      OBVIOUS
    <3>1. CASE job[id] \in {"signed", "saved"}
      <4>1. job'[id] = "failed"
        BY <2>1, <3>1
      <4> QED BY <3>1, <4>1
    <3>2. CASE job[id] \notin {"signed", "saved"}
      <4>1. job'[id] = job[id]
        BY <2>1, <3>2
      <4> QED BY <4>1
    <3> QED BY <3>1, <3>2
  <2>4. \A id \in Ids : job'[id] \in {"none", "signed", "unhashed", "saved", "done", "failed"}
    BY <2>2, <2>3
  <2> QED BY <2>1, <2>3, <2>4
<1>3. /\ request' \in [Requests -> Handlers]
      /\ \A q \in Requests : /\ request'[q].id = request[q].id
                             /\ request'[q].pc = request[q].pc
                                  \/ (request[q].pc \in {"checked", "answering"} /\ request'[q].pc = "failed")
  <2>1. ASSUME NEW q \in Requests
        PROVE  /\ request'[q] \in Handlers /\ request'[q].id = request[q].id
               /\ request'[q].pc = request[q].pc
                    \/ (request[q].pc \in {"checked", "answering"} /\ request'[q].pc = "failed")
    <3>1. request[q] \in Handlers
      BY DEF IInv, TypeOK
    <3>2. CASE request[q].pc \in {"checked", "answering"}
      <4>1. request'[q] = [request[q] EXCEPT !.pc = "failed"]
        BY <3>2 DEF Die
      <4> QED BY <3>1, <3>2, <4>1 DEF Handlers
    <3>3. CASE request[q].pc \notin {"checked", "answering"}
      <4>1. request'[q] = request[q]
        BY <3>3 DEF Die
      <4>2. request'[q] \in Handlers
        BY <3>1, <4>1
      <4>3. request'[q].id = request[q].id
        BY <4>1
      <4>4. request'[q].pc = request[q].pc
        BY <4>1
      <4> QED BY <4>2, <4>3, <4>4
    <3> QED BY <3>2, <3>3
  <2>2. request' = [q \in Requests |-> request'[q]]
    BY DEF Die
  <2> QED BY <2>1, <2>2
<1>4. /\ sender' \in [Senders -> Goroutines]
      /\ \A s \in Senders : sender'[s] = sender[s]
                             \/ /\ sender[s].pc \in Active /\ sender'[s].pc = "lost"
                                /\ sender'[s].id = sender[s].id
  <2>1. ASSUME NEW s \in Senders
        PROVE  /\ sender'[s] \in Goroutines
               /\ sender'[s] = sender[s]
                    \/ /\ sender[s].pc \in Active /\ sender'[s].pc = "lost"
                       /\ sender'[s].id = sender[s].id
    <3>1. sender[s] \in Goroutines
      BY DEF IInv, TypeOK
    <3>2. CASE sender[s].pc \in Active
      <4>1. sender'[s] = [pc |-> "lost", id |-> sender[s].id, nonce |-> 0]
        BY <3>2 DEF Die
      <4> QED BY <3>1, <3>2, <4>1 DEF Goroutines, Failures
    <3>3. CASE sender[s].pc \notin Active
      BY <3>1, <3>3 DEF Die
    <3> QED BY <3>2, <3>3
  <2>2. sender' = [s \in Senders |-> sender'[s]]
    BY DEF Die
  <2> QED BY <2>1, <2>2
<1>5. TypeOK'
  BY <1>1, <1>2, <1>3, <1>4 DEF IInv, TypeOK
<1>6. RowsFollowJobs'
  BY <1>1, <1>2 DEF IInv, RowsFollowJobs
<1>7. \A s \in Senders : /\ sender'[s].id = sender[s].id
                         /\ sender'[s].pc = "idle" <=> sender[s].pc = "idle"
                         /\ sender'[s].pc = "spawned" => sender[s].pc = "spawned"
                         /\ sender'[s].pc \in {"storing", "succeeded"} => sender'[s] = sender[s]
  BY <1>4 DEF Active
<1>8. SendersFollowJobs'
  BY <1>1, <1>2, <1>7 DEF IInv, SendersFollowJobs
<1>9. UnsentAtFirst' /\ MinedIsOnChain'
  BY <1>1, <1>7 DEF IInv, UnsentAtFirst, MinedIsOnChain, OnChain
<1>10. StoredIsOnChain' /\ ConfirmedIsOnChain'
  BY <1>1, <1>7 DEF IInv, StoredIsOnChain, ConfirmedIsOnChain
<1>11. RequestsHaveRows'
  <2> SUFFICES ASSUME NEW q \in Requests
               PROVE  /\ request'[q].pc \in {"checked", "answering", "done"} => rows[request[q].id] # None
                      /\ request'[q].pc \in {"answering", "done"} => sender'[q].pc # "idle" \/ q \in offline
                      /\ request'[q].pc \in {"idle", "checked"} => sender'[q].pc = "idle"
                      /\ sender'[q].pc # "idle" => RowRevoked(request[q].id)
    BY <1>1, <1>3 DEF RequestsHaveRows, RowRevoked
  <2>1. request'[q].pc = request[q].pc \/ request'[q].pc = "failed"
    BY <1>3
  <2> QED BY <1>7, <2>1 DEF IInv, RequestsHaveRows
<1>12. RevokedByRequest'
  <2> SUFFICES ASSUME NEW id \in Ids, RowRevoked(id)
               PROVE  \E q \in Requests : /\ request'[q].id = id
                                          /\ request'[q].pc \in {"answering", "done", "failed"}
    BY <1>1 DEF RevokedByRequest, RowRevoked
  <2>1. PICK q \in Requests : request[q].id = id /\ request[q].pc \in {"answering", "done", "failed"}
    BY DEF IInv, RevokedByRequest
  <2>2. request'[q].id = id /\ request'[q].pc \in {"answering", "done", "failed"}
    BY <1>3, <2>1
  <2> QED BY <2>2
<1>13. RevokedBySender'
  <2>1. \A x \in Ids : ledger.revokedFor[x] # None => ledger.revokedFor[x] \in Requests
    BY DEF IInv, TypeOK, Ledgers
  <2> QED BY <1>1, <1>7, <2>1 DEF IInv, RevokedBySender
<1> QED BY <1>5, <1>6, <1>8, <1>9, <1>10, <1>11, <1>12, <1>13 DEF IInv

\* The goroutine's steps before it sends, and its failures.
LEMMA PreparingStep ==
  ASSUME IInv, NEW s \in Senders,
         \/ EstimateGas(s) \/ GetNonce(s) \/ CallFails(s)
         \/ s \in Requests /\ RevokeStart(s)
         \/ s \in Ids /\ DeadlinePasses(s)
  PROVE  IInv'
<1> USE TwoKinds
<1>1. sender[s] \in Goroutines /\ sender \in [Senders -> Goroutines] /\ TypeOK /\ sender[s].pc # "idle"
  BY DEF IInv, TypeOK, EstimateGas, GetNonce, CallFails, RevokeStart, DeadlinePasses
<1>2. /\ RowsKept /\ TxsKept(s)
      /\ UNCHANGED <<seq, job, reissue, request, ctx, client, offline, mined, ledger>>
  BY NothingKept DEF EstimateGas, GetNonce, CallFails, RevokeStart, DeadlinePasses, chainVars
<1>3. CASE EstimateGas(s)
  <2>1. PICK pc \in {"numbering", "failed"} : sender' = [sender EXCEPT ![s].pc = pc]
    BY <1>3 DEF EstimateGas
  <2> DEFINE r == [pc |-> pc, id |-> sender[s].id, nonce |-> sender[s].nonce]
  <2>2. r \in Goroutines /\ sender' = [sender EXCEPT ![s] = r]
    BY <1>1, <2>1, MovedSender DEF Active, Failures
  <2>3. MayMove(s, r)
    BY <1>1, <2>2 DEF MayMove
  <2> QED BY <1>2, <2>2, <2>3, SenderStep
<1>4. CASE GetNonce(s)
  <2>1. PICK n \in PendingNonces : sender' = [sender EXCEPT ![s] = [pc |-> "sending", id |-> @.id, nonce |-> n]]
    BY <1>4 DEF GetNonce
  <2>2. n \in Nat
    <3>1. mined \in Nat /\ \A t \in Senders : tx[t].nonce \in Nat
      BY DEF IInv, TypeOK, Transactions
    <3>2. n = mined \/ \E t \in Senders : n = tx[t].nonce + 1
      BY DEF PendingNonces, Pending
    <3> QED BY <3>1, <3>2
  <2> DEFINE r == [pc |-> "sending", id |-> sender[s].id, nonce |-> n]
  <2>3. r \in Goroutines /\ sender' = [sender EXCEPT ![s] = r]
    BY <1>1, <2>1, <2>2 DEF Goroutines, Active
  <2>4. MayMove(s, r)
    BY <1>1, <2>3 DEF MayMove
  <2> QED BY <1>2, <2>3, <2>4, SenderStep
<1>5. CASE CallFails(s) \/ (s \in Ids /\ DeadlinePasses(s))
  <2> DEFINE r == [pc |-> "failed", id |-> sender[s].id, nonce |-> 0]
  <2>1. r \in Goroutines /\ sender' = [sender EXCEPT ![s] = r]
    BY <1>1, <1>5, EndedSender DEF CallFails, DeadlinePasses, Failures
  <2>2. MayMove(s, r)
    BY <1>1, <2>1 DEF MayMove
  <2> QED BY <1>2, <2>1, <2>2, SenderStep
<1>6. CASE s \in Requests /\ RevokeStart(s)
  <2> DEFINE r == [pc |-> "estimating", id |-> ctx[s].path, nonce |-> 0]
  <2>1. ctx[s].path \in Ids
    BY <1>6 DEF IInv, TypeOK
  <2>2. r \in Goroutines /\ sender' = [sender EXCEPT ![s] = r]
    BY <1>6, <2>1 DEF RevokeStart, Goroutines, Active
  <2>3. MayMove(s, r)
    BY <1>1, <1>6, <2>2 DEF MayMove, RevokeStart
  <2> QED BY <1>2, <2>2, <2>3, SenderStep
<1> QED BY <1>3, <1>4, <1>5, <1>6

LEMMA SendStep ==
  ASSUME IInv, NEW s \in Senders, SendTransaction(s)
  PROVE  IInv'
<1> USE TwoKinds
<1>1. /\ sender[s] \in Goroutines /\ TypeOK /\ sender[s].pc = "sending" /\ sender[s].nonce \in Nat
      /\ UNCHANGED <<seq, rows, job, reissue, request, ctx, client, offline, mined, ledger>>
  BY DEF IInv, TypeOK, SendTransaction, Goroutines
<1>2. RowsKept
  BY <1>1, NothingKept
<1>3. TxsKept(s)
  <2> DEFINE sent == [status |-> "pending", nonce |-> sender[s].nonce]
  <2>1. sent \in Transactions /\ sent.status # "ok"
    BY <1>1 DEF Transactions
  <2>2. tx' = tx \/ tx' = [tx EXCEPT ![s] = sent]
    BY DEF SendTransaction
  <2> HIDE DEF sent
  <2>3. CASE tx' = [tx EXCEPT ![s] = sent]
    BY <1>1, <2>1, <2>3 DEF TxsKept, TypeOK
  <2> QED BY <2>2, <2>3, NothingKept
<1>4. PICK pc \in {"waiting", "failed"} : sender' = Ended(s, pc)
  BY DEF SendTransaction
<1> DEFINE r == [pc |-> pc, id |-> sender[s].id, nonce |-> 0]
<1>5. r \in Goroutines /\ sender' = [sender EXCEPT ![s] = r]
  BY <1>1, <1>4, EndedSender DEF Active, Failures
<1>6. MayMove(s, r)
  BY <1>1, <1>5 DEF MayMove
<1> QED BY <1>1, <1>2, <1>3, <1>5, <1>6, SenderStep

\* What a mined transaction does to the ledger: it fills one entry that was empty, or nothing.
LEMMA ExecuteFills ==
  ASSUME TypeOK, NEW l \in Ledgers, NEW s \in Senders
  PROVE  LET n == Execute(l, s) IN
         /\ n \in Ledgers
         /\ \A id \in Ids : l.hash[id] # None => n.hash[id] = l.hash[id]
         /\ \A id \in Ids : l.revokedFor[id] # None => n.revokedFor[id] = l.revokedFor[id]
         /\ \A id \in Ids : n.revokedFor[id] \in {l.revokedFor[id], s}
         /\ Accepts(l, s) /\ (s \in Ids => sender[s].id = s) => OnChain(n, s)
<1> USE TwoKinds
<1> DEFINE id == sender[s].id
           recorded == [hash |-> [l.hash EXCEPT ![id] = id], revokedFor |-> l.revokedFor]
           revoked == [hash |-> l.hash, revokedFor |-> [l.revokedFor EXCEPT ![id] = s]]
<1>1. id \in Ids
  BY DEF TypeOK, Goroutines
<1>2. l.hash \in [Ids -> Ids \cup {None}] /\ l.revokedFor \in [Ids -> Requests \cup {None}]
  BY DEF Ledgers
<1>3. [l EXCEPT !.hash[id] = id] = recorded /\ [l EXCEPT !.revokedFor[id] = s] = revoked
  BY DEF Ledgers
<1> HIDE DEF id
<1>4. CASE ~Accepts(l, s)
  BY <1>4 DEF Execute
<1>5. CASE Accepts(l, s) /\ s \in Ids
  <2>1. Execute(l, s) = recorded
    BY <1>3, <1>5 DEF Execute, id
  <2>2. l.hash[id] = None
    BY <1>5 DEF Accepts, id
  <2>3. recorded \in Ledgers
    BY <1>1, <1>2 DEF Ledgers
  <2>4. /\ \A x \in Ids : l.hash[x] # None => recorded.hash[x] = l.hash[x]
        /\ recorded.revokedFor = l.revokedFor /\ recorded.hash[id] = id
    BY <1>1, <1>2, <2>2
  <2>5. id = s => OnChain(recorded, s)
    BY <1>5, <2>4 DEF OnChain
  <2> HIDE DEF recorded
  <2> QED BY <1>5, <2>1, <2>3, <2>4, <2>5 DEF id
<1>6. CASE Accepts(l, s) /\ s \notin Ids
  <2>1. Execute(l, s) = revoked /\ s \in Requests
    BY <1>3, <1>6 DEF Execute, Reason, Senders, id
  <2>2. l.revokedFor[id] = None
    BY <1>6 DEF Accepts, id
  <2>3. revoked \in Ledgers
    BY <1>1, <1>2, <2>1 DEF Ledgers
  <2>4. /\ \A x \in Ids : l.revokedFor[x] # None => revoked.revokedFor[x] = l.revokedFor[x]
        /\ \A x \in Ids : revoked.revokedFor[x] \in {l.revokedFor[x], s}
        /\ revoked.hash = l.hash /\ revoked.revokedFor[id] = s
    BY <1>1, <1>2, <2>2
  <2>5. OnChain(revoked, s)
    BY <1>6, <2>4 DEF OnChain, id
  <2> HIDE DEF revoked
  <2> QED BY <1>6, <2>1, <2>3, <2>4, <2>5
<1> QED BY <1>4, <1>5, <1>6

LEMMA MineStep ==
  ASSUME IInv, NEW s \in Senders, Mine(s)
  PROVE  IInv'
<1> USE TwoKinds
<1>1. /\ TypeOK /\ tx[s].status = "pending" /\ ledger \in Ledgers /\ mined \in Nat
      /\ tx \in [Senders -> Transactions]
      /\ mined' = mined + 1 /\ ledger' = Execute(ledger, s)
      /\ UNCHANGED <<seq, rows, job, reissue, request, ctx, client, offline, sender>>
  BY DEF IInv, TypeOK, Mine, Pending, senderVars
<1>2. sender[s].pc \notin {"idle", "spawned"} /\ (s \in Ids => sender[s].id = s)
  BY <1>1 DEF IInv, UnsentAtFirst, SendersFollowJobs
<1>3. /\ ledger' \in Ledgers
      /\ \A id \in Ids : ledger.hash[id] # None => ledger'.hash[id] = ledger.hash[id]
      /\ \A id \in Ids : ledger.revokedFor[id] # None => ledger'.revokedFor[id] = ledger.revokedFor[id]
      /\ \A id \in Ids : ledger'.revokedFor[id] \in {ledger.revokedFor[id], s}
      /\ Accepts(ledger, s) => OnChain(ledger', s)
  <2> DEFINE n == Execute(ledger, s)
  <2>1. TypeOK /\ ledger \in Ledgers
    BY <1>1
  <2>2. /\ n \in Ledgers
        /\ \A id \in Ids : ledger.hash[id] # None => n.hash[id] = ledger.hash[id]
        /\ \A id \in Ids : ledger.revokedFor[id] # None => n.revokedFor[id] = ledger.revokedFor[id]
        /\ \A id \in Ids : n.revokedFor[id] \in {ledger.revokedFor[id], s}
        /\ Accepts(ledger, s) /\ (s \in Ids => sender[s].id = s) => OnChain(n, s)
    BY <2>1, ExecuteFills
  <2>3. ledger' = n
    BY <1>1
  <2> HIDE DEF n
  <2> QED BY <1>2, <2>2, <2>3
<1>4. ASSUME NEW t \in Senders
      PROVE  /\ tx'[t] \in Transactions
             /\ tx[t].status = "unsent" => tx'[t].status = "unsent"
             /\ tx'[t].status = "ok" => tx[t].status = "ok" \/ (t = s /\ Accepts(ledger, s))
  <2>1. tx[t] \in Transactions
    BY <1>1
  <2>2. CASE t \in Pending /\ tx[t].nonce = mined
    <3> DEFINE pc == IF t # s THEN "gone" ELSE IF Accepts(ledger, s) THEN "ok" ELSE "reverted"
    <3>1. tx'[t] = [tx[t] EXCEPT !.status = pc]
      BY <2>2 DEF Mine
    <3>2. tx[t].status = "pending"
      BY <2>2 DEF Pending
    <3>3. /\ pc \in {"gone", "ok", "reverted"}
          /\ pc = "ok" => t = s /\ Accepts(ledger, s)
      OBVIOUS
    <3> HIDE DEF pc
    <3> QED BY <2>1, <3>1, <3>2, <3>3 DEF Transactions
  <2>3. CASE ~(t \in Pending /\ tx[t].nonce = mined)
    <3>1. tx'[t] = tx[t]
      BY <2>3 DEF Mine
    <3> QED BY <2>1, <3>1
  <2> QED BY <2>2, <2>3
<1>5. TypeOK'
  <2>1. tx' = [t \in Senders |-> tx'[t]]
    BY DEF Mine
  <2>2. tx' \in [Senders -> Transactions]
    BY <1>4, <2>1
  <2> QED BY <1>1, <1>3, <2>2 DEF TypeOK
<1>6. RowsFollowJobs' /\ SendersFollowJobs' /\ RequestsHaveRows' /\ RevokedByRequest'
  BY <1>1 DEF IInv, RowsFollowJobs, SendersFollowJobs, RequestsHaveRows, RevokedByRequest, RowRevoked
<1>7. UnsentAtFirst'
  BY <1>1, <1>4 DEF IInv, UnsentAtFirst
<1>8. MinedIsOnChain'
  <2> SUFFICES ASSUME NEW t \in Senders, tx'[t].status = "ok" PROVE OnChain(ledger', t)
    BY <1>1 DEF MinedIsOnChain, OnChain
  <2>1. CASE t = s /\ Accepts(ledger, s)
    BY <1>3, <2>1
  <2>2. CASE tx[t].status = "ok"
    <3>1. OnChain(ledger, t)
      BY <2>2 DEF IInv, MinedIsOnChain
    <3>2. t \in Ids \/ t \in Requests
      BY DEF Senders
    <3>3. sender[t].id \in Ids
      BY <1>1 DEF TypeOK, Goroutines
    <3>4. CASE t \in Ids
      <4>1. ledger.hash[t] = t
        BY <3>1, <3>4 DEF OnChain
      <4>2. ledger'.hash[t] = t
        BY <1>3, <3>4, <4>1
      <4> QED BY <3>4, <4>2 DEF OnChain
    <3>5. CASE t \notin Ids
      <4>1. ledger.revokedFor[sender[t].id] = t /\ t # None
        BY <3>1, <3>2, <3>5 DEF OnChain
      <4>2. ledger'.revokedFor[sender[t].id] = t
        BY <1>3, <3>3, <4>1
      <4> QED BY <3>5, <4>2 DEF OnChain
    <3> QED BY <3>4, <3>5
  <2> QED BY <1>4, <2>1, <2>2
<1>9. StoredIsOnChain'
  BY <1>1, <1>3 DEF IInv, StoredIsOnChain
<1>10. ConfirmedIsOnChain'
  <2>1. ASSUME NEW id \in Ids, rows[id] # None, rows[id].anchored PROVE ledger'.hash[id] = id
    BY <1>3, <2>1 DEF IInv, ConfirmedIsOnChain
  <2>2. ASSUME NEW q \in Requests, sender[q].pc = "succeeded" PROVE ledger'.revokedFor[sender[q].id] = q
    <3>1. ledger.revokedFor[sender[q].id] = q /\ sender[q].id \in Ids
      BY <2>2 DEF IInv, ConfirmedIsOnChain, TypeOK, Goroutines
    <3> QED BY <1>3, <3>1
  <2> QED BY <1>1, <2>1, <2>2 DEF ConfirmedIsOnChain
<1>11. RevokedBySender'
  BY <1>1, <1>2, <1>3 DEF IInv, RevokedBySender
<1> QED BY <1>5, <1>6, <1>7, <1>8, <1>9, <1>10, <1>11 DEF IInv

LEMMA WaitStep ==
  ASSUME IInv, NEW s \in Senders, WaitForReceipt(s)
  PROVE  IInv'
<1> USE TwoKinds
<1>1. /\ TypeOK /\ sender[s].pc = "waiting" /\ tx[s].status \in {"ok", "reverted"}
      /\ RowsKept /\ TxsKept(s)
      /\ UNCHANGED <<seq, job, reissue, request, ctx, client, offline, mined, ledger>>
  BY NothingKept DEF IInv, WaitForReceipt, chainVars
<1>2. PICK pc \in {"failed", "storing", "succeeded"} :
         /\ sender' = Ended(s, pc)
         /\ pc # "failed" => tx[s].status = "ok"
         /\ s \notin Ids => pc # "storing"
  BY DEF WaitForReceipt
<1> DEFINE r == [pc |-> pc, id |-> sender[s].id, nonce |-> 0]
<1>3. r \in Goroutines /\ sender' = [sender EXCEPT ![s] = r]
  BY <1>1, <1>2, EndedSender DEF Active, Failures
<1>4. pc # "failed" => OnChain(ledger, s)
  BY <1>2 DEF IInv, MinedIsOnChain
<1>5. MayMove(s, r)
  BY <1>1, <1>2, <1>3, <1>4 DEF MayMove, OnChain
<1> QED BY <1>1, <1>3, <1>5, SenderStep

LEMMA StoreStep ==
  ASSUME IInv, NEW id \in Ids, StoreTxHash(id)
  PROVE  IInv'
<1> USE TwoKinds
<1> DEFINE r == [pc |-> "succeeded", id |-> sender[id].id, nonce |-> 0]
           row == [rows[id] EXCEPT !.anchored = TRUE]
<1>1. /\ TypeOK /\ sender[id].pc = "storing" /\ TxsKept(id) /\ id \in Senders
      /\ UNCHANGED <<seq, job, reissue, request, ctx, client, offline, mined, ledger>>
  BY NothingKept DEF IInv, StoreTxHash, chainVars
<1>2. ledger.hash[id] = id
  BY <1>1 DEF IInv, StoredIsOnChain
<1>3. r \in Goroutines /\ sender' = [sender EXCEPT ![id] = r]
  BY <1>1, EndedSender DEF StoreTxHash
<1>4. MayMove(id, r)
  BY <1>1, <1>2, <1>3 DEF MayMove
<1>5. rows[id] # None => row \in Rows /\ row # None /\ row.status = rows[id].status
  <2>1. ASSUME rows[id] # None PROVE row \in Rows /\ row.status = rows[id].status
    <3>1. rows[id] \in Rows
      BY <1>1, <2>1 DEF TypeOK
    <3> QED BY <3>1 DEF Rows
  <2> QED BY <2>1
<1>6. rows' = rows \/ (rows[id] # None /\ rows' = [rows EXCEPT ![id] = row])
  BY <1>1 DEF StoreTxHash, TypeOK
<1> HIDE DEF row, r
<1>7. RowsKept
  <2>1. CASE rows[id] # None /\ rows' = [rows EXCEPT ![id] = row]
    BY <1>1, <1>2, <1>5, <2>1 DEF RowsKept, TypeOK
  <2> QED BY <1>6, <2>1, NothingKept
<1> QED BY <1>1, <1>3, <1>4, <1>7, SenderStep

-------------------------------------------------------------------------------
LEMMA InitInvariant == Init => IInv
<1> SUFFICES ASSUME Init PROVE IInv
  OBVIOUS
<1> USE TwoKinds DEF Init
<1>1. TypeOK
  <2>1. Idle \in Goroutines
    BY DEF Idle, Goroutines
  <2>2. request \in [Requests -> Handlers]
    BY DEF Handlers
  <2>3. ledger \in Ledgers
    BY DEF Ledgers
  <2>4. seq \in 0..MaxBadges /\ mined \in Nat
    BY ServiceAssumption
  <2>5. rows \in [Ids -> Rows \cup {None}] /\ reissue \subseteq Ids /\ offline \subseteq Senders
    OBVIOUS
  <2>6. job \in [Ids -> {"none", "signed", "unhashed", "saved", "done", "failed"}]
    OBVIOUS
  <2>7. ctx \in [Requests -> [held : BOOLEAN, path : Ids]] /\ client \in BOOLEAN
    BY DEF Clients
  <2>8. sender \in [Senders -> Goroutines]
    BY <2>1
  <2>9. tx \in [Senders -> Transactions]
    BY DEF Transactions
  <2> QED BY <2>2, <2>3, <2>4, <2>5, <2>6, <2>7, <2>8, <2>9 DEF TypeOK
<1>2. RowsFollowJobs /\ SendersFollowJobs /\ RequestsHaveRows /\ RevokedByRequest
  BY DEF RowsFollowJobs, SendersFollowJobs, RequestsHaveRows, RevokedByRequest, RowRevoked, Idle
<1>3. UnsentAtFirst /\ MinedIsOnChain /\ StoredIsOnChain /\ ConfirmedIsOnChain /\ RevokedBySender
  BY DEF UnsentAtFirst, MinedIsOnChain, StoredIsOnChain, ConfirmedIsOnChain, RevokedBySender, Idle
<1> QED BY <1>1, <1>2, <1>3 DEF IInv

LEMMA StepInvariant == IInv /\ [Next]_serviceVars => IInv'
<1> SUFFICES ASSUME IInv, [Next]_serviceVars PROVE IInv'
  OBVIOUS
<1> USE TwoKinds
<1>1. CASE UNCHANGED serviceVars
  <2>1. /\ UNCHANGED <<seq, rows, job, reissue, request, ctx, client, offline, sender, tx, mined, ledger>>
        /\ UNCHANGED <<senderVars, chainVars>>
    BY <1>1 DEF serviceVars, senderVars, chainVars
  <2>2. TypeOK'
    BY <2>1 DEF IInv, TypeOK
  <2> QED BY <2>1, <2>2, ChainKept DEF IInv, RowsFollowJobs, SendersFollowJobs, ConfirmedIsOnChain,
               RequestsHaveRows, RevokedByRequest, RowRevoked
<1>2. ASSUME NEW id \in Ids, Issue(id) PROVE IInv'
  BY <1>2, NextCredentialStep DEF Issue, IssueBadge, ReissueBadge
<1>3. ASSUME NEW id \in Ids, Job(id) PROVE IInv'
  BY <1>3, UnhashedStep, SaveBadgeStep, DeliverStep DEF Job
<1>4. ASSUME NEW s \in Senders, Send(s) PROVE IInv'
  BY <1>4, PreparingStep, SendStep, WaitStep DEF Send
<1>5. ASSUME NEW id \in Ids, Record(id) PROVE IInv'
  BY <1>4, <1>5, PreparingStep, StoreStep DEF Record
<1>6. ASSUME NEW q \in Requests, Revoke(q) PROVE IInv'
  BY <1>4, <1>6, PreparingStep, DieStep DEF Revoke, RevokePanics
<1>7. ASSUME NEW q \in Requests, Handler(q) \/ CtxReused(q) PROVE IInv'
  BY <1>7, RevokeUpdateStep, RevokeReturnStep, CtxReusedStep DEF Handler
<1>8. CASE Crash
  BY <1>8, DieStep DEF Crash
<1> QED BY <1>1, <1>2, <1>3, <1>5, <1>6, <1>7, <1>8, MineStep, RevokeLookupStep DEF Next

LEMMA Invariance == Spec => []IInv
BY InitInvariant, StepInvariant, PTL DEF Spec

\* The service keeps its types: no step takes a value out of its domain, nonces
\* and the account's nonce included.
THEOREM ServiceTyped == Spec => []TypeOK
BY Invariance, PTL DEF IInv

\* Rows that show a transaction hash, and goroutines that report success, are
\* right about the chain, whichever transactions replaced or overtook others.
THEOREM ServiceConfirmsWhatIsOnChain == Spec => []ConfirmedIsOnChain
BY Invariance, PTL DEF IInv

\* An issued badge that is missing on the chain has its recordOnChain at work or
\* failed, or was issued by a process without a chain client.
THEOREM ServiceUnrecordedHasCause == Spec => []UnrecordedHasCause
<1>1. IInv => UnrecordedHasCause
  <2> SUFFICES ASSUME IInv, NEW id \in Ids, job[id] = "done", id \notin reissue, ledger.hash[id] = None
               PROVE  sender[id].pc \in Active \cup Failures \/ id \in offline
    BY DEF UnrecordedHasCause
  <2>1. sender[id] \in Goroutines
    BY TwoKinds DEF IInv, TypeOK
  <2>2. (sender[id].pc # "idle" \/ id \in offline) /\ sender[id].pc # "succeeded"
    BY TwoKinds DEF IInv, SendersFollowJobs, StoredIsOnChain
  <2> QED BY <2>1, <2>2 DEF Goroutines
<1> QED BY <1>1, Invariance, PTL

\* A badge that is revoked in the database and not on the chain is explained by
\* a request: at work, failed, without a chain client, or sent with another id.
THEOREM ServiceDivergenceHasCause == Spec => []DivergenceHasCause
<1>1. IInv => DivergenceHasCause
  <2> SUFFICES ASSUME IInv, NEW id \in Ids, rows[id] # None, rows[id].status = "revoked",
                      ledger.revokedFor[id] = None
               PROVE  \E q \in Requests : /\ request[q].id = id
                                          /\ \/ sender[q].pc \in Active \cup Failures
                                             \/ request[q].pc = "failed" \/ q \in offline
                                             \/ sender[q].pc = "succeeded" /\ sender[q].id # id
    BY DEF DivergenceHasCause
  <2>1. PICK q \in Requests : request[q].id = id /\ request[q].pc \in {"answering", "done", "failed"}
    BY DEF IInv, RevokedByRequest, RowRevoked
  <2>2. sender[q] \in Goroutines
    BY TwoKinds DEF IInv, TypeOK
  <2>3. request[q].pc # "failed" => sender[q].pc # "idle" \/ q \in offline
    BY <2>1 DEF IInv, RequestsHaveRows
  <2>4. sender[q].pc = "succeeded" => sender[q].id # id
    BY <2>1, TwoKinds DEF IInv, ConfirmedIsOnChain
  <2>5. sender[q].pc \in {"idle", "succeeded"} \cup Active \cup Failures
    BY <2>2 DEF Goroutines
  <2> QED BY <2>1, <2>3, <2>4, <2>5
<1> QED BY <1>1, Invariance, PTL

\* What the chain holds as revoked for a request, the row of its badge says too.
THEOREM ServiceRevocationFollowsRow == Spec => []RevocationFollowsRow
<1>1. IInv => RevocationFollowsRow
  <2> SUFFICES ASSUME IInv, NEW id \in Ids, ledger.revokedFor[id] # None
               PROVE  RowRevoked(request[ledger.revokedFor[id]].id)
    BY DEF RevocationFollowsRow, RowRevoked
  <2>1. ledger.revokedFor[id] \in Requests
    BY DEF IInv, TypeOK, Ledgers
  <2>2. sender[ledger.revokedFor[id]].pc # "idle"
    BY DEF IInv, RevokedBySender
  <2> QED BY <2>1, <2>2 DEF IInv, RequestsHaveRows
<1> QED BY <1>1, Invariance, PTL

\* No order of saves, revocations and late updates takes a row back.
THEOREM ServiceRowsOnlyAdvance == Spec => RowsOnlyAdvance
<1> DEFINE A == \A id \in Ids : rows[id] # None =>
                   /\ rows'[id] # None
                   /\ rows[id].status = "revoked" => rows'[id].status = "revoked"
                   /\ rows[id].anchored => rows'[id].anchored
<1>1. ASSUME IInv, Next PROVE A
  <2> USE TwoKinds
  <2>1. ASSUME rows' = rows PROVE A
    BY <2>1
  <2>2. ASSUME NEW id \in Ids, SaveBadge(id) PROVE A
    <3>1. rows[id] = None /\ \A x \in Ids \ {id} : rows'[x] = rows[x]
      BY <1>1, <2>2 DEF IInv, TypeOK, RowsFollowJobs, SaveBadge
    <3> QED BY <3>1
  <2>3. ASSUME NEW q \in Requests, RevokeUpdate(q) PROVE A
    <3> DEFINE id == request[q].id
    <3>1. id \in Ids /\ rows[id] \in Rows
      BY <1>1, <2>3 DEF IInv, TypeOK, RequestsHaveRows, RevokeUpdate, Handlers
    <3>2. /\ RevokedRow(q) \in Rows /\ RevokedRow(q).status = "revoked"
          /\ RevokedRow(q).anchored = rows[id].anchored
      BY <3>1 DEF RevokedRow, Rows
    <3>3. rows'[id] \in {rows[id], RevokedRow(q)} /\ \A x \in Ids \ {id} : rows'[x] = rows[x]
      BY <1>1, <2>3, <3>1 DEF IInv, TypeOK, RevokeUpdate
    <3> QED BY <3>1, <3>2, <3>3
  <2>4. ASSUME NEW id \in Ids, StoreTxHash(id) PROVE A
    <3>1. CASE rows' = rows
      BY <2>1, <3>1
    <3>2. CASE rows[id] # None /\ rows' = [rows EXCEPT ![id].anchored = TRUE]
      <4>1. rows[id] \in Rows /\ rows \in [Ids -> Rows \cup {None}]
        BY <1>1, <3>2 DEF IInv, TypeOK
      <4>2. LET row == [rows[id] EXCEPT !.anchored = TRUE] IN
            row \in Rows /\ row.status = rows[id].status /\ row.anchored
        BY <4>1 DEF Rows
      <4>3. rows'[id] = [rows[id] EXCEPT !.anchored = TRUE] /\ \A x \in Ids \ {id} : rows'[x] = rows[x]
        BY <3>2, <4>1
      <4> QED BY <4>2, <4>3
    <3> QED BY <2>4, <3>1, <3>2 DEF StoreTxHash
  <2>5. ASSUME NEW s \in Senders, Send(s) PROVE A
    <3>1. rows' = rows
      BY <2>5 DEF Send, EstimateGas, GetNonce, SendTransaction, WaitForReceipt, CallFails
    <3> QED BY <2>1, <3>1
  <2>6. ASSUME NEW id \in Ids, Issue(id) \/ Job(id) \/ Record(id) PROVE A
    <3>1. rows' = rows \/ SaveBadge(id) \/ StoreTxHash(id) \/ Send(id)
      BY <2>6 DEF Issue, IssueBadge, ReissueBadge, NextCredential, Job, DeliverUnhashed, Deliver, Record,
         DeadlinePasses
    <3> QED BY <2>1, <2>2, <2>4, <2>5, <3>1
  <2>7. ASSUME NEW q \in Requests, Handler(q) \/ CtxReused(q) \/ Revoke(q) PROVE A
    <3>1. rows' = rows \/ RevokeUpdate(q) \/ Send(q)
      BY <2>7 DEF Handler, RevokeReturn, CtxReused, Revoke, RevokeStart, RevokePanics, Die
    <3> QED BY <2>1, <2>3, <2>5, <3>1
  <2>8. ASSUME (\E s \in Senders : Mine(s)) \/ Crash \/ (\E q \in Requests, id \in Ids : RevokeLookup(q, id)) PROVE A
    <3>1. rows' = rows
      BY <2>8 DEF Mine, Crash, Die, RevokeLookup
    <3> QED BY <2>1, <3>1
  <2> QED BY <1>1, <2>6, <2>7, <2>8 DEF Next
<1>2. IInv /\ [Next]_serviceVars => [A]_serviceVars
  BY <1>1
<1> HIDE DEF A
<1>3. Spec => [][A]_serviceVars
  BY <1>2, Invariance, PTL DEF Spec
<1> QED BY <1>3 DEF RowsOnlyAdvance, A

===============================================================================
