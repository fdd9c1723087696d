----------------------------- MODULE BadgeRegistry -----------------------------
(***************************************************************************)
(* contracts/BadgeRegistry.sol.  A transaction is one step; one that       *)
(* reverts changes nothing and is not a step.  Transactions of one block   *)
(* share its timestamp, so the clock moves on its own.                     *)
(***************************************************************************)
EXTENDS Integers, Sequences, FiniteSets, Functions

CONSTANTS
    Ids,         \* credential ids
    Hashes,      \* badge hashes, ZeroHash among them
    ZeroHash,    \* bytes32(0)
    Reasons,     \* revocation reasons
    Accounts,    \* addresses that send transactions
    ZeroAddress, \* address(0), which sends none
    NoReason,    \* the reason of an empty revocation entry
    MaxBatch,    \* bound: entries in a batch
    MaxTime      \* bound: last block timestamp

ASSUME RegistryAssumption ==
    /\ ZeroHash \in Hashes
    /\ NoReason \notin Reasons \cup Hashes
    /\ Accounts # {} /\ ZeroAddress \notin Accounts
    /\ MaxBatch \in Nat
    /\ MaxTime \in Nat \ {0}

VARIABLES
    owner,
    isIssued, issuances, issuedBadges,
    isRevoked, revocations, revokedBadges,
    now          \* block.timestamp

registryVars ==
    <<owner, isIssued, issuances, issuedBadges, isRevoked, revocations, revokedBadges, now>>

Issuances == [badgeHash : Hashes, issuedAt : Nat]
Revocations == [reason : Reasons \cup {NoReason}, revokedAt : Nat]

\* A mapping's value for a key that was never written.
EmptyIssuance == [badgeHash |-> ZeroHash, issuedAt |-> 0]
EmptyRevocation == [reason |-> NoReason, revokedAt |-> 0]

Batches(S) == UNION {[1..n -> S] : n \in 0..MaxBatch}

Init ==
    /\ owner \in Accounts
    /\ isIssued = [id \in Ids |-> FALSE]
    /\ issuances = [id \in Ids |-> EmptyIssuance]
    /\ issuedBadges = <<>>
    /\ isRevoked = [id \in Ids |-> FALSE]
    /\ revocations = [id \in Ids |-> EmptyRevocation]
    /\ revokedBadges = <<>>
    /\ now = 1

-------------------------------------------------------------------------------
\* Faulty variants: a recorded id is recorded again; a zero hash is taken.
recordAgain(sender, id, h) ==
    /\ sender = owner
    /\ h # ZeroHash
    /\ isIssued' = [isIssued EXCEPT ![id] = TRUE]
    /\ issuances' = [issuances EXCEPT ![id] = [badgeHash |-> h, issuedAt |-> now]]
    /\ issuedBadges' = Append(issuedBadges, id)
    /\ UNCHANGED <<owner, isRevoked, revocations, revokedBadges, now>>

recordZeroHash(sender, id, h) ==
    /\ sender = owner
    /\ ~isIssued[id]
    /\ isIssued' = [isIssued EXCEPT ![id] = TRUE]
    /\ issuances' = [issuances EXCEPT ![id] = [badgeHash |-> h, issuedAt |-> now]]
    /\ issuedBadges' = Append(issuedBadges, id)
    /\ UNCHANGED <<owner, isRevoked, revocations, revokedBadges, now>>

recordIssuance(sender, id, h) ==
    /\ sender = owner
    /\ ~isIssued[id]
    /\ h # ZeroHash
    /\ isIssued' = [isIssued EXCEPT ![id] = TRUE]
    /\ issuances' = [issuances EXCEPT ![id] = [badgeHash |-> h, issuedAt |-> now]]
    /\ issuedBadges' = Append(issuedBadges, id)
    /\ UNCHANGED <<owner, isRevoked, revocations, revokedBadges, now>>

\* Faulty variant: the flags are read before the loop, not in it.
RecordableBefore(ids, hs) == \A i \in 1..Len(ids) : ~isIssued[ids[i]] /\ hs[i] # ZeroHash

\* The loop reverts on an id that an earlier iteration has recorded, so a batch
\* that goes through names distinct ids, none of them recorded before.
Recordable(ids, hs) ==
    /\ \A i \in 1..Len(ids) : ~isIssued[ids[i]] /\ hs[i] # ZeroHash
    /\ IsInjective(ids)

\* The flags that the loop sets, one by one.
Flagged(flags, ids) == [id \in Ids |-> flags[id] \/ id \in Range(ids)]

batchRecordIssuance(sender, ids, hs) ==
    /\ sender = owner
    /\ Len(ids) > 0
    /\ Len(ids) = Len(hs)
    /\ Recordable(ids, hs)
    /\ isIssued' = Flagged(isIssued, ids)
    /\ issuances' = [id \in Ids |->
          IF id \in Range(ids)
          THEN [badgeHash |-> hs[CHOOSE i \in 1..Len(ids) : ids[i] = id], issuedAt |-> now]
          ELSE issuances[id]]
    /\ issuedBadges' = issuedBadges \o ids
    /\ UNCHANGED <<owner, isRevoked, revocations, revokedBadges, now>>

revokeBadge(sender, id, r) ==
    /\ sender = owner
    /\ isIssued[id]
    /\ ~isRevoked[id]
    /\ isRevoked' = [isRevoked EXCEPT ![id] = TRUE]
    /\ revocations' = [revocations EXCEPT ![id] = [reason |-> r, revokedAt |-> now]]
    /\ revokedBadges' = Append(revokedBadges, id)
    /\ UNCHANGED <<owner, isIssued, issuances, issuedBadges, now>>

\* Faulty variants: the flags are read before the loop; revoked badges are taken again.
RevocableBefore(ids) == \A i \in 1..Len(ids) : isIssued[ids[i]] /\ ~isRevoked[ids[i]]
RevocableAgain(ids) == (\A i \in 1..Len(ids) : isIssued[ids[i]]) /\ IsInjective(ids)

Revocable(ids) ==
    /\ \A i \in 1..Len(ids) : isIssued[ids[i]] /\ ~isRevoked[ids[i]]
    /\ IsInjective(ids)

batchRevoke(sender, ids, r) ==
    /\ sender = owner
    /\ Len(ids) > 0
    /\ Revocable(ids)
    /\ isRevoked' = Flagged(isRevoked, ids)
    /\ revocations' = [id \in Ids |->
          IF id \in Range(ids) THEN [reason |-> r, revokedAt |-> now] ELSE revocations[id]]
    /\ revokedBadges' = revokedBadges \o ids
    /\ UNCHANGED <<owner, isIssued, issuances, issuedBadges, now>>

\* Faulty variant: the contract may be given away for good.
transferToAnyone(sender, newOwner) ==
    /\ sender = owner
    /\ owner' = newOwner
    /\ UNCHANGED <<isIssued, issuances, issuedBadges, isRevoked, revocations, revokedBadges, now>>

transferOwnership(sender, newOwner) ==
    /\ sender = owner
    /\ newOwner # ZeroAddress
    /\ owner' = newOwner
    /\ UNCHANGED <<isIssued, issuances, issuedBadges, isRevoked, revocations, revokedBadges, now>>

NextBlock ==
    /\ now < MaxTime
    /\ now' = now + 1
    /\ UNCHANGED <<owner, isIssued, issuances, issuedBadges, isRevoked, revocations, revokedBadges>>

Transaction(sender) ==
    \/ \E id \in Ids, h \in Hashes : recordIssuance(sender, id, h)
    \/ \E ids \in Batches(Ids), hs \in Batches(Hashes) : batchRecordIssuance(sender, ids, hs)
    \/ \E id \in Ids, r \in Reasons : revokeBadge(sender, id, r)
    \/ \E ids \in Batches(Ids), r \in Reasons : batchRevoke(sender, ids, r)
    \/ \E newOwner \in Accounts \cup {ZeroAddress} : transferOwnership(sender, newOwner)

Next == (\E sender \in Accounts : Transaction(sender)) \/ NextBlock

Spec == Init /\ [][Next]_registryVars

-------------------------------------------------------------------------------
(* Queries.                                                                *)

verifyHash(id, h) ==
    IF isIssued[id]
    THEN [matches |-> issuances[id].badgeHash = h, issuedAt |-> issuances[id].issuedAt]
    ELSE [matches |-> FALSE, issuedAt |-> 0]

getBadgeStatus(id) ==
    [issued    |-> isIssued[id],
     revoked   |-> isRevoked[id],
     badgeHash |-> IF isIssued[id] THEN issuances[id].badgeHash ELSE ZeroHash,
     issuedAt  |-> IF isIssued[id] THEN issuances[id].issuedAt ELSE 0,
     revokedAt |-> IF isRevoked[id] THEN revocations[id].revokedAt ELSE 0]

-------------------------------------------------------------------------------
\* The shape of the contract's storage; the owner is an account that can send.
TypeOK ==
    /\ owner \in Accounts
    /\ isIssued \in [Ids -> BOOLEAN]
    /\ issuances \in [Ids -> Issuances]
    /\ issuedBadges \in Seq(Ids)
    /\ isRevoked \in [Ids -> BOOLEAN]
    /\ revocations \in [Ids -> Revocations]
    /\ revokedBadges \in Seq(Ids)
    /\ now \in Nat \ {0}

\* The enumerable lists (getIssuedBadges, getRevokedBadges and their counts) and
\* the mappings are written apart; they name the same badges, each once.
ListsMatchMappings ==
    /\ Range(issuedBadges) = {id \in Ids : isIssued[id]}
    /\ Range(revokedBadges) = {id \in Ids : isRevoked[id]}
    /\ IsInjective(issuedBadges) /\ IsInjective(revokedBadges)

\* Only a recorded badge is ever revoked, and not before it was recorded.
RevokedAfterIssued ==
    \A id \in Ids : isRevoked[id] =>
        /\ isIssued[id]
        /\ issuances[id].issuedAt =< revocations[id].revokedAt

\* A reader of getBadgeStatus can tell the three states of a badge from the
\* hash and the timestamps alone: zero exactly while the flag is off.
StatusIsUnambiguous ==
    \A id \in Ids :
        LET st == getBadgeStatus(id) IN
        /\ st.issued <=> st.badgeHash # ZeroHash
        /\ st.issued <=> st.issuedAt > 0
        /\ st.revoked <=> st.revokedAt > 0

\* What verifyHash says of a recorded badge, and the reason and time of a
\* revocation, no later transaction of any account changes.
RecordsArePermanent ==
    [][\A id \in Ids :
         /\ isIssued[id] => \A h \in Hashes : verifyHash(id, h)' = verifyHash(id, h)
         /\ isRevoked[id] => isRevoked'[id] /\ revocations'[id] = revocations[id]]_registryVars

\* The loops of the two batch functions, iteration by iteration, as the set of
\* the mappings they leave: one, or none if an iteration reverted.
RecordLoop(ids, hs) ==
    LET after[k \in 0..Len(ids)] ==
          IF k = 0 THEN {isIssued}
          ELSE {[m EXCEPT ![ids[k]] = TRUE] :
                  m \in {n \in after[k - 1] : ~n[ids[k]] /\ hs[k] # ZeroHash}}
    IN  after[Len(ids)]

RevokeLoop(ids) ==
    LET after[k \in 0..Len(ids)] ==
          IF k = 0 THEN {isRevoked}
          ELSE {[m EXCEPT ![ids[k]] = TRUE] :
                  m \in {n \in after[k - 1] : isIssued[ids[k]] /\ ~n[ids[k]]}}
    IN  after[Len(ids)]

\* A batch goes through exactly when no iteration of its loop reverts, repeated
\* ids included, whatever was recorded or revoked before, and then its flags are
\* those that the iterations leave.
BatchesFollowLoops ==
    /\ \A ids \in Batches(Ids), hs \in Batches(Hashes) : Len(ids) = Len(hs) =>
          RecordLoop(ids, hs) = IF Recordable(ids, hs) THEN {Flagged(isIssued, ids)} ELSE {}
    /\ \A ids \in Batches(Ids) :
          RevokeLoop(ids) = IF Revocable(ids) THEN {Flagged(isRevoked, ids)} ELSE {}

-------------------------------------------------------------------------------
Ledger == INSTANCE BadgeLedger WITH
    Hashes <- Hashes \ {ZeroHash},
    None <- NoReason,
    hash <- [id \in Ids |-> IF isIssued[id] THEN issuances[id].badgeHash ELSE NoReason],
    revokedFor <- [id \in Ids |-> IF isRevoked[id] THEN revocations[id].reason ELSE NoReason]

\* The registry keeps the ledger's promise: absent, recorded once, revoked once.
ImplementsLedger == Ledger!Ledger

===============================================================================
