-------------------------- MODULE BadgeRegistryProofs --------------------------
(***************************************************************************)
(* The registry's invariants, the permanence of its records and its        *)
(* implementation of the ledger, for any ids, hashes, reasons, accounts    *)
(* and batches.                                                            *)
(***************************************************************************)
EXTENDS BadgeRegistry, SequenceFacts, TLAPS

\* A flag is on exactly when its entry was written, with the time of a past block.
IssuedEntry(id) ==
    IF isIssued[id]
    THEN issuances[id].badgeHash # ZeroHash /\ issuances[id].issuedAt \in 1..now
    ELSE issuances[id] = EmptyIssuance

RevokedEntry(id) ==
    IF isRevoked[id]
    THEN /\ isIssued[id]
         /\ revocations[id].reason \in Reasons
         /\ revocations[id].revokedAt \in issuances[id].issuedAt..now
    ELSE revocations[id] = EmptyRevocation

IInv ==
    /\ TypeOK
    /\ ListsMatchMappings
    /\ \A id \in Ids : IssuedEntry(id) /\ RevokedEntry(id)

-------------------------------------------------------------------------------
\* The constructor leaves empty mappings and lists.
LEMMA InitIInv == Init => IInv
<1> SUFFICES ASSUME Init PROVE IInv
  OBVIOUS
<1>1. EmptyIssuance \in Issuances /\ EmptyRevocation \in Revocations
  BY RegistryAssumption DEF EmptyIssuance, EmptyRevocation, Issuances, Revocations
<1>2. TypeOK
  BY <1>1 DEF Init, TypeOK
<1>3. ListsMatchMappings
  BY EmptySequence DEF Init, ListsMatchMappings
<1>4. ASSUME NEW id \in Ids PROVE IssuedEntry(id) /\ RevokedEntry(id)
  BY DEF Init, IssuedEntry, RevokedEntry
<1> QED BY <1>2, <1>3, <1>4 DEF IInv

\* A batch is a sequence.
LEMMA BatchIsSequence ==
  ASSUME NEW S, NEW b \in Batches(S)
  PROVE  b \in Seq(S) /\ Len(b) \in Nat
<1>1. PICK n \in 0..MaxBatch : b \in [1..n -> S]
  BY DEF Batches
<1>2. n \in Nat
  BY <1>1, RegistryAssumption
<1>3. b \in Seq(S)
  BY <1>1, <1>2
<1> QED BY <1>3

\* What both record functions do: a set of new badges gets hashes, this block's
\* time, and a place at the end of the list.
LEMMA RecordKeeps ==
  ASSUME IInv, NEW ids \in Seq(Ids), IsInjective(ids),
         \A id \in Range(ids) : ~isIssued[id],
         \A id \in Ids : isIssued'[id] <=> (isIssued[id] \/ id \in Range(ids)),
         isIssued' \in [Ids -> BOOLEAN],
         issuances' \in [Ids -> Issuances],
         \A id \in Range(ids) :
            issuances'[id].badgeHash # ZeroHash /\ issuances'[id].issuedAt = now,
         \A id \in Ids \ Range(ids) : issuances'[id] = issuances[id],
         issuedBadges' = issuedBadges \o ids,
         UNCHANGED <<owner, isRevoked, revocations, revokedBadges, now>>
  PROVE  IInv'
<1> USE DEF IInv
<1>1. issuedBadges \in Seq(Ids) /\ Range(ids) \subseteq Ids /\ now \in Nat \ {0}
  BY SequenceRange DEF TypeOK
<1>2. issuedBadges' \in Seq(Ids)
  BY <1>1
<1>3. TypeOK'
  BY <1>2 DEF TypeOK
<1>4. Range(issuedBadges') = Range(issuedBadges) \cup Range(ids)
  BY <1>1, RangeConcat
<1>5. Range(issuedBadges) = {id \in Ids : isIssued[id]} /\ IsInjective(issuedBadges)
  BY DEF ListsMatchMappings
<1>6. IsInjective(issuedBadges')
  <2>1. Range(issuedBadges) \cap Range(ids) = {}
    BY <1>5
  <2>2. IsInjective(issuedBadges \o ids)
    BY <1>1, <1>5, <2>1, InjectiveConcat
  <2> QED BY <2>2
<1>7. ListsMatchMappings'
  <2>1. Range(issuedBadges') = {id \in Ids : isIssued'[id]}
    BY <1>1, <1>4, <1>5
  <2> QED BY <2>1, <1>6 DEF ListsMatchMappings
<1>8. ASSUME NEW id \in Ids PROVE IssuedEntry(id)' /\ RevokedEntry(id)'
  <2>1. CASE id \in Range(ids)
    <3>1. IssuedEntry(id)'
      BY <1>1, <2>1 DEF IssuedEntry
    <3>2. ~isRevoked[id]
      BY <2>1 DEF RevokedEntry
    <3>3. RevokedEntry(id)'
      BY <3>2 DEF RevokedEntry
    <3> QED BY <3>1, <3>3
  <2>2. CASE id \notin Range(ids)
    <3>1. (isIssued'[id] <=> isIssued[id]) /\ issuances'[id] = issuances[id]
      BY <2>2
    <3>2. IssuedEntry(id)'
      BY <3>1 DEF IssuedEntry
    <3>3. RevokedEntry(id)'
      BY <3>1 DEF RevokedEntry
    <3> QED BY <3>2, <3>3
  <2> QED BY <2>1, <2>2
<1> QED BY <1>3, <1>7, <1>8

\* What both revoke functions do.
LEMMA RevokeKeeps ==
  ASSUME IInv, NEW ids \in Seq(Ids), IsInjective(ids),
         \A id \in Range(ids) : isIssued[id] /\ ~isRevoked[id],
         \A id \in Ids : isRevoked'[id] <=> (isRevoked[id] \/ id \in Range(ids)),
         isRevoked' \in [Ids -> BOOLEAN],
         revocations' \in [Ids -> Revocations],
         \A id \in Range(ids) :
            revocations'[id].reason \in Reasons /\ revocations'[id].revokedAt = now,
         \A id \in Ids \ Range(ids) : revocations'[id] = revocations[id],
         revokedBadges' = revokedBadges \o ids,
         UNCHANGED <<owner, isIssued, issuances, issuedBadges, now>>
  PROVE  IInv'
<1> USE DEF IInv
<1>1. revokedBadges \in Seq(Ids) /\ Range(ids) \subseteq Ids /\ now \in Nat \ {0}
  BY SequenceRange DEF TypeOK
<1>2. revokedBadges' \in Seq(Ids)
  BY <1>1
<1>3. TypeOK'
  BY <1>2 DEF TypeOK
<1>4. Range(revokedBadges') = Range(revokedBadges) \cup Range(ids)
  BY <1>1, RangeConcat
<1>5. Range(revokedBadges) = {id \in Ids : isRevoked[id]} /\ IsInjective(revokedBadges)
  BY DEF ListsMatchMappings
<1>6. IsInjective(revokedBadges')
  <2>1. Range(revokedBadges) \cap Range(ids) = {}
    BY <1>5
  <2>2. IsInjective(revokedBadges \o ids)
    BY <1>1, <1>5, <2>1, InjectiveConcat
  <2> QED BY <2>2
<1>7. ListsMatchMappings'
  <2>1. Range(revokedBadges') = {id \in Ids : isRevoked'[id]}
    BY <1>1, <1>4, <1>5
  <2> QED BY <2>1, <1>6 DEF ListsMatchMappings
<1>8. ASSUME NEW id \in Ids PROVE IssuedEntry(id)' /\ RevokedEntry(id)'
  <2>1. IssuedEntry(id)'
    BY DEF IssuedEntry
  <2>2. CASE id \in Range(ids)
    <3>1. issuances[id].issuedAt \in 1..now
      BY <2>2 DEF IssuedEntry
    <3>2. RevokedEntry(id)'
      BY <1>1, <2>2, <3>1 DEF RevokedEntry
    <3> QED BY <2>1, <3>2
  <2>3. CASE id \notin Range(ids)
    <3>1. (isRevoked'[id] <=> isRevoked[id]) /\ revocations'[id] = revocations[id]
      BY <2>3
    <3>2. RevokedEntry(id)'
      BY <3>1 DEF RevokedEntry
    <3> QED BY <2>1, <3>2
  <2> QED BY <2>2, <2>3
<1> QED BY <1>3, <1>7, <1>8

\* The one-element batch of the single functions.
LEMMA Singleton ==
  ASSUME NEW id \in Ids, NEW s \in Seq(Ids)
  PROVE  /\ <<id>> \in Seq(Ids) /\ IsInjective(<<id>>) /\ Range(<<id>>) = {id}
         /\ Append(s, id) = s \o <<id>>
<1>1. Append(<<>>, id) = <<id>> /\ <<>> \in Seq(Ids)
  OBVIOUS
<1>2. Range(<<id>>) = {id}
  <2>1. PICK e \in Seq(Ids) : e = <<>>
    BY <1>1
  <2>2. Range(Append(e, id)) = Range(e) \cup {id}
    BY RangeAppend
  <2>3. Range(e) = {}
    BY <2>1, EmptySequence
  <2>4. Append(e, id) = <<id>>
    BY <2>1, <1>1
  <2> QED BY <2>2, <2>3, <2>4
<1>3. IsInjective(<<id>>)
  BY <1>1, EmptySequence, InjectiveAppend
<1> QED BY <1>2, <1>3

\* recordIssuance.
LEMMA RecordStep ==
  ASSUME IInv, NEW sender \in Accounts, NEW id \in Ids, NEW h \in Hashes,
         recordIssuance(sender, id, h)
  PROVE  IInv'
<1>1. /\ issuedBadges \in Seq(Ids) /\ isIssued \in [Ids -> BOOLEAN]
      /\ issuances \in [Ids -> Issuances] /\ now \in Nat
  BY DEF IInv, TypeOK
<1>2. /\ <<id>> \in Seq(Ids) /\ IsInjective(<<id>>) /\ Range(<<id>>) = {id}
      /\ issuedBadges' = issuedBadges \o <<id>>
  BY <1>1, Singleton DEF recordIssuance
<1>3. [badgeHash |-> h, issuedAt |-> now] \in Issuances
  BY <1>1 DEF Issuances
<1>4. /\ ~isIssued[id] /\ h # ZeroHash
      /\ isIssued' = [isIssued EXCEPT ![id] = TRUE]
      /\ issuances' = [issuances EXCEPT ![id] = [badgeHash |-> h, issuedAt |-> now]]
      /\ UNCHANGED <<owner, isRevoked, revocations, revokedBadges, now>>
  BY DEF recordIssuance
<1>5. isIssued' \in [Ids -> BOOLEAN] /\ \A i \in Ids : isIssued'[i] <=> (isIssued[i] \/ i \in {id})
  BY <1>1, <1>4
<1>6. /\ issuances' \in [Ids -> Issuances]
      /\ issuances'[id] = [badgeHash |-> h, issuedAt |-> now]
      /\ \A i \in Ids \ {id} : issuances'[i] = issuances[i]
  BY <1>1, <1>3, <1>4
<1>7. issuances'[id].badgeHash # ZeroHash /\ issuances'[id].issuedAt = now
  BY <1>4, <1>6
<1> QED BY <1>2, <1>4, <1>5, <1>6, <1>7, RecordKeeps

\* batchRecordIssuance.
LEMMA BatchRecordStep ==
  ASSUME IInv, NEW sender \in Accounts, NEW ids \in Batches(Ids), NEW hs \in Batches(Hashes),
         batchRecordIssuance(sender, ids, hs)
  PROVE  IInv'
<1>1. /\ isIssued \in [Ids -> BOOLEAN] /\ issuances \in [Ids -> Issuances] /\ now \in Nat
  BY DEF IInv, TypeOK
<1>2. /\ ids \in Seq(Ids) /\ hs \in Seq(Hashes) /\ Len(ids) = Len(hs)
      /\ IsInjective(ids) /\ Range(ids) = {ids[i] : i \in 1..Len(ids)}
  BY BatchIsSequence, SequenceRange DEF batchRecordIssuance, Flagged, Recordable
<1>3. \A i \in 1..Len(ids) : ~isIssued[ids[i]] /\ hs[i] # ZeroHash /\ hs[i] \in Hashes
  BY <1>2 DEF batchRecordIssuance, Flagged, Recordable
<1> DEFINE at(id) == CHOOSE i \in 1..Len(ids) : ids[i] = id
<1>4. \A id \in Range(ids) : at(id) \in 1..Len(ids)
  BY <1>2
<1> HIDE DEF at
<1>5. /\ isIssued' = [id \in Ids |-> isIssued[id] \/ id \in Range(ids)]
      /\ issuances' = [id \in Ids |-> IF id \in Range(ids)
                                      THEN [badgeHash |-> hs[at(id)], issuedAt |-> now]
                                      ELSE issuances[id]]
      /\ issuedBadges' = issuedBadges \o ids
      /\ UNCHANGED <<owner, isRevoked, revocations, revokedBadges, now>>
  BY DEF batchRecordIssuance, Flagged, at
<1>6. \A id \in Range(ids) : ~isIssued[id]
  BY <1>2, <1>3
<1>7. isIssued' \in [Ids -> BOOLEAN] /\ \A id \in Ids : isIssued'[id] <=> (isIssued[id] \/ id \in Range(ids))
  BY <1>5
<1>8. \A id \in Range(ids) : /\ id \in Ids
                             /\ issuances'[id] = [badgeHash |-> hs[at(id)], issuedAt |-> now]
                             /\ hs[at(id)] # ZeroHash /\ hs[at(id)] \in Hashes
  BY <1>2, <1>3, <1>4, <1>5
<1>9. \A id \in Ids \ Range(ids) : issuances'[id] = issuances[id]
  BY <1>5
<1>10. issuances' \in [Ids -> Issuances]
  <2>1. \A id \in Ids : issuances'[id] \in Issuances
    <3>1. \A id \in Range(ids) : [badgeHash |-> hs[at(id)], issuedAt |-> now] \in Issuances
      BY <1>1, <1>8 DEF Issuances
    <3>2. \A id \in Range(ids) : issuances'[id] \in Issuances
      BY <1>8, <3>1
    <3>3. \A id \in Ids \ Range(ids) : issuances'[id] \in Issuances
      BY <1>1, <1>9
    <3> QED BY <3>2, <3>3
  <2> QED BY <1>5, <2>1
<1>11. \A id \in Range(ids) : issuances'[id].badgeHash # ZeroHash /\ issuances'[id].issuedAt = now
  <2> SUFFICES ASSUME NEW id \in Range(ids)
               PROVE  issuances'[id].badgeHash # ZeroHash /\ issuances'[id].issuedAt = now
    OBVIOUS
  <2>1. issuances'[id] = [badgeHash |-> hs[at(id)], issuedAt |-> now] /\ hs[at(id)] # ZeroHash
    BY <1>8
  <2> QED BY <2>1
<1> QED BY <1>2, <1>5, <1>6, <1>7, <1>9, <1>10, <1>11, RecordKeeps

\* revokeBadge.
LEMMA RevokeStep ==
  ASSUME IInv, NEW sender \in Accounts, NEW id \in Ids, NEW r \in Reasons,
         revokeBadge(sender, id, r)
  PROVE  IInv'
<1>1. /\ revokedBadges \in Seq(Ids) /\ isRevoked \in [Ids -> BOOLEAN]
      /\ revocations \in [Ids -> Revocations] /\ now \in Nat
  BY DEF IInv, TypeOK
<1>2. /\ <<id>> \in Seq(Ids) /\ IsInjective(<<id>>) /\ Range(<<id>>) = {id}
      /\ revokedBadges' = revokedBadges \o <<id>>
  BY <1>1, Singleton DEF revokeBadge
<1>3. [reason |-> r, revokedAt |-> now] \in Revocations
  BY <1>1 DEF Revocations
<1>4. /\ isIssued[id] /\ ~isRevoked[id]
      /\ isRevoked' = [isRevoked EXCEPT ![id] = TRUE]
      /\ revocations' = [revocations EXCEPT ![id] = [reason |-> r, revokedAt |-> now]]
      /\ UNCHANGED <<owner, isIssued, issuances, issuedBadges, now>>
  BY DEF revokeBadge
<1>5. isRevoked' \in [Ids -> BOOLEAN] /\ \A i \in Ids : isRevoked'[i] <=> (isRevoked[i] \/ i \in {id})
  BY <1>1, <1>4
<1>6. /\ revocations' \in [Ids -> Revocations]
      /\ revocations'[id] = [reason |-> r, revokedAt |-> now]
      /\ \A i \in Ids \ {id} : revocations'[i] = revocations[i]
  BY <1>1, <1>3, <1>4
<1>7. revocations'[id].reason \in Reasons /\ revocations'[id].revokedAt = now
  BY <1>6
<1> QED BY <1>2, <1>4, <1>5, <1>6, <1>7, RevokeKeeps

\* batchRevoke.
LEMMA BatchRevokeStep ==
  ASSUME IInv, NEW sender \in Accounts, NEW ids \in Batches(Ids), NEW r \in Reasons,
         batchRevoke(sender, ids, r)
  PROVE  IInv'
<1>1. /\ isRevoked \in [Ids -> BOOLEAN] /\ revocations \in [Ids -> Revocations] /\ now \in Nat
  BY DEF IInv, TypeOK
<1>2. ids \in Seq(Ids) /\ IsInjective(ids) /\ Range(ids) = {ids[i] : i \in 1..Len(ids)}
  BY BatchIsSequence, SequenceRange DEF batchRevoke, Flagged, Revocable
<1>3. \A id \in Range(ids) : isIssued[id] /\ ~isRevoked[id]
  BY <1>2 DEF batchRevoke, Flagged, Revocable
<1>4. /\ isRevoked' = [id \in Ids |-> isRevoked[id] \/ id \in Range(ids)]
      /\ revocations' = [id \in Ids |-> IF id \in Range(ids)
                                        THEN [reason |-> r, revokedAt |-> now]
                                        ELSE revocations[id]]
      /\ revokedBadges' = revokedBadges \o ids
      /\ UNCHANGED <<owner, isIssued, issuances, issuedBadges, now>>
  BY DEF batchRevoke, Flagged
<1>5. isRevoked' \in [Ids -> BOOLEAN] /\ \A id \in Ids : isRevoked'[id] <=> (isRevoked[id] \/ id \in Range(ids))
  BY <1>4
<1>6. \A id \in Range(ids) : id \in Ids /\ revocations'[id] = [reason |-> r, revokedAt |-> now]
  BY <1>2, <1>4
<1>7. \A id \in Ids \ Range(ids) : revocations'[id] = revocations[id]
  BY <1>4
<1>8. revocations' \in [Ids -> Revocations]
  <2>1. \A id \in Ids : revocations'[id] \in Revocations
    BY <1>1, <1>6, <1>7 DEF Revocations
  <2> QED BY <1>4, <2>1
<1>9. \A id \in Range(ids) : revocations'[id].reason \in Reasons /\ revocations'[id].revokedAt = now
  BY <1>6
<1> QED BY <1>2, <1>3, <1>4, <1>5, <1>7, <1>8, <1>9, RevokeKeeps

\* A new owner and a new block leave the records alone.
LEMMA OtherStep ==
  ASSUME IInv,
         \/ \E sender \in Accounts, newOwner \in Accounts \cup {ZeroAddress} :
              transferOwnership(sender, newOwner)
         \/ NextBlock
         \/ UNCHANGED registryVars
  PROVE  IInv'
<1> USE DEF IInv
<1>1. UNCHANGED <<isIssued, issuances, issuedBadges, isRevoked, revocations, revokedBadges>>
  BY DEF transferOwnership, NextBlock, registryVars
<1>2. owner' \in Accounts /\ now' \in Nat \ {0} /\ now \in Nat /\ now =< now'
  BY DEF TypeOK, transferOwnership, NextBlock, registryVars
<1>3. TypeOK'
  BY <1>1, <1>2 DEF TypeOK
<1>4. ListsMatchMappings'
  BY <1>1 DEF ListsMatchMappings
<1>5. ASSUME NEW id \in Ids PROVE IssuedEntry(id)' /\ RevokedEntry(id)'
  <2>1. IssuedEntry(id)'
    BY <1>1, <1>2 DEF IssuedEntry
  <2>2. isRevoked[id] => issuances[id].issuedAt \in Nat
    BY DEF IssuedEntry, RevokedEntry
  <2>3. RevokedEntry(id)'
    BY <1>1, <1>2, <2>2 DEF RevokedEntry
  <2> QED BY <2>1, <2>3
<1> QED BY <1>3, <1>4, <1>5

\* Every transaction keeps the invariant.
LEMMA NextIInv == IInv /\ [Next]_registryVars => IInv'
<1> SUFFICES ASSUME IInv, [Next]_registryVars PROVE IInv'
  OBVIOUS
<1>1. ASSUME NEW sender \in Accounts, Transaction(sender) PROVE IInv'
  BY <1>1, RecordStep, BatchRecordStep, RevokeStep, BatchRevokeStep, OtherStep DEF Transaction
<1> QED BY <1>1, OtherStep DEF Next

\* The invariant holds after any sequence of transactions.
THEOREM Invariance == Spec => []IInv
BY InitIInv, NextIInv, PTL DEF Spec

\* The contract's storage keeps its types.
THEOREM RegistryTyped == Spec => []TypeOK
<1>1. IInv => TypeOK
  BY DEF IInv
<1> QED BY <1>1, Invariance, PTL

\* The lists a reader can enumerate and the mappings name the same badges.
THEOREM RegistryLists == Spec => []ListsMatchMappings
<1>1. IInv => ListsMatchMappings
  BY DEF IInv
<1> QED BY <1>1, Invariance, PTL

\* No badge is revoked that was not recorded, nor before it was.
THEOREM RegistryRevokesIssued == Spec => []RevokedAfterIssued
<1>1. ASSUME IInv PROVE RevokedAfterIssued
  <2> SUFFICES ASSUME NEW id \in Ids, isRevoked[id]
               PROVE  isIssued[id] /\ issuances[id].issuedAt =< revocations[id].revokedAt
    BY DEF RevokedAfterIssued
  <2>1. isIssued[id] /\ revocations[id].revokedAt \in issuances[id].issuedAt..now
    BY <1>1 DEF IInv, RevokedEntry
  <2>2. issuances[id].issuedAt \in 1..now /\ now \in Nat
    BY <1>1, <2>1 DEF IInv, IssuedEntry, TypeOK
  <2> QED BY <2>1, <2>2
<1> QED BY <1>1, Invariance, PTL

\* getBadgeStatus never reports a flag its hash and timestamps contradict.
THEOREM RegistryStatus == Spec => []StatusIsUnambiguous
<1>1. ASSUME IInv, NEW id \in Ids
      PROVE  LET st == getBadgeStatus(id) IN
             /\ st.issued <=> st.badgeHash # ZeroHash
             /\ st.issued <=> st.issuedAt > 0
             /\ st.revoked <=> st.revokedAt > 0
  <2>1. now \in Nat
    BY <1>1 DEF IInv, TypeOK
  <2>2. isIssued[id] => issuances[id].badgeHash # ZeroHash /\ issuances[id].issuedAt \in 1..now
    BY <1>1 DEF IInv, IssuedEntry
  <2>3. isRevoked[id] => revocations[id].revokedAt \in 1..now
    BY <1>1, <2>1, <2>2 DEF IInv, RevokedEntry
  <2>4. (isIssued[id] <=> (IF isIssued[id] THEN issuances[id].badgeHash ELSE ZeroHash) # ZeroHash)
    BY <2>2
  <2>5. (isIssued[id] <=> (IF isIssued[id] THEN issuances[id].issuedAt ELSE 0) > 0)
    BY <2>1, <2>2
  <2>6. (isRevoked[id] <=> (IF isRevoked[id] THEN revocations[id].revokedAt ELSE 0) > 0)
    BY <2>1, <2>3
  <2> QED BY <2>4, <2>5, <2>6 DEF getBadgeStatus
<1>2. IInv => StatusIsUnambiguous
  BY <1>1 DEF StatusIsUnambiguous
<1> QED BY <1>2, Invariance, PTL

-------------------------------------------------------------------------------
(* Permanence and refinement rest on how a step looks to one badge.        *)

\* The badges of S go from absent to recorded; nothing else changes for any badge.
Recording(S) ==
    /\ S \subseteq Ids /\ S # {}
    /\ \A id \in S : ~isIssued[id] /\ isIssued'[id] /\ issuances'[id].badgeHash \in Hashes \ {ZeroHash}
    /\ \A id \in Ids \ S : (isIssued'[id] <=> isIssued[id]) /\ issuances'[id] = issuances[id]
    /\ UNCHANGED <<isRevoked, revocations>>

\* The badges of S go from recorded to revoked for reason r.
Revoking(S, r) ==
    /\ S \subseteq Ids /\ S # {}
    /\ \A id \in S : isIssued[id] /\ ~isRevoked[id] /\ isRevoked'[id] /\ revocations'[id].reason = r
    /\ \A id \in Ids \ S : (isRevoked'[id] <=> isRevoked[id]) /\ revocations'[id] = revocations[id]
    /\ UNCHANGED <<isIssued, issuances>>

\* Every step is one of these or leaves the badges alone.
LEMMA StepShape ==
  ASSUME IInv, [Next]_registryVars
  PROVE  \/ \E S \in SUBSET Ids : Recording(S)
         \/ \E S \in SUBSET Ids, r \in Reasons : Revoking(S, r)
         \/ UNCHANGED <<isIssued, issuances, isRevoked, revocations>>
<1>0. /\ isIssued \in [Ids -> BOOLEAN] /\ issuances \in [Ids -> Issuances]
      /\ isRevoked \in [Ids -> BOOLEAN] /\ revocations \in [Ids -> Revocations]
  BY DEF IInv, TypeOK
<1>1. ASSUME NEW sender \in Accounts, NEW id \in Ids, NEW h \in Hashes, recordIssuance(sender, id, h)
      PROVE  Recording({id})
  <2>1. /\ ~isIssued[id] /\ h # ZeroHash
        /\ isIssued' = [isIssued EXCEPT ![id] = TRUE]
        /\ issuances' = [issuances EXCEPT ![id] = [badgeHash |-> h, issuedAt |-> now]]
        /\ UNCHANGED <<isRevoked, revocations>>
    BY <1>1 DEF recordIssuance
  <2>2. isIssued'[id] /\ issuances'[id].badgeHash \in Hashes \ {ZeroHash}
    BY <1>0, <2>1
  <2>3. \A i \in Ids \ {id} : (isIssued'[i] <=> isIssued[i]) /\ issuances'[i] = issuances[i]
    BY <1>0, <2>1
  <2> QED BY <2>1, <2>2, <2>3 DEF Recording
<1>2. ASSUME NEW sender \in Accounts, NEW ids \in Batches(Ids), NEW hs \in Batches(Hashes),
             batchRecordIssuance(sender, ids, hs)
      PROVE  Recording(Range(ids))
  <2>1. /\ ids \in Seq(Ids) /\ hs \in Seq(Hashes) /\ Len(ids) = Len(hs) /\ Len(ids) > 0
        /\ Len(ids) \in Nat /\ Range(ids) = {ids[i] : i \in 1..Len(ids)} /\ Range(ids) \subseteq Ids
    BY <1>2, BatchIsSequence, SequenceRange DEF batchRecordIssuance, Flagged
  <2>2. \A i \in 1..Len(ids) : ~isIssued[ids[i]] /\ hs[i] \in Hashes \ {ZeroHash}
    BY <1>2, <2>1 DEF batchRecordIssuance, Flagged, Recordable
  <2>3. ids[1] \in Range(ids)
    BY <2>1
  <2>4. ASSUME NEW id \in Range(ids)
        PROVE  ~isIssued[id] /\ isIssued'[id] /\ issuances'[id].badgeHash \in Hashes \ {ZeroHash}
    <3> DEFINE i == CHOOSE k \in 1..Len(ids) : ids[k] = id
    <3>1. i \in 1..Len(ids) /\ ids[i] = id
      BY <2>1
    <3> HIDE DEF i
    <3>2. issuances'[id] = [badgeHash |-> hs[i], issuedAt |-> now] /\ isIssued'[id]
      BY <1>2, <2>1 DEF batchRecordIssuance, Flagged, i
    <3>3. issuances'[id].badgeHash = hs[i]
      BY <3>2
    <3> QED BY <2>2, <3>1, <3>2, <3>3
  <2>5. \A id \in Ids \ Range(ids) : (isIssued'[id] <=> isIssued[id]) /\ issuances'[id] = issuances[id]
    BY <1>2 DEF batchRecordIssuance, Flagged
  <2>6. UNCHANGED <<isRevoked, revocations>>
    BY <1>2 DEF batchRecordIssuance, Flagged
  <2> QED BY <2>1, <2>3, <2>4, <2>5, <2>6 DEF Recording
<1>3. ASSUME NEW sender \in Accounts, NEW id \in Ids, NEW r \in Reasons, revokeBadge(sender, id, r)
      PROVE  Revoking({id}, r)
  <2>1. /\ isIssued[id] /\ ~isRevoked[id]
        /\ isRevoked' = [isRevoked EXCEPT ![id] = TRUE]
        /\ revocations' = [revocations EXCEPT ![id] = [reason |-> r, revokedAt |-> now]]
        /\ UNCHANGED <<isIssued, issuances>>
    BY <1>3 DEF revokeBadge
  <2>2. isRevoked'[id] /\ revocations'[id].reason = r
    BY <1>0, <2>1
  <2>3. \A i \in Ids \ {id} : (isRevoked'[i] <=> isRevoked[i]) /\ revocations'[i] = revocations[i]
    BY <1>0, <2>1
  <2> QED BY <2>1, <2>2, <2>3 DEF Revoking
<1>4. ASSUME NEW sender \in Accounts, NEW ids \in Batches(Ids), NEW r \in Reasons,
             batchRevoke(sender, ids, r)
      PROVE  Revoking(Range(ids), r)
  <2>1. /\ ids \in Seq(Ids) /\ Len(ids) > 0 /\ Len(ids) \in Nat
        /\ Range(ids) = {ids[i] : i \in 1..Len(ids)} /\ Range(ids) \subseteq Ids
    BY <1>4, BatchIsSequence, SequenceRange DEF batchRevoke, Flagged
  <2>2. ids[1] \in Range(ids)
    BY <2>1
  <2>3. \A id \in Range(ids) : isIssued[id] /\ ~isRevoked[id]
    BY <1>4, <2>1 DEF batchRevoke, Flagged, Revocable
  <2>4. ASSUME NEW id \in Range(ids) PROVE isRevoked'[id] /\ revocations'[id].reason = r
    <3>1. isRevoked'[id] /\ revocations'[id] = [reason |-> r, revokedAt |-> now]
      BY <1>4, <2>1 DEF batchRevoke, Flagged
    <3> QED BY <3>1
  <2>5. \A id \in Ids \ Range(ids) : (isRevoked'[id] <=> isRevoked[id]) /\ revocations'[id] = revocations[id]
    BY <1>4 DEF batchRevoke, Flagged
  <2>6. UNCHANGED <<isIssued, issuances>>
    BY <1>4 DEF batchRevoke, Flagged
  <2> QED BY <2>1, <2>2, <2>3, <2>4, <2>5, <2>6 DEF Revoking
<1>5. ASSUME NEW sender \in Accounts, NEW newOwner \in Accounts \cup {ZeroAddress},
             transferOwnership(sender, newOwner)
      PROVE  UNCHANGED <<isIssued, issuances, isRevoked, revocations>>
  BY <1>5 DEF transferOwnership
<1>6. CASE NextBlock
  BY <1>6 DEF NextBlock
<1>7. CASE UNCHANGED registryVars
  BY <1>7 DEF registryVars
<1>8. \A S, r : (Recording(S) => S \in SUBSET Ids) /\ (Revoking(S, r) => S \in SUBSET Ids)
  BY DEF Recording, Revoking
<1> QED BY <1>1, <1>2, <1>3, <1>4, <1>5, <1>6, <1>7, <1>8 DEF Next, Transaction

\* A hash recorded on-chain, its time, and a revocation with its reason are final.
THEOREM RegistryPermanent == Spec => RecordsArePermanent
<1>1. ASSUME IInv, [Next]_registryVars, NEW id \in Ids
      PROVE  /\ isIssued[id] => isIssued'[id] /\ issuances'[id] = issuances[id]
             /\ isRevoked[id] => isRevoked'[id] /\ revocations'[id] = revocations[id]
  <2>0. isRevoked[id] => isIssued[id]
    BY <1>1 DEF IInv, RevokedEntry
  <2>1. ASSUME NEW S \in SUBSET Ids, Recording(S)
        PROVE  /\ isIssued[id] => isIssued'[id] /\ issuances'[id] = issuances[id]
               /\ isRevoked[id] => isRevoked'[id] /\ revocations'[id] = revocations[id]
    BY <2>1 DEF Recording
  <2>2. ASSUME NEW S \in SUBSET Ids, NEW r \in Reasons, Revoking(S, r)
        PROVE  /\ isIssued[id] => isIssued'[id] /\ issuances'[id] = issuances[id]
               /\ isRevoked[id] => isRevoked'[id] /\ revocations'[id] = revocations[id]
    BY <2>2 DEF Revoking
  <2> QED BY <1>1, <2>1, <2>2, StepShape
<1>2. ASSUME IInv, [Next]_registryVars, NEW id \in Ids
      PROVE  /\ isIssued[id] => \A h \in Hashes : verifyHash(id, h)' = verifyHash(id, h)
             /\ isRevoked[id] => isRevoked'[id] /\ revocations'[id] = revocations[id]
  BY <1>1, <1>2 DEF verifyHash
<1>3. IInv /\ [Next]_registryVars =>
        [\A id \in Ids :
           /\ isIssued[id] => \A h \in Hashes : verifyHash(id, h)' = verifyHash(id, h)
           /\ isRevoked[id] => isRevoked'[id] /\ revocations'[id] = revocations[id]]_registryVars
  BY <1>2
<1> QED BY <1>3, Invariance, PTL DEF Spec, RecordsArePermanent

\* Every transaction is a step of the ledger or invisible to it.
THEOREM RegistryImplementsLedger == Spec => ImplementsLedger
<1> DEFINE hash == [id \in Ids |-> IF isIssued[id] THEN issuances[id].badgeHash ELSE NoReason]
           revokedFor == [id \in Ids |-> IF isRevoked[id] THEN revocations[id].reason ELSE NoReason]
<1>1. Init => Ledger!LedgerInit
  BY DEF Init, Ledger!LedgerInit
<1>2. ASSUME IInv, [Next]_registryVars PROVE [Ledger!LedgerNext]_(Ledger!ledgerVars)
  <2>1. ASSUME NEW S \in SUBSET Ids, Recording(S) PROVE Ledger!LedgerNext
    <3>1. \A id \in S : hash[id] = NoReason
      BY <2>1 DEF Recording
    <3>2. revokedFor' = revokedFor
      BY <2>1 DEF Recording
    <3> DEFINE h == [id \in S |-> issuances'[id].badgeHash]
    <3>3. h \in [S -> Hashes \ {ZeroHash}]
      BY <2>1 DEF Recording
    <3>4. hash' = [id \in Ids |-> IF id \in S THEN h[id] ELSE hash[id]]
      BY <2>1 DEF Recording
    <3>5. Ledger!Record(S)
      <4> HIDE DEF h
      <4> QED BY <3>1, <3>2, <3>3, <3>4 DEF Ledger!Record
    <3>6. S \in (SUBSET Ids) \ {{}}
      <4>1. S \subseteq Ids /\ S # {}
        BY <2>1 DEF Recording
      <4>2. S \notin {{}}
        BY <4>1
      <4> QED BY <4>1, <4>2
    <3> QED BY <3>5, <3>6 DEF Ledger!LedgerNext
  <2>2. ASSUME NEW S \in SUBSET Ids, NEW r \in Reasons, Revoking(S, r) PROVE Ledger!LedgerNext
    <3>0. \A id \in Ids : isIssued[id] => hash[id] # NoReason
      BY <1>2, RegistryAssumption DEF IInv, TypeOK, Issuances
    <3>1. \A id \in S : hash[id] # NoReason /\ revokedFor[id] = NoReason
      BY <2>2, <3>0 DEF Revoking
    <3>2. hash' = hash
      BY <2>2 DEF Revoking
    <3>3. revokedFor' = [id \in Ids |-> IF id \in S THEN r ELSE revokedFor[id]]
      BY <2>2 DEF Revoking
    <3>4. Ledger!Revoke(S, r)
      BY <3>1, <3>2, <3>3 DEF Ledger!Revoke
    <3>5. S \in (SUBSET Ids) \ {{}}
      <4>1. S \subseteq Ids /\ S # {}
        BY <2>2 DEF Revoking
      <4>2. S \notin {{}}
        BY <4>1
      <4> QED BY <4>1, <4>2
    <3> QED BY <3>4, <3>5 DEF Ledger!LedgerNext
  <2>3. CASE UNCHANGED <<isIssued, issuances, isRevoked, revocations>>
    BY <2>3 DEF Ledger!ledgerVars
  <2> QED BY <1>2, <2>1, <2>2, <2>3, StepShape
<1> QED BY <1>1, <1>2, Invariance, PTL DEF Spec, ImplementsLedger, Ledger!Ledger
-------------------------------------------------------------------------------
(* The loops of the batches.  Both are of one shape: an iteration marks its  *)
(* badge, and reverts if the badge is marked already or the iteration is not *)
(* in good, where the rest of its requirements hold.                        *)

Iteration(ids, good, k, M) ==
    {[m EXCEPT ![ids[k]] = TRUE] : m \in {x \in M : ~x[ids[k]] /\ k \in good}}

Marked(flags, ids, k) == [id \in Ids |-> flags[id] \/ \E i \in 1..k : ids[i] = id]

Passes(flags, ids, good, k) ==
    \A i \in 1..k : i \in good /\ ~flags[ids[i]] /\ \A j \in 1..(i - 1) : ids[j] # ids[i]

\* What is left after each iteration, without recursion.
Closed(flags, ids, good, n) ==
    [k \in 0..n |-> IF Passes(flags, ids, good, k) THEN {Marked(flags, ids, k)} ELSE {}]

\* One iteration takes the closed form for k - 1 to that for k.
LEMMA LoopStep ==
  ASSUME NEW n \in Nat, NEW ids \in [1..n -> Ids], NEW good, NEW flags \in [Ids -> BOOLEAN],
         NEW k \in 1..n
  PROVE  Closed(flags, ids, good, n)[k] = Iteration(ids, good, k, Closed(flags, ids, good, n)[k - 1])
<1> DEFINE P(j) == Passes(flags, ids, good, j)
           M(j) == Marked(flags, ids, j)
<1>1. /\ Closed(flags, ids, good, n)[k] = IF P(k) THEN {M(k)} ELSE {}
      /\ Closed(flags, ids, good, n)[k - 1] = IF P(k - 1) THEN {M(k - 1)} ELSE {}
  BY DEF Closed
<1>2. ids[k] \in Ids /\ \A i \in 1..(k - 1) : ids[i] \in Ids
  OBVIOUS
<1>3. M(k - 1)[ids[k]] <=> flags[ids[k]] \/ \E i \in 1..(k - 1) : ids[i] = ids[k]
  BY <1>2 DEF Marked
<1>4. P(k) <=> P(k - 1) /\ k \in good /\ ~M(k - 1)[ids[k]]
  <2>1. P(k) <=> P(k - 1) /\ k \in good /\ ~flags[ids[k]] /\ \A j \in 1..(k - 1) : ids[j] # ids[k]
    <3>1. 1..k = 1..(k - 1) \cup {k}
      OBVIOUS
    <3> QED BY <3>1 DEF Passes
  <2> QED BY <1>3, <2>1
<1>5. [M(k - 1) EXCEPT ![ids[k]] = TRUE] = M(k)
  <2>1. \A i \in 1..k : i \in 1..(k - 1) \/ i = k
    OBVIOUS
  <2>2. \A id \in Ids : id # ids[k] => (M(k - 1)[id] <=> M(k)[id])
    BY <2>1 DEF Marked
  <2>3. M(k)[ids[k]] = TRUE
    <3>1. k \in 1..k
      OBVIOUS
    <3>2. (\E i \in 1..k : ids[i] = ids[k]) = TRUE
      BY <3>1
    <3> QED BY <1>2, <3>2 DEF Marked
  <2>4. /\ M(k) = [id \in Ids |-> M(k)[id]]
        /\ \A id \in Ids : M(k)[id] \in BOOLEAN /\ M(k - 1)[id] \in BOOLEAN
        /\ M(k - 1) = [id \in Ids |-> M(k - 1)[id]]
    BY DEF Marked
  <2>5. \A id \in Ids : id # ids[k] => M(k - 1)[id] = M(k)[id]
    BY <2>2, <2>4
  <2> HIDE DEF M
  <2> QED BY <1>2, <2>3, <2>4, <2>5
<1> HIDE DEF P, M
<1>6. CASE P(k)
  BY <1>1, <1>4, <1>5, <1>6 DEF Iteration
<1>7. CASE ~P(k)
  BY <1>1, <1>4, <1>7 DEF Iteration
<1> QED BY <1>6, <1>7

\* The recursion has the closed form as its solution, and no other.
LEMMA ClosedSolves ==
  ASSUME NEW n \in Nat, NEW ids \in [1..n -> Ids], NEW good, NEW flags \in [Ids -> BOOLEAN]
  PROVE  LET C == Closed(flags, ids, good, n) IN
         C = [k \in 0..n |-> IF k = 0 THEN {flags} ELSE Iteration(ids, good, k, C[k - 1])]
<1> DEFINE C == Closed(flags, ids, good, n)
<1>1. C[0] = {flags}
  <2>1. Marked(flags, ids, 0) = flags
    BY DEF Marked
  <2>2. Passes(flags, ids, good, 0)
    BY DEF Passes
  <2> QED BY <2>1, <2>2 DEF Closed
<1>2. \A k \in 1..n : C[k] = Iteration(ids, good, k, C[k - 1])
  BY LoopStep
<1>3. C = [k \in 0..n |-> C[k]]
  BY DEF Closed
<1> HIDE DEF C
<1>4. ASSUME NEW k \in 0..n
      PROVE  C[k] = IF k = 0 THEN {flags} ELSE Iteration(ids, good, k, C[k - 1])
  <2>1. CASE k = 0
    BY <1>1, <2>1
  <2>2. CASE k # 0
    <3>1. k \in 1..n
      BY <2>2
    <3> QED BY <1>2, <2>2, <3>1
  <2> QED BY <2>1, <2>2
<1>5. C = [k \in 0..n |-> IF k = 0 THEN {flags} ELSE Iteration(ids, good, k, C[k - 1])]
  BY <1>3, <1>4
<1> QED BY <1>5 DEF C

LEMMA LoopIsClosed ==
  ASSUME NEW n \in Nat, NEW ids \in [1..n -> Ids], NEW good, NEW flags \in [Ids -> BOOLEAN],
         NEW after,
         after = [k \in 0..n |-> IF k = 0 THEN {flags} ELSE Iteration(ids, good, k, after[k - 1])]
  PROVE  after = Closed(flags, ids, good, n)
<1> DEFINE C == Closed(flags, ids, good, n)
           S == {k \in 0..n : after[k] = C[k]}
<1>1. C = [k \in 0..n |-> IF k = 0 THEN {flags} ELSE Iteration(ids, good, k, C[k - 1])]
  BY ClosedSolves
<1> HIDE DEF C
<1>2. ASSUME NEW k \in 0..(n - 1), k \in S PROVE k + 1 \in S
  <2>1. k + 1 \in 0..n /\ k + 1 # 0 /\ (k + 1) - 1 = k
    OBVIOUS
  <2>2. after[k + 1] = Iteration(ids, good, k + 1, after[k])
    BY <2>1
  <2>3. C[k + 1] = Iteration(ids, good, k + 1, C[k])
    BY <1>1, <2>1
  <2> QED BY <1>2, <2>1, <2>2, <2>3
<1>3. 0 \in S
  BY <1>1
<1>4. 0..n \subseteq S
  <2> HIDE DEF S
  <2> QED BY <1>2, <1>3, BoundedInduction
<1>5. \A k \in 0..n : after[k] = C[k]
  BY <1>4
<1> QED BY <1>1, <1>5 DEF C

\* A batch has an outcome exactly when every iteration passes, and sets its flags.
LEMMA ClosedOutcome ==
  ASSUME NEW n \in Nat, NEW ids \in [1..n -> Ids], NEW good, NEW flags \in [Ids -> BOOLEAN]
  PROVE  Closed(flags, ids, good, n)[n] =
            IF (\A i \in 1..n : i \in good /\ ~flags[ids[i]]) /\ IsInjective(ids)
            THEN {Flagged(flags, ids)} ELSE {}
<1>1. Closed(flags, ids, good, n)[n] =
         IF Passes(flags, ids, good, n) THEN {Marked(flags, ids, n)} ELSE {}
  BY DEF Closed
<1>2. IsInjective(ids) <=> \A i \in 1..n : \A j \in 1..(i - 1) : ids[j] # ids[i]
  <2>1. ASSUME IsInjective(ids), NEW i \in 1..n, NEW j \in 1..(i - 1) PROVE ids[j] # ids[i]
    BY <2>1 DEF IsInjective
  <2>2. ASSUME \A i \in 1..n : \A j \in 1..(i - 1) : ids[j] # ids[i], NEW i \in 1..n, NEW j \in 1..n, ids[i] = ids[j]
        PROVE  i = j
    <3>1. i < j \/ j < i \/ i = j
      OBVIOUS
    <3>2. i < j => i \in 1..(j - 1)
      OBVIOUS
    <3>3. j < i => j \in 1..(i - 1)
      OBVIOUS
    <3> QED BY <2>2, <3>1, <3>2, <3>3
  <2> QED BY <2>1, <2>2 DEF IsInjective
<1>3. Passes(flags, ids, good, n) <=>
         (\A i \in 1..n : i \in good /\ ~flags[ids[i]]) /\ IsInjective(ids)
  BY <1>2 DEF Passes
<1>4. Marked(flags, ids, n) = Flagged(flags, ids)
  BY DEF Marked, Flagged, Range
<1> QED BY <1>1, <1>3, <1>4

\* batchRecordIssuance reverts in its loop exactly when Recordable fails.
LEMMA RecordLoopOutcome ==
  ASSUME TypeOK, NEW n \in Nat, NEW ids \in [1..n -> Ids], NEW hs \in [1..n -> Hashes]
  PROVE  RecordLoop(ids, hs) = IF Recordable(ids, hs) THEN {Flagged(isIssued, ids)} ELSE {}
<1> DEFINE good == {k \in 1..n : hs[k] # ZeroHash}
           C == Closed(isIssued, ids, good, n)
           Body(k, M) == {[m EXCEPT ![ids[k]] = TRUE] : m \in {x \in M : ~x[ids[k]] /\ hs[k] # ZeroHash}}
           after == CHOOSE g : g = [k \in 0..n |-> IF k = 0 THEN {isIssued} ELSE Body(k, g[k - 1])]
<1>1. Len(ids) = n /\ isIssued \in [Ids -> BOOLEAN]
  BY DEF TypeOK
<1>2. RecordLoop(ids, hs) = after[n]
  BY <1>1 DEF RecordLoop
<1>3. ASSUME NEW k \in 1..n, NEW M PROVE Body(k, M) = Iteration(ids, good, k, M)
  BY DEF Iteration
<1> HIDE DEF Body
<1>4. ASSUME NEW g
      PROVE  [k \in 0..n |-> IF k = 0 THEN {isIssued} ELSE Body(k, g[k - 1])] =
             [k \in 0..n |-> IF k = 0 THEN {isIssued} ELSE Iteration(ids, good, k, g[k - 1])]
  BY <1>3
<1>5. C = [k \in 0..n |-> IF k = 0 THEN {isIssued} ELSE Iteration(ids, good, k, C[k - 1])]
  <2> HIDE DEF good
  <2> QED BY <1>1, ClosedSolves
<1>6. C = [k \in 0..n |-> IF k = 0 THEN {isIssued} ELSE Body(k, C[k - 1])]
  <2> HIDE DEF C, good
  <2> QED BY <1>4, <1>5
<1>7. after = [k \in 0..n |-> IF k = 0 THEN {isIssued} ELSE Body(k, after[k - 1])]
  <2> HIDE DEF C
  <2> QED BY <1>6
<1>8. after = C
  <2> HIDE DEF after, good
  <2>1. after = [k \in 0..n |-> IF k = 0 THEN {isIssued} ELSE Iteration(ids, good, k, after[k - 1])]
    BY <1>4, <1>7
  <2> QED BY <1>1, <2>1, LoopIsClosed
<1>9. C[n] = IF (\A i \in 1..n : i \in good /\ ~isIssued[ids[i]]) /\ IsInjective(ids)
             THEN {Flagged(isIssued, ids)} ELSE {}
  <2> HIDE DEF good
  <2> QED BY <1>1, ClosedOutcome
<1> HIDE DEF after, C
<1> QED BY <1>1, <1>2, <1>8, <1>9 DEF Recordable

\* batchRevoke reverts in its loop exactly when Revocable fails.
LEMMA RevokeLoopOutcome ==
  ASSUME TypeOK, NEW n \in Nat, NEW ids \in [1..n -> Ids]
  PROVE  RevokeLoop(ids) = IF Revocable(ids) THEN {Flagged(isRevoked, ids)} ELSE {}
<1> DEFINE good == {k \in 1..n : isIssued[ids[k]]}
           C == Closed(isRevoked, ids, good, n)
           Body(k, M) == {[m EXCEPT ![ids[k]] = TRUE] : m \in {x \in M : isIssued[ids[k]] /\ ~x[ids[k]]}}
           after == CHOOSE g : g = [k \in 0..n |-> IF k = 0 THEN {isRevoked} ELSE Body(k, g[k - 1])]
<1>1. Len(ids) = n /\ isRevoked \in [Ids -> BOOLEAN]
  BY DEF TypeOK
<1>2. RevokeLoop(ids) = after[n]
  BY <1>1 DEF RevokeLoop
<1>3. ASSUME NEW k \in 1..n, NEW M PROVE Body(k, M) = Iteration(ids, good, k, M)
  <2>1. {x \in M : isIssued[ids[k]] /\ ~x[ids[k]]} = {x \in M : ~x[ids[k]] /\ k \in good}
    OBVIOUS
  <2> QED BY <2>1 DEF Iteration
<1> HIDE DEF Body
<1>4. ASSUME NEW g
      PROVE  [k \in 0..n |-> IF k = 0 THEN {isRevoked} ELSE Body(k, g[k - 1])] =
             [k \in 0..n |-> IF k = 0 THEN {isRevoked} ELSE Iteration(ids, good, k, g[k - 1])]
  BY <1>3
<1>5. C = [k \in 0..n |-> IF k = 0 THEN {isRevoked} ELSE Iteration(ids, good, k, C[k - 1])]
  <2> HIDE DEF good
  <2> QED BY <1>1, ClosedSolves
<1>6. C = [k \in 0..n |-> IF k = 0 THEN {isRevoked} ELSE Body(k, C[k - 1])]
  <2> HIDE DEF C, good
  <2> QED BY <1>4, <1>5
<1>7. after = [k \in 0..n |-> IF k = 0 THEN {isRevoked} ELSE Body(k, after[k - 1])]
  <2> HIDE DEF C
  <2> QED BY <1>6
<1>8. after = C
  <2> HIDE DEF after, good
  <2>1. after = [k \in 0..n |-> IF k = 0 THEN {isRevoked} ELSE Iteration(ids, good, k, after[k - 1])]
    BY <1>4, <1>7
  <2> QED BY <1>1, <2>1, LoopIsClosed
<1>9. C[n] = IF (\A i \in 1..n : i \in good /\ ~isRevoked[ids[i]]) /\ IsInjective(ids)
             THEN {Flagged(isRevoked, ids)} ELSE {}
  <2> HIDE DEF good
  <2> QED BY <1>1, ClosedOutcome
<1> HIDE DEF after, C
<1> QED BY <1>1, <1>2, <1>8, <1>9 DEF Revocable

\* For batches of any length, from any storage the contract can reach: the
\* loops of both batch functions go through exactly when Recordable and
\* Revocable say so, and leave the flags of Flagged, by which the model
\* replaces them.
THEOREM RegistryBatches == Spec => []BatchesFollowLoops
<1>1. ASSUME IInv PROVE BatchesFollowLoops
  <2>1. TypeOK /\ MaxBatch \in Nat
    BY <1>1, RegistryAssumption DEF IInv
  <2>2. ASSUME NEW ids \in Batches(Ids), NEW hs \in Batches(Hashes), Len(ids) = Len(hs)
        PROVE  RecordLoop(ids, hs) = IF Recordable(ids, hs) THEN {Flagged(isIssued, ids)} ELSE {}
    <3>1. PICK n \in 0..MaxBatch : ids \in [1..n -> Ids]
      BY DEF Batches
    <3>2. PICK k \in 0..MaxBatch : hs \in [1..k -> Hashes]
      BY DEF Batches
    <3>3. n \in Nat /\ k \in Nat /\ n = k
      BY <2>1, <2>2, <3>1, <3>2
    <3> QED BY <2>1, <3>1, <3>2, <3>3, RecordLoopOutcome
  <2>3. ASSUME NEW ids \in Batches(Ids)
        PROVE  RevokeLoop(ids) = IF Revocable(ids) THEN {Flagged(isRevoked, ids)} ELSE {}
    <3>1. PICK n \in 0..MaxBatch : ids \in [1..n -> Ids]
      BY DEF Batches
    <3>2. n \in Nat
      BY <2>1
    <3> QED BY <2>1, <3>1, <3>2, RevokeLoopOutcome
  <2> QED BY <2>2, <2>3 DEF BatchesFollowLoops
<1> QED BY <1>1, Invariance, PTL

===============================================================================
