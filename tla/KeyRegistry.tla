------------------------------ MODULE KeyRegistry ------------------------------
(***************************************************************************)
(* contracts/KeyRegistry.sol: the append-only history of the issuer's      *)
(* Ed25519 keys.  A transaction is one step; one that reverts is not.  The *)
(* reason of an emergency revocation is left out: nothing reads it.        *)
(***************************************************************************)
EXTENDS Integers, Sequences

CONSTANTS
    Keys,        \* public keys, ZeroKey apart
    NoKey,       \* what a query that reverts answers
    Accounts,    \* addresses that send transactions, address(0) apart
    MaxTime,     \* bound: last block timestamp
    MaxKeys      \* bound: entries of the history

ASSUME KeyRegistryAssumption ==
    /\ NoKey \notin Keys
    /\ MaxTime \in Nat
    /\ MaxKeys \in Nat

VARIABLES
    owner,
    history,     \* _keyHistory
    now          \* block.timestamp

keyVars == <<owner, history, now>>

\* revokedAt = 0: still active.
Entries == [publicKey : Keys, activatedAt : Nat, revokedAt : Nat]
\* Faulty variant: a key is active from the instant before.
BackdatedEntry(k) == [publicKey |-> k, activatedAt |-> now - 1, revokedAt |-> 0]

NewEntry(k) == [publicKey |-> k, activatedAt |-> now, revokedAt |-> 0]

Last == Len(history)
HasActiveKey == history[Last].revokedAt = 0
\* Faulty variants: the old key stays active; or is taken out of the past as well.
NotRetired == history
RetiredFromStart == [history EXCEPT ![Last].revokedAt = history[Last].activatedAt]

Retired == [history EXCEPT ![Last].revokedAt = now]

Init ==
    /\ owner \in Accounts
    /\ now = 1
    /\ \E k \in Keys : history = <<NewEntry(k)>>

rotateKey(sender, k) ==
    /\ sender = owner
    /\ Last > 0
    /\ HasActiveKey
    /\ history' = Append(Retired, NewEntry(k))
    /\ UNCHANGED <<owner, now>>

\* Faulty variant: the revoked key is popped.
popCurrentKey(sender) ==
    /\ sender = owner
    /\ Last > 0
    /\ HasActiveKey
    /\ history' = SubSeq(history, 1, Last - 1)
    /\ UNCHANGED <<owner, now>>

revokeCurrentKey(sender) ==
    /\ sender = owner
    /\ Last > 0
    /\ HasActiveKey
    /\ history' = Retired
    /\ UNCHANGED <<owner, now>>

\* Faulty variant: a key is added beside an active one.
addSecondKey(sender, k) ==
    /\ sender = owner
    /\ history' = Append(history, NewEntry(k))
    /\ UNCHANGED <<owner, now>>

addKey(sender, k) ==
    /\ sender = owner
    /\ Last > 0 => ~HasActiveKey
    /\ history' = Append(history, NewEntry(k))
    /\ UNCHANGED <<owner, now>>

transferOwnership(sender, newOwner) ==
    /\ sender = owner
    /\ owner' = newOwner
    /\ UNCHANGED <<history, now>>

NextBlock ==
    /\ now < MaxTime
    /\ now' = now + 1
    /\ UNCHANGED <<owner, history>>

Transaction(sender) ==
    \/ \E k \in Keys : Last < MaxKeys /\ (rotateKey(sender, k) \/ addKey(sender, k))
    \/ revokeCurrentKey(sender)
    \/ \E newOwner \in Accounts : transferOwnership(sender, newOwner)

Next == (\E sender \in Accounts : Transaction(sender)) \/ NextBlock

Spec == Init /\ [][Next]_keyVars

-------------------------------------------------------------------------------
(* Queries; NoKey stands for a revert.                                     *)

getActiveKey == IF Last > 0 /\ HasActiveKey THEN history[Last].publicKey ELSE NoKey

\* Faulty variant: a key is still active at the instant of its revocation.
ActiveThrough(e, t) == e.activatedAt =< t /\ (e.revokedAt = 0 \/ e.revokedAt >= t)

ActiveAt(e, t) == e.activatedAt =< t /\ (e.revokedAt = 0 \/ e.revokedAt > t)

\* The scan runs from the newest entry down and stops at the first that matches.
Matching(h, t) == {i \in 1..Len(h) : ActiveAt(h[i], t)}
KeyAt(h, t) ==
    IF Matching(h, t) = {} THEN NoKey
    ELSE h[CHOOSE i \in Matching(h, t) : \A k \in Matching(h, t) : k =< i].publicKey

getKeyAtTime(t) == KeyAt(history, t)

-------------------------------------------------------------------------------
\* The shape of the contract's storage; the history is never empty.
TypeOK ==
    /\ owner \in Accounts
    /\ now \in Nat \ {0}
    /\ history \in Seq(Entries)
    /\ Last > 0

\* The history is in the order of time, and only its last entry can be active.
Ordered(h, n) ==
    /\ \A i \in 1..Len(h) :
        /\ h[i].activatedAt \in 1..n
        /\ h[i].revokedAt = 0 \/ h[i].revokedAt \in h[i].activatedAt..n
    /\ \A i, k \in 1..Len(h) : i < k => h[i].revokedAt # 0 /\ h[i].revokedAt =< h[k].activatedAt

HistoryOrdered == Ordered(history, now)

\* No instant has two keys, even when keys are rotated several times in a block,
\* so the direction of getKeyAtTime's scan does not matter.
OneKeyPerInstant ==
    \A t \in 0..(now + 1) : \A i, k \in Matching(history, t) : i = k

\* The two queries agree: the active key is the key of this instant and of every
\* later one, and there is none exactly when getActiveKey reverts.
ActiveKeyIsKeyFromNow == \A t \in now..(now + 2) : getKeyAtTime(t) = getActiveKey

\* "Critical for verifying badges that were issued in the past"
\* (KeyRegistry.sol:178): the key of a past instant never changes, whatever is
\* rotated, revoked or added later.
PastKeysAreFixed ==
    [][\A t \in 0..(now - 1) : getKeyAtTime(t)' = getKeyAtTime(t)]_keyVars

-------------------------------------------------------------------------------
(* The timeline that the registry implements.                              *)

Instants == 0..MaxTime
timeline == [t \in Instants |-> getKeyAtTime(t)]

TL == INSTANCE KeyTimeline WITH keyAt <- timeline, clock <- now

\* Every transaction chooses the key from now on or leaves the timeline alone.
ImplementsTimeline == TL!Timeline

===============================================================================
