------------------------------ MODULE BadgeLedger ------------------------------
(***************************************************************************)
(* What the on-chain badge registry promises: a badge is absent, then      *)
(* recorded under one hash, then revoked for one reason, and never goes    *)
(* back.  Several badges may take the same step at once, all or none.      *)
(***************************************************************************)
CONSTANTS Ids, Hashes, Reasons, None

VARIABLES
    hash,       \* id -> the hash it was recorded under, None while absent
    revokedFor  \* id -> the reason it was revoked for, None while it is not

ledgerVars == <<hash, revokedFor>>

LedgerInit ==
    /\ hash = [id \in Ids |-> None]
    /\ revokedFor = [id \in Ids |-> None]

\* Every badge of S is recorded, each under a hash of its own.
Record(S) ==
    /\ \A id \in S : hash[id] = None
    /\ \E h \in [S -> Hashes] : hash' = [id \in Ids |-> IF id \in S THEN h[id] ELSE hash[id]]
    /\ UNCHANGED revokedFor

\* Every badge of S is revoked, all for the same reason.
Revoke(S, r) ==
    /\ \A id \in S : hash[id] # None /\ revokedFor[id] = None
    /\ revokedFor' = [id \in Ids |-> IF id \in S THEN r ELSE revokedFor[id]]
    /\ UNCHANGED hash

LedgerNext ==
    \E S \in (SUBSET Ids) \ {{}} : Record(S) \/ \E r \in Reasons : Revoke(S, r)

Ledger == LedgerInit /\ [][LedgerNext]_ledgerVars

===============================================================================
