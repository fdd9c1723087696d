----------------------------- MODULE Verification -----------------------------
(***************************************************************************)
(* VerifyCredential (service/verifier.go) with its DID resolver            *)
(* (service/did_resolver.go), run by this server and by verifiers          *)
(* elsewhere, while keys are rotated on the chain, the server is restarted *)
(* with another key or without a chain client, badges are revoked, the     *)
(* domain goes away and calls fail.  A verification reads the DID document *)
(* first and the registry later.  The chain's keys are those of            *)
(* KeyTimeline, which KeyRegistry implements.  The clocks of the server    *)
(* and of the chain agree.                                                 *)
(***************************************************************************)
EXTENDS Integers

CONSTANTS
    Ids,             \* credentials, by the text after the last "/" of their id
    Keys, NoKey,
    ForeignKey,      \* the key of another issuer, which has its own domain
    Verifications,   \* calls of VerifyCredential
    Local,           \* those made by this server, which knows its own document
    None,
    MaxTime          \* bound: the last instant

ASSUME VerificationAssumption ==
    /\ NoKey \notin Keys \cup {ForeignKey}
    /\ ForeignKey \notin Keys
    /\ Local \subseteq Verifications
    /\ MaxTime \in Nat \ {0}
    /\ None \notin Nat

Instants == 0..MaxTime

VARIABLES
    keyAt, clock,    \* the key registry and the time
    signing,         \* the key this server was started with
    client,          \* it has a chain client: initBlockchain found the node
    online,          \* the issuer's domain serves did.json
    badges,          \* id -> the credential, or None
    revoked,         \* the ids that the badge registry calls revoked
    call,            \* verification -> how far it has come
    log              \* the final verdicts that verification_logs holds, as a set

worldVars == <<keyAt, clock, signing, client, online, badges, revoked>>
verificationVars == <<worldVars, call, log>>

Registry == INSTANCE KeyTimeline

\* fallback: whether didFallback.contractAddress was configured.  until: the
\* validUntil of another issuer's credential; BuildCredential writes none.
\* named: the credential has an id; BuildCredential gives it one.
Credentials ==
    [issuer : {"own", "foreign"}, key : Keys \cup {ForeignKey}, validFrom : Instants,
     until : Instants \cup {None}, fallback : BOOLEAN, named : BOOLEAN]

\* How what is presented differs from what was signed: not JSON or without proof
\* or issuer; with a verificationMethod or a proofValue of no use; with other content.
Defects == {"none", "malformed", "unmatched", "altered"}

Verdicts == {"valid", "invalid", "revoked", "expired"}
Final == {"revoked", "expired"}

\* chain: the process that verifies has a chain client.  settled and struck: what had
\* been logged of the credential, and whether it was revoked, when the verification began.
Calls == [pc : {"idle", "signed", "decided", "answered"}, id : Ids \cup {None}, defect : Defects,
          verdict : Verdicts, chain : BOOLEAN, settled : SUBSET Final, struck : BOOLEAN]
Waiting == [pc |-> "idle", id |-> None, defect |-> "none", verdict |-> "invalid", chain |-> FALSE,
            settled |-> {}, struck |-> FALSE]
Answered == [Waiting EXCEPT !.pc = "answered"]

Init ==
    /\ clock = 1
    /\ Registry!TimelineInit
    /\ signing \in Keys
    /\ client \in BOOLEAN
    /\ online = TRUE
    /\ badges = [id \in Ids |-> None]
    /\ revoked = {}
    /\ call = [v \in Verifications |-> Waiting]
    /\ log = {}

-------------------------------------------------------------------------------
(* The world around a verification.                                        *)

BuildCredential(id) ==
    /\ badges[id] = None
    /\ \E f \in BOOLEAN : badges' = [badges EXCEPT ![id] =
          [issuer |-> "own", key |-> signing, validFrom |-> clock, until |-> None, fallback |-> f,
           named |-> TRUE]]
    /\ UNCHANGED <<keyAt, clock, signing, client, online, revoked, call, log>>

IssuedElsewhere(id) ==
    /\ badges[id] = None
    /\ \E u \in {None} \cup {t \in Instants : t > clock}, f, n \in BOOLEAN : badges' = [badges EXCEPT ![id] =
          [issuer |-> "foreign", key |-> ForeignKey, validFrom |-> clock, until |-> u, fallback |-> f,
           named |-> n]]
    /\ UNCHANGED <<keyAt, clock, signing, client, online, revoked, call, log>>

Revoke(id) ==
    /\ badges[id] # None
    /\ badges[id].named
    /\ revoked' = revoked \cup {id}
    /\ UNCHANGED <<keyAt, clock, signing, client, online, badges, call, log>>

\* The issuer changes the registered key and the server's key one by one.
RotateOnChain ==
    /\ \E k \in Keys \cup {NoKey} : Registry!Choose(k)
    /\ UNCHANGED <<signing, client, online, badges, revoked, call, log>>

\* The server stops, by its operator or by a panic, and starts again with the key of
\* its configuration; its verifications in progress are gone.  A start that does not
\* reach the node goes on without a chain client, until the next start.
RestartWithKey(k) ==
    /\ signing' = k
    /\ client' \in BOOLEAN
    /\ call' = [v \in Verifications |->
                  IF v \in Local /\ call[v].pc # "idle" THEN Answered ELSE call[v]]
    /\ UNCHANGED <<keyAt, clock, online, badges, revoked, log>>

DomainGoes ==
    /\ online' = FALSE
    /\ UNCHANGED <<keyAt, clock, signing, client, badges, revoked, call, log>>

Tick ==
    /\ clock < MaxTime
    /\ clock' = clock + 1
    /\ Registry!Pass
    /\ UNCHANGED <<signing, client, online, badges, revoked, call, log>>

-------------------------------------------------------------------------------
(* Resolving the issuer's key.  NoKey: the resolution failed.              *)

\* Resolve: this server's own document needs no request; any other is fetched.
Resolve(v, c, fetched) ==
    IF v \in Local /\ c.issuer = "own" THEN signing
    ELSE IF ~fetched THEN NoKey
    ELSE IF c.issuer = "foreign" THEN ForeignKey
    ELSE IF online THEN signing ELSE NoKey

\* Faulty variant: the registry is asked for the key of this instant.
ResolveCurrent(c, chain, answered) == IF chain /\ answered THEN keyAt[clock] ELSE NoKey

\* ResolveFallback: the key at the time of issue, from the registry this process is
\* configured with, whatever contract the credential names; none without a chain client.
ResolveFallback(c, chain, answered) == IF chain /\ answered THEN keyAt[c.validFrom] ELSE NoKey

ResolveWithFallback(v, c, chain, fetched, answered) ==
    IF Resolve(v, c, fetched) # NoKey THEN Resolve(v, c, fetched)
    ELSE IF c.fallback THEN ResolveFallback(c, chain, answered)
    ELSE NoKey

\* Faulty variant: the proof is checked against the key alone, whatever the content.
KeyHolds(c, defect, key) == defect \in {"none", "altered"} /\ key # NoKey /\ key = c.key

\* The verification method has the same name, #key-1, whatever the key.
SignatureHolds(c, defect, key) == defect = "none" /\ key # NoKey /\ key = c.key

-------------------------------------------------------------------------------
(* VerifyCredential.                                                       *)

\* Steps 1 to 8.  fetched, answered: whether did.json and the key registry could be
\* read.  A verifier elsewhere may have a chain client or none.
CheckSignature(v, id, defect) ==
    /\ call[v].pc = "idle"
    /\ badges[id] # None
    /\ \E fetched, answered, chain \in BOOLEAN :
          LET key == ResolveWithFallback(v, badges[id], chain, fetched, answered) IN
          /\ v \in Local => chain = client
          /\ call' = [call EXCEPT ![v] =
                [pc |-> IF SignatureHolds(badges[id], defect, key) THEN "signed" ELSE "decided",
                 id |-> id, defect |-> defect, verdict |-> "invalid", chain |-> chain,
                 settled |-> {r \in Final : <<id, r>> \in log},
                 struck |-> id \in revoked]]
    /\ UNCHANGED <<worldVars, log>>

Expired(c) == c.until # None /\ clock > c.until

\* Faulty variant: a registry that does not answer is taken for one that says no.
StatusIfAnswered(id, chain, answered) ==
    IF chain /\ answered /\ id \in revoked THEN "revoked"
    ELSE IF Expired(badges[id]) THEN "expired"
    ELSE "valid"

\* Steps 9 to 11: a registry that does not answer makes the credential invalid, but
\* without a chain client, or without an id to ask for, none is asked.
StatusVerdict(id, chain, answered) ==
    IF chain /\ badges[id].named /\ ~answered THEN "invalid"
    ELSE IF chain /\ badges[id].named /\ id \in revoked THEN "revoked"
    ELSE IF Expired(badges[id]) THEN "expired"
    ELSE "valid"

CheckStatus(v) ==
    /\ call[v].pc = "signed"
    /\ \E answered \in BOOLEAN :
          call' = [call EXCEPT ![v].pc = "decided",
                               ![v].verdict = StatusVerdict(call[v].id, call[v].chain, answered)]
    /\ UNCHANGED <<worldVars, log>>

\* saveVerificationLog, best effort, and the answer; the call's locals are gone.
SaveLog(v) ==
    /\ call[v].pc = "decided"
    /\ call' = [call EXCEPT ![v] = Answered]
    /\ log' \in {log, log \cup ({<<call[v].id, call[v].verdict>>} \cap (Ids \X Final))}
    /\ UNCHANGED worldVars

-------------------------------------------------------------------------------
World ==
    \/ \E id \in Ids : BuildCredential(id) \/ IssuedElsewhere(id) \/ Revoke(id)
    \/ \E k \in Keys : RestartWithKey(k)
    \/ RotateOnChain \/ DomainGoes \/ Tick

VerifyCredential(v) ==
    \/ \E id \in Ids, defect \in Defects : CheckSignature(v, id, defect)
    \/ CheckStatus(v) \/ SaveLog(v)

Next == World \/ \E v \in Verifications : VerifyCredential(v)

Spec == Init /\ [][Next]_verificationVars

-------------------------------------------------------------------------------
TypeOK ==
    /\ keyAt \in [Instants -> Keys \cup {NoKey}]
    /\ clock \in Instants
    /\ signing \in Keys
    /\ client \in BOOLEAN
    /\ online \in BOOLEAN
    /\ badges \in [Ids -> Credentials \cup {None}]
    /\ revoked \subseteq Ids
    /\ call \in [Verifications -> Calls]
    /\ log \subseteq (Ids \X Final)

\* Only what was signed passes, with whatever key, through whatever resolution and
\* without a chain client too; and a credential that had been revoked when its
\* verification began passes in no process that has a chain client, whatever calls
\* fail while it runs.
ValidIsGenuine ==
    \A v \in Verifications : call[v].verdict = "valid" =>
        call[v].defect = "none" /\ (call[v].struck => ~call[v].chain)

\* Once the log says expired of a credential, no verification that begins later calls
\* it valid, nor, once it says revoked, does one by a process with a chain client,
\* even if a registry fails or the key has changed.
VerdictsAreFinal ==
    \A v \in Verifications : call[v].verdict = "valid" =>
        "expired" \notin call[v].settled /\ (call[v].settled # {} => ~call[v].chain)

\* A key of which the registry names the instant of issue keeps a credential
\* verifiable without the domain, whatever is rotated later: the fallback asks
\* for the key at validFrom, and the registry's past is fixed.
PassesWithoutDomain(c) == c.fallback /\ SignatureHolds(c, "none", ResolveFallback(c, TRUE, TRUE))
SurvivesWithoutDomain ==
    [][\A id \in Ids : badges[id] # None /\ badges[id].validFrom < clock =>
         (PassesWithoutDomain(badges[id])' <=> PassesWithoutDomain(badges[id]))]_verificationVars

\* "no effect; verified further with the old public key, as of the time of issue"
\* (docs/did-design.md:52, of a regular key change): a badge with a fallback whose key
\* the registry names at its time of issue, and which this server accepts, it accepts
\* when it is started with the key that the registry now names, every call succeeding.
PassesHere(c) ==
    SignatureHolds(c, "none", ResolveWithFallback(CHOOSE v \in Local : TRUE, c, TRUE, TRUE, TRUE))
RotationKeepsBadges ==
    [][\A id \in Ids :
         /\ badges[id] # None
         /\ badges[id].fallback /\ keyAt[badges[id].validFrom] = badges[id].key
         /\ signing = badges[id].key /\ signing' = keyAt[clock]
         /\ client /\ client'
         /\ PassesHere(badges[id])
         => PassesHere(badges[id])']_verificationVars

===============================================================================
