--------------------------- MODULE VerificationProofs ---------------------------
(***************************************************************************)
(* The safety of verification, for any credentials, keys and calls in      *)
(* progress, whether or not the process has a chain client.  A verdict of  *)
(* revoked or expired, once reached, stays true of the credential: a       *)
(* revocation and the past are permanent.                                  *)
(***************************************************************************)
EXTENDS Verification, TLAPS

\* What a verification has established of its credential before it looks at its status.
CallsAreSound ==
    \A v \in Verifications :
        /\ call[v].pc \in {"signed", "decided"} => call[v].id \in Ids /\ badges[call[v].id] # None
        /\ call[v].pc = "signed" => call[v].defect = "none" /\ call[v].verdict = "invalid"
        /\ call[v].pc \in {"idle", "answered"} => call[v].verdict = "invalid"

\* Only a credential with an id is ever revoked.
RevokedAreNamed == \A id \in revoked : badges[id] # None /\ badges[id].named

Struck(id) == id \in revoked
Lapsed(id) == badges[id] # None /\ Expired(badges[id])

\* What a verdict, or an entry of the log, says of a credential is the case.
Holds(id, verdict) ==
    /\ verdict = "revoked" => Struck(id)
    /\ verdict = "expired" => Lapsed(id)

\* A verdict of revoked or expired is true of the credential, and so is what a
\* verification found in the log and in the registry when it began.
VerdictsAreTrue ==
    \A v \in Verifications : call[v].pc \in {"signed", "decided"} =>
        /\ Holds(call[v].id, call[v].verdict)
        /\ \A r \in call[v].settled : Holds(call[v].id, r)
        /\ call[v].struck => Struck(call[v].id)

LogIsTrue == \A id \in Ids, r \in Final : <<id, r>> \in log => Holds(id, r)

IInv ==
    /\ TypeOK
    /\ RevokedAreNamed
    /\ CallsAreSound
    /\ VerdictsAreTrue
    /\ LogIsTrue
    /\ ValidIsGenuine
    /\ VerdictsAreFinal

-------------------------------------------------------------------------------
\* What the world does to a credential: nothing, ever; it only gets older or revoked,
\* and verifications of it are only cut short.
Older ==
    /\ clock \in Instants /\ clock' \in Instants /\ clock =< clock'
    /\ revoked \subseteq revoked'
    /\ \A id \in Ids : badges[id] # None => badges'[id] = badges[id]
    /\ \A v \in Verifications : call'[v] \in {call[v], Answered}
    /\ log' = log

LEMMA AnsweredTyped ==
  /\ Answered \in Calls
  /\ Answered = [pc |-> "answered", id |-> None, defect |-> "none", verdict |-> "invalid", chain |-> FALSE,
                 settled |-> {}, struck |-> FALSE]
<1>1. Waiting \in Calls
  BY DEF Waiting, Calls, Verdicts, Defects, Final
<1>2. Answered = [pc |-> "answered", id |-> Waiting.id, defect |-> Waiting.defect, verdict |-> Waiting.verdict,
                  chain |-> Waiting.chain, settled |-> Waiting.settled, struck |-> Waiting.struck]
  BY <1>1 DEF Answered, Calls
<1>3. Answered = [pc |-> "answered", id |-> None, defect |-> "none", verdict |-> "invalid", chain |-> FALSE,
                  settled |-> {}, struck |-> FALSE]
  BY <1>2 DEF Waiting
<1> QED BY <1>3 DEF Calls, Verdicts, Defects, Final

\* The server, too, writes credentials of the shape Credentials, and None is none of them.
LEMMA WorldTyped ==
  ASSUME TypeOK, World
  PROVE  TypeOK' /\ Older
<1> USE VerificationAssumption
<1>1. ASSUME NEW id \in Ids, BuildCredential(id) PROVE TypeOK' /\ Older
  <2>1. PICK f \in BOOLEAN : badges' = [badges EXCEPT ![id] =
          [issuer |-> "own", key |-> signing, validFrom |-> clock, until |-> None, fallback |-> f,
           named |-> TRUE]]
    BY <1>1 DEF BuildCredential
  <2> DEFINE c == [issuer |-> "own", key |-> signing, validFrom |-> clock, until |-> None, fallback |-> f,
                   named |-> TRUE]
  <2>2. c \in Credentials
    BY DEF TypeOK, Credentials
  <2> HIDE DEF c
  <2>3. badges' = [badges EXCEPT ![id] = c] /\ badges[id] = None
    BY <1>1, <2>1 DEF BuildCredential, c
  <2>4. UNCHANGED <<keyAt, clock, signing, client, online, revoked, call, log>>
    BY <1>1 DEF BuildCredential
  <2>5. badges' \in [Ids -> Credentials \cup {None}]
    BY <2>2, <2>3 DEF TypeOK
  <2>6. \A i \in Ids : badges[i] # None => badges'[i] = badges[i]
    BY <2>3 DEF TypeOK
  <2> QED BY <2>4, <2>5, <2>6 DEF TypeOK, Older, Instants
<1>2. ASSUME NEW id \in Ids, IssuedElsewhere(id) PROVE TypeOK' /\ Older
  <2>1. PICK u \in {None} \cup Instants, f, n \in BOOLEAN : badges' = [badges EXCEPT ![id] =
          [issuer |-> "foreign", key |-> ForeignKey, validFrom |-> clock, until |-> u, fallback |-> f,
           named |-> n]]
    BY <1>2 DEF IssuedElsewhere
  <2> DEFINE c == [issuer |-> "foreign", key |-> ForeignKey, validFrom |-> clock, until |-> u, fallback |-> f,
                   named |-> n]
  <2>2. c \in Credentials
    BY DEF TypeOK, Credentials
  <2> HIDE DEF c
  <2>3. badges' = [badges EXCEPT ![id] = c] /\ badges[id] = None
    BY <1>2, <2>1 DEF IssuedElsewhere, c
  <2> QED BY <1>2, <2>2, <2>3 DEF IssuedElsewhere, TypeOK, Older, Instants
<1>3. ASSUME NEW id \in Ids, Revoke(id) PROVE TypeOK' /\ Older
  BY <1>3 DEF Revoke, TypeOK, Older, Instants
<1>4. ASSUME NEW k \in Keys, RestartWithKey(k) PROVE TypeOK' /\ Older
  <2>1. \A v \in Verifications : call'[v] \in {call[v], Answered}
    BY <1>4 DEF RestartWithKey
  <2>2. call' \in [Verifications -> Calls]
    <3>1. \A v \in Verifications :
            (IF v \in Local /\ call[v].pc # "idle" THEN Answered ELSE call[v]) \in Calls
      BY AnsweredTyped DEF TypeOK
    <3> QED BY <1>4, <3>1 DEF RestartWithKey
  <2> QED BY <1>4, <2>1, <2>2 DEF RestartWithKey, TypeOK, Older, Instants
<1>5. ASSUME RotateOnChain PROVE TypeOK' /\ Older
  BY <1>5 DEF RotateOnChain, Registry!Choose, TypeOK, Older, Instants
<1>6. ASSUME DomainGoes PROVE TypeOK' /\ Older
  <2>1. online' \in BOOLEAN /\ UNCHANGED <<keyAt, clock, signing, client, badges, revoked, call, log>>
    BY <1>6 DEF DomainGoes
  <2>2. TypeOK'
    BY <2>1 DEF TypeOK
  <2>3. Older
    BY <2>1 DEF TypeOK, Older, Instants
  <2> QED BY <2>2, <2>3
<1>7. ASSUME Tick PROVE TypeOK' /\ Older
  BY <1>7 DEF Tick, Registry!Pass, TypeOK, Older, Instants
<1> QED BY <1>1, <1>2, <1>3, <1>4, <1>5, <1>6, <1>7 DEF World

\* What is true of a credential's status stays true.
LEMMA StatusStays ==
  ASSUME TypeOK, Older, NEW id \in Ids
  PROVE  /\ Lapsed(id) => Lapsed(id)'
         /\ Struck(id) => Struck(id)'
         /\ \A r : Holds(id, r) => Holds(id, r)'
<1>1. ASSUME badges[id] # None, Expired(badges[id]) PROVE clock' > badges[id].until
  <2>1. badges[id] \in Credentials
    BY <1>1 DEF TypeOK
  <2>2. badges[id].until \in Instants /\ clock > badges[id].until
    BY <1>1, <2>1 DEF Expired, Credentials
  <2> QED BY <2>2, VerificationAssumption DEF Older, Instants
<1>2. Lapsed(id) => Lapsed(id)'
  BY <1>1 DEF Lapsed, Expired, Older
<1>3. Struck(id) => Struck(id)'
  BY DEF Struck, Older
<1> QED BY <1>2, <1>3 DEF Holds

LEMMA WorldStep ==
  ASSUME IInv, World
  PROVE  IInv'
<1>1. TypeOK' /\ Older /\ TypeOK
  BY WorldTyped DEF IInv
<1>2. \A id \in Ids : /\ Struck(id) => Struck(id)'
                      /\ \A r : Holds(id, r) => Holds(id, r)'
  BY <1>1, StatusStays
<1>3. CallsAreSound'
  BY <1>1, AnsweredTyped DEF IInv, CallsAreSound, Older
<1>4. VerdictsAreTrue'
  <2> SUFFICES ASSUME NEW v \in Verifications, call'[v].pc \in {"signed", "decided"}
               PROVE  /\ Holds(call[v].id, call[v].verdict)'
                      /\ (\A r \in call[v].settled : Holds(call[v].id, r))'
                      /\ (call[v].struck => Struck(call[v].id))'
    BY DEF VerdictsAreTrue
  <2>1. call'[v] = call[v]
    BY <1>1, AnsweredTyped DEF Older
  <2>2. call[v].id \in Ids
    BY <2>1 DEF IInv, CallsAreSound
  <2>3. /\ Holds(call[v].id, call[v].verdict)
        /\ \A r \in call[v].settled : Holds(call[v].id, r)
        /\ call[v].struck => Struck(call[v].id)
    BY <2>1 DEF IInv, VerdictsAreTrue
  <2> QED BY <1>2, <2>1, <2>2, <2>3 DEF Holds, Struck, Lapsed, Expired
<1>5. LogIsTrue'
  BY <1>1, <1>2 DEF IInv, LogIsTrue, Older
<1>6. ValidIsGenuine' /\ VerdictsAreFinal'
  BY <1>1, AnsweredTyped DEF IInv, ValidIsGenuine, VerdictsAreFinal, Older
<1>7. RevokedAreNamed'
  <2>1. revoked' = revoked \/ \E id \in Ids : Revoke(id)
    BY DEF World, BuildCredential, IssuedElsewhere, RestartWithKey, RotateOnChain, DomainGoes, Tick
  <2>2. revoked \subseteq Ids
    BY <1>1 DEF TypeOK
  <2> QED BY <1>1, <2>1, <2>2 DEF IInv, RevokedAreNamed, Older, Revoke
<1> QED BY <1>1, <1>3, <1>4, <1>5, <1>6, <1>7 DEF IInv

-------------------------------------------------------------------------------
(* The steps of one verification.                                          *)

\* What must be shown of the call that took a step, and of the log.
LEMMA CallStep ==
  ASSUME IInv, NEW v \in Verifications, NEW c \in Calls, call' = [call EXCEPT ![v] = c],
         UNCHANGED worldVars, log' \subseteq Ids \X Final, LogIsTrue',
         c.pc \in {"signed", "decided"} =>
             /\ c.id \in Ids /\ badges[c.id] # None
             /\ Holds(c.id, c.verdict)
             /\ \A r \in c.settled : Holds(c.id, r)
             /\ c.struck => Struck(c.id),
         c.pc = "signed" => c.defect = "none" /\ c.verdict = "invalid",
         c.pc \in {"idle", "answered"} => c.verdict = "invalid",
         c.verdict = "valid" =>
             /\ c.defect = "none"
             /\ "expired" \notin c.settled
             /\ c.struck \/ c.settled # {} => ~c.chain
  PROVE  IInv'
<1>1. /\ call' \in [Verifications -> Calls] /\ call'[v] = c
      /\ \A w \in Verifications \ {v} : call'[w] = call[w]
  BY DEF IInv, TypeOK
<1>2. TypeOK'
  BY <1>1 DEF IInv, TypeOK, worldVars
<1>3. CallsAreSound'
  BY <1>1 DEF IInv, CallsAreSound, worldVars
<1>4. VerdictsAreTrue'
  BY <1>1 DEF IInv, VerdictsAreTrue, Holds, Struck, Lapsed, Expired, worldVars
<1>5. ValidIsGenuine' /\ VerdictsAreFinal'
  BY <1>1 DEF IInv, ValidIsGenuine, VerdictsAreFinal
<1>6. RevokedAreNamed'
  BY DEF IInv, RevokedAreNamed, worldVars
<1> QED BY <1>2, <1>3, <1>4, <1>5, <1>6 DEF IInv

LEMMA CheckSignatureStep ==
  ASSUME IInv, NEW v \in Verifications, NEW id \in Ids, NEW defect \in Defects,
         CheckSignature(v, id, defect)
  PROVE  IInv'
<1>1. PICK fetched, answered, chain \in BOOLEAN :
        LET key == ResolveWithFallback(v, badges[id], chain, fetched, answered) IN
        call' = [call EXCEPT ![v] =
           [pc |-> IF SignatureHolds(badges[id], defect, key) THEN "signed" ELSE "decided",
            id |-> id, defect |-> defect, verdict |-> "invalid", chain |-> chain,
            settled |-> {r \in Final : <<id, r>> \in log},
            struck |-> id \in revoked]]
  BY DEF CheckSignature
<1> DEFINE key == ResolveWithFallback(v, badges[id], chain, fetched, answered)
           holds == SignatureHolds(badges[id], defect, key)
           settled == {r \in Final : <<id, r>> \in log}
           c == [pc |-> IF holds THEN "signed" ELSE "decided",
                 id |-> id, defect |-> defect, verdict |-> "invalid", chain |-> chain,
                 settled |-> settled, struck |-> id \in revoked]
<1>2. call' = [call EXCEPT ![v] = c]
  BY <1>1
<1>3. /\ c.pc \in {"signed", "decided"} /\ c.id = id /\ c.verdict = "invalid"
      /\ c.settled = settled /\ c.struck = (id \in revoked) /\ c.defect = defect
  OBVIOUS
<1>4. c.pc = "signed" => defect = "none"
  BY DEF SignatureHolds
<1>5. c \in Calls
  BY DEF Calls, Verdicts, Final
<1>6. badges[id] # None /\ UNCHANGED worldVars /\ log' = log
  BY DEF CheckSignature
<1>7. (\A r \in settled : Holds(id, r)) /\ Holds(id, "invalid")
  BY DEF IInv, LogIsTrue, Holds
<1>8. LogIsTrue'
  BY <1>6 DEF IInv, LogIsTrue, Holds, Struck, Lapsed, Expired, worldVars
<1>9. log \subseteq Ids \X Final
  BY DEF IInv, TypeOK
<1> HIDE DEF c, settled
<1> QED BY <1>2, <1>3, <1>4, <1>5, <1>6, <1>7, <1>8, <1>9, CallStep DEF Struck

\* A call that is decided keeps everything else.
LEMMA DecidedCall ==
  ASSUME NEW o \in Calls, NEW verdict \in Verdicts
  PROVE  [[o EXCEPT !.pc = "decided"] EXCEPT !.verdict = verdict] =
           [pc |-> "decided", id |-> o.id, defect |-> o.defect, verdict |-> verdict, chain |-> o.chain,
            settled |-> o.settled, struck |-> o.struck]
<1> DEFINE d == [o EXCEPT !.pc = "decided"]
<1>1. /\ d \in Calls /\ d.pc = "decided" /\ d.id = o.id /\ d.defect = o.defect
      /\ d.chain = o.chain /\ d.settled = o.settled /\ d.struck = o.struck
  BY DEF Calls
<1> HIDE DEF d
<1>2. [d EXCEPT !.verdict = verdict] =
        [pc |-> d.pc, id |-> d.id, defect |-> d.defect, verdict |-> verdict, chain |-> d.chain,
         settled |-> d.settled, struck |-> d.struck]
  BY <1>1 DEF Calls
<1>3. [d EXCEPT !.verdict = verdict] =
        [pc |-> "decided", id |-> o.id, defect |-> o.defect, verdict |-> verdict, chain |-> o.chain,
         settled |-> o.settled, struck |-> o.struck]
  BY <1>1, <1>2
<1> QED BY <1>3 DEF d

LEMMA CheckStatusStep ==
  ASSUME IInv, NEW v \in Verifications, CheckStatus(v)
  PROVE  IInv'
<1> DEFINE o == call[v]
<1>1. o \in Calls /\ call \in [Verifications -> Calls] /\ o.pc = "signed" /\ log \subseteq Ids \X Final
  BY DEF IInv, TypeOK, CheckStatus
<1>2. PICK answered \in BOOLEAN :
        call' = [call EXCEPT ![v].pc = "decided",
                             ![v].verdict = StatusVerdict(call[v].id, call[v].chain, answered)]
  BY DEF CheckStatus
<1> DEFINE verdict == StatusVerdict(o.id, o.chain, answered)
           c == [pc |-> "decided", id |-> o.id, defect |-> o.defect, verdict |-> verdict, chain |-> o.chain,
                 settled |-> o.settled, struck |-> o.struck]
<1>3. /\ o.id \in Ids /\ badges[o.id] # None /\ o.defect = "none"
      /\ \A r \in o.settled : Holds(o.id, r)
      /\ o.struck => Struck(o.id)
      /\ o.settled \subseteq Final
  BY <1>1 DEF IInv, CallsAreSound, VerdictsAreTrue, Calls
<1>4. /\ verdict \in Verdicts
      /\ Holds(o.id, verdict)
      /\ verdict = "valid" => ~Lapsed(o.id) /\ (Struck(o.id) => ~o.chain)
  BY <1>3 DEF StatusVerdict, Verdicts, Holds, Lapsed, Struck, IInv, RevokedAreNamed
<1>5. verdict = "valid" => "expired" \notin o.settled /\ (o.struck \/ o.settled # {} => ~o.chain)
  BY <1>3, <1>4 DEF Holds, Final
<1> HIDE DEF verdict
<1>6. c \in Calls
  BY <1>1, <1>4 DEF Calls
<1>7. call' = [call EXCEPT ![v] = c]
  <2>1. [[o EXCEPT !.pc = "decided"] EXCEPT !.verdict = verdict] = c
    BY <1>1, <1>4, DecidedCall
  <2> HIDE DEF c
  <2> QED BY <1>1, <1>2, <2>1 DEF verdict
<1>8. UNCHANGED worldVars /\ log' = log
  BY DEF CheckStatus
<1>9. LogIsTrue'
  BY <1>8 DEF IInv, LogIsTrue, Holds, Struck, Lapsed, Expired, worldVars
<1> QED BY <1>1, <1>3, <1>4, <1>6, <1>7, <1>8, <1>9, <1>5, CallStep

LEMMA SaveLogStep ==
  ASSUME IInv, NEW v \in Verifications, SaveLog(v)
  PROVE  IInv'
<1> DEFINE c == [pc |-> "answered", id |-> None, defect |-> "none", verdict |-> "invalid", chain |-> FALSE,
                 settled |-> {}, struck |-> FALSE]
<1>1. call[v] \in Calls /\ call[v].pc = "decided" /\ UNCHANGED worldVars
  BY DEF IInv, TypeOK, SaveLog
<1>2. call' = [call EXCEPT ![v] = c]
  BY AnsweredTyped DEF SaveLog
<1>3. c \in Calls
  BY AnsweredTyped
<1>4. /\ call[v].id \in Ids
      /\ Holds(call[v].id, call[v].verdict)
  BY <1>1 DEF IInv, CallsAreSound, VerdictsAreTrue
<1>5. log' \in {log, log \cup ({<<call[v].id, call[v].verdict>>} \cap (Ids \X Final))}
  BY DEF SaveLog
<1>6. log' \subseteq Ids \X Final
  BY <1>5 DEF IInv, TypeOK
<1>7. LogIsTrue'
  <2> SUFFICES ASSUME NEW id \in Ids, NEW r \in Final, <<id, r>> \in log'
               PROVE  Holds(id, r)
    BY <1>1 DEF LogIsTrue, Holds, Struck, Lapsed, Expired, worldVars
  <2>1. CASE <<id, r>> \in log
    BY <2>1 DEF IInv, LogIsTrue
  <2>2. CASE <<id, r>> = <<call[v].id, call[v].verdict>>
    BY <1>4, <2>2
  <2> QED BY <1>5, <2>1, <2>2
<1> HIDE DEF c
<1> QED BY <1>1, <1>2, <1>3, <1>6, <1>7, CallStep DEF c

-------------------------------------------------------------------------------
LEMMA InitInvariant == Init => IInv
<1> SUFFICES ASSUME Init PROVE IInv
  OBVIOUS
<1> USE VerificationAssumption DEF Init
<1>1. Waiting \in Calls
  BY DEF Waiting, Calls, Verdicts, Defects, Final
<1>2. keyAt \in [Instants -> Keys \cup {NoKey}]
  BY DEF Registry!TimelineInit
<1>3. TypeOK
  BY <1>1, <1>2 DEF TypeOK, Instants
<1> QED
  BY <1>3 DEF IInv, RevokedAreNamed, CallsAreSound, VerdictsAreTrue, LogIsTrue, ValidIsGenuine,
       VerdictsAreFinal, Waiting

LEMMA StepInvariant == IInv /\ [Next]_verificationVars => IInv'
<1> SUFFICES ASSUME IInv, [Next]_verificationVars PROVE IInv'
  OBVIOUS
<1>1. CASE UNCHANGED verificationVars
  BY <1>1 DEF verificationVars, worldVars, IInv, TypeOK, RevokedAreNamed, CallsAreSound, VerdictsAreTrue, LogIsTrue,
       Holds, Lapsed, Struck, Expired, ValidIsGenuine, VerdictsAreFinal
<1>2. CASE World
  BY <1>2, WorldStep
<1>3. ASSUME NEW v \in Verifications, VerifyCredential(v) PROVE IInv'
  BY <1>3, CheckSignatureStep, CheckStatusStep, SaveLogStep DEF VerifyCredential
<1> QED BY <1>1, <1>2, <1>3 DEF Next

LEMMA Invariance == Spec => []IInv
BY InitInvariant, StepInvariant, PTL DEF Spec

\* Every variable of a verification and of the world around it keeps its type.
THEOREM VerificationTyped == Spec => []TypeOK
BY Invariance, PTL DEF IInv

\* Nothing but what was signed is called valid, and, by a process with a chain client,
\* nothing that was already revoked when VerifyCredential began.
THEOREM VerificationValidIsGenuine == Spec => []ValidIsGenuine
BY Invariance, PTL DEF IInv

\* verification_logs never says expired before a verification that says valid, nor
\* revoked before one by a process with a chain client.
THEOREM VerificationVerdictsAreFinal == Spec => []VerdictsAreFinal
BY Invariance, PTL DEF IInv

\* Rotations, restarts and time leave what the fallback resolves for a past issue as it was.
THEOREM VerificationSurvivesWithoutDomain == Spec => SurvivesWithoutDomain
<1> DEFINE A == \A id \in Ids : badges[id] # None /\ badges[id].validFrom < clock =>
                   (PassesWithoutDomain(badges[id])' <=> PassesWithoutDomain(badges[id]))
<1>1. ASSUME IInv, Next PROVE A
  <2> SUFFICES ASSUME NEW id \in Ids, badges[id] # None, badges[id].validFrom < clock
               PROVE  PassesWithoutDomain(badges[id])' <=> PassesWithoutDomain(badges[id])
    OBVIOUS
  <2>1. badges'[id] = badges[id]
    <3>1. CASE World
      BY <1>1, <3>1, WorldTyped DEF IInv, Older
    <3>2. ASSUME NEW v \in Verifications, VerifyCredential(v) PROVE badges'[id] = badges[id]
      BY <3>2 DEF VerifyCredential, CheckSignature, CheckStatus, SaveLog, worldVars
    <3> QED BY <1>1, <3>1, <3>2 DEF Next
  <2>2. badges[id].validFrom \in Instants
    BY <1>1 DEF IInv, TypeOK, Credentials
  <2>3. keyAt'[badges[id].validFrom] = keyAt[badges[id].validFrom]
    <3>1. CASE World
      BY <2>2, <3>1 DEF World, BuildCredential, IssuedElsewhere, Revoke, RestartWithKey, RotateOnChain, DomainGoes,
           Tick, Registry!Choose, Registry!Pass
    <3>2. ASSUME NEW v \in Verifications, VerifyCredential(v)
          PROVE  keyAt' = keyAt
      BY <3>2 DEF VerifyCredential, CheckSignature, CheckStatus, SaveLog, worldVars
    <3> QED BY <1>1, <3>1, <3>2 DEF Next
  <2> QED BY <2>1, <2>3 DEF PassesWithoutDomain, SignatureHolds, ResolveFallback
<1>2. IInv /\ [Next]_verificationVars => [A]_verificationVars
  BY <1>1
<1> HIDE DEF A
<1>3. Spec => [][A]_verificationVars
  BY <1>2, Invariance, PTL DEF Spec
<1> QED BY <1>3 DEF SurvivesWithoutDomain, A

===============================================================================
