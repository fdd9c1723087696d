------------------------------- MODULE Documents ------------------------------
(***************************************************************************)
(* What a credential says on its way from the builder                      *)
(* (service/credential.go) through the database and the client to the      *)
(* verifier (service/verifier.go), and what ReissueBadge                   *)
(* (handler/credential.go) makes of a stored one.                          *)
(*                                                                         *)
(* A JSON text is the sequence of its leaves, each a path and a value, in  *)
(* the order in which its keys are written; parsed, it is a function from  *)
(* paths to values.  Leaves that never vary are left out.  SHA-256 is the  *)
(* text itself, and Ed25519 accepts what was signed and nothing else.      *)
(***************************************************************************)
EXTENDS Multibase

CONSTANTS
    Keys,         \* signing keys: byte strings of KeySize bytes
    Signatures,   \* byte strings that a signature may be
    None

VARIABLES
    badges,       \* rows of badges, the second one a reissue of the first
    signatures,   \* what was signed: [key, message, bytes]
    holder        \* the text a holder has: from which row, by which route, altered or not

vars == <<badges, signatures, holder>>

-------------------------------------------------------------------------------
(* Texts.  "subject" stands for credentialSubject.                         *)

\* sort.Strings and json.Marshal of a map: by the bytes of the key.
SortedOrder ==
    <<"subject.achievement.category", "subject.achievement.criteria",
      "subject.achievement.description", "subject.achievement.id",
      "subject.achievement.image", "subject.achievement.name",
      "subject.achievement.programId", "subject.id", "subject.identifier",
      "subject.name", "subject.source", "didFallback", "id", "issuer.id",
      "issuer.name", "proof.created", "proof.proofValue", "proof.verificationMethod",
      "validFrom", "validUntil">>

\* JSONB keeps the keys of an object by length, then by bytes.
StoredOrder ==
    <<"id", "proof.created", "proof.proofValue", "proof.verificationMethod", "issuer.id",
      "issuer.name", "validFrom", "validUntil", "didFallback", "subject.id", "subject.name",
      "subject.source", "subject.identifier", "subject.achievement.id",
      "subject.achievement.name", "subject.achievement.image",
      "subject.achievement.category", "subject.achievement.criteria",
      "subject.achievement.programId", "subject.achievement.description">>

Paths == ToSet(SortedOrder)
ProofPaths == {"proof.created", "proof.proofValue", "proof.verificationMethod"}

Parse(text) ==
    [p \in {text[i][1] : i \in DOMAIN text} |->
        text[CHOOSE i \in DOMAIN text : text[i][1] = p][2]]

Render(doc, order) ==
    LET written[i \in 0..Len(order)] ==
            IF i = 0 THEN <<>>
            ELSE IF order[i] \in DOMAIN doc
                 THEN Append(written[i - 1], <<order[i], doc[order[i]]>>) ELSE written[i - 1]
    IN  written[Len(order)]

\* Faulty variant: keys stay in the order in which they were written.
MarshalOnce(text) == text

canonicalJSON(text) == Render(Parse(text), SortedOrder)

-------------------------------------------------------------------------------
(* The builder.                                                            *)

IssuerDID == "did:web:issuer"
KeyID == "did:web:issuer#key-1"

Optional(path, value) == IF value = "" THEN <<>> ELSE <<<<path, value>>>>

\* Images with and without a data URI prefix.
Images == {"bare", "data:image/svg"}
ensureImageDataURI(img) == IF img = "bare" THEN "data:image/png;base64,bare" ELSE img

Body(p) ==
    <<<<"id", p.credentialID>>, <<"issuer.id", IssuerDID>>, <<"issuer.name", "issuer">>,
      <<"validFrom", p.now>>>>
    \o Optional("subject.id", p.recipientDID)
    \o <<<<"subject.name", p.recipientName>>>>
    \o Optional("subject.identifier", p.studentID)
    \o Optional("subject.source", p.universityCode)
    \o <<<<"subject.achievement.id", IF p.achievementID = "" THEN p.freshURN ELSE p.achievementID>>,
         <<"subject.achievement.name", p.achievementName>>,
         <<"subject.achievement.description", p.achievementDesc>>,
         <<"subject.achievement.criteria", p.criteria>>>>
    \o Optional("subject.achievement.category", p.programCategory)
    \o Optional("subject.achievement.programId", p.programID)
    \o <<<<"subject.achievement.image", ensureImageDataURI(p.image)>>,
         <<"didFallback", "contract">>>>

Signed(p, key, bytes) == [key |-> key, message |-> canonicalJSON(Body(p)), bytes |-> bytes]

BuildCredential(p, bytes) ==
    Parse(Body(p) \o <<<<"proof.verificationMethod", KeyID>>, <<"proof.created", p.now>>,
                       <<"proof.proofValue", Multibase(bytes)>>>>)

-------------------------------------------------------------------------------
(* The server.                                                             *)

\* uuid.Parse reads several spellings of the UUID that the column keeps.
AchievementIDs == {"", "uuid", "urn:uuid:uuid", "text"}

ASSUME DocumentsAssumption ==
    /\ Keys \subseteq [1..KeySize -> 0..255]
    /\ Signatures \subseteq Seq(0..255)
    /\ None \notin AchievementIDs

ParsedUUID(id) == IF id \in {"uuid", "urn:uuid:uuid"} THEN "uuid" ELSE None

Params(n, achievementID, studentID, programID, image, recipientDID) ==
    [credentialID |-> <<"c1", "c2">>[n], now |-> <<"t1", "t2">>[n],
     freshURN |-> <<"urn1", "urn2">>[n], recipientDID |-> recipientDID,
     recipientName |-> "recipient", studentID |-> studentID, universityCode |-> "SNU",
     achievementID |-> achievementID, achievementName |-> "name",
     achievementDesc |-> "description", criteria |-> "criteria",
     programCategory |-> "LEADERSHIP", programID |-> programID, image |-> image]

\* The row, its JSONB column and the hash for the chain; the client gets the
\* credential marshalled as it was for the hash.
SaveAndAnswer(p, achievementUUID, key, bytes) ==
    LET doc == BuildCredential(p, bytes)
    IN  /\ signatures' = signatures \cup {Signed(p, key, bytes)}
        /\ badges' = Append(badges,
               [credentialJSON |-> Render(doc, StoredOrder),
                blockchainHash |-> Render(doc, SortedOrder),
                recipientName |-> p.recipientName, recipientDID |-> p.recipientDID,
                achievementID |-> achievementUUID, key |-> key, asked |-> p.achievementID])
        /\ holder' = [text |-> Render(doc, SortedOrder), row |-> Len(badges) + 1,
                      altered |-> FALSE, route |-> "answer"]

Init ==
    /\ badges = <<>>
    /\ signatures = {}
    /\ holder = [text |-> <<>>, row |-> 0, altered |-> FALSE, route |-> None]

IssueBadge(key, bytes) ==
    /\ badges = <<>>
    /\ \E achievementID \in AchievementIDs, studentID \in {"", "s1"},
          programID \in {"", "p1"}, image \in Images :
         SaveAndAnswer(
             Params(1, achievementID, studentID, programID, image,
                    IF studentID # "" THEN "users:s1" ELSE "users:c1"),
             ParsedUUID(achievementID), key, bytes)

Field(doc, path) == IF path \in DOMAIN doc THEN doc[path] ELSE ""

\* Faulty variant: the program is forgotten.
ExtractWithoutProgram(doc) ==
    [achievementName |-> Field(doc, "subject.achievement.name"),
     achievementDesc |-> Field(doc, "subject.achievement.description"),
     criteria |-> Field(doc, "subject.achievement.criteria"),
     programCategory |-> Field(doc, "subject.achievement.category"),
     programID |-> ""]

extractAchievementInfo(doc) ==
    [achievementName |-> Field(doc, "subject.achievement.name"),
     achievementDesc |-> Field(doc, "subject.achievement.description"),
     criteria |-> Field(doc, "subject.achievement.criteria"),
     programCategory |-> Field(doc, "subject.achievement.category"),
     programID |-> Field(doc, "subject.achievement.programId")]

extractCPSIdentity(doc) ==
    [universityCode |-> Field(doc, "subject.source"),
     studentID |-> Field(doc, "subject.identifier")]

\* Only the columns and the stored text are left of the first badge.
ReissueBadge(key, bytes, image) ==
    /\ Len(badges) = 1
    /\ LET row == badges[1]
           doc == Parse(row.credentialJSON)
           info == extractAchievementInfo(doc)
           cps == extractCPSIdentity(doc)
       IN  SaveAndAnswer(
               [Params(2, IF row.achievementID = None THEN "" ELSE row.achievementID,
                       cps.studentID, info.programID, image, row.recipientDID)
                   EXCEPT !.recipientName = row.recipientName,
                          !.universityCode = cps.universityCode,
                          !.achievementName = info.achievementName,
                          !.achievementDesc = info.achievementDesc,
                          !.criteria = info.criteria,
                          !.programCategory = info.programCategory],
               row.achievementID, key, bytes)

\* DownloadBadge sends the column as it is; GetBadgeByCredentialID wraps it.
DownloadBadge(i) ==
    /\ holder' = [text |-> badges[i].credentialJSON, row |-> i, altered |-> FALSE,
                  route |-> "download"]
    /\ UNCHANGED <<badges, signatures>>

-------------------------------------------------------------------------------
(* Holders, whose tools write keys in an order of their own, and forgers.  *)

Reformat ==
    /\ holder.row # 0
    /\ ~holder.altered
    /\ holder' = [holder EXCEPT !.text = Reverse(Render(Parse(@), SortedOrder)),
                                !.route = "tool"]
    /\ UNCHANGED <<badges, signatures>>

Forged(path, value) ==
    IF path # "proof.proofValue" THEN {"forged"}
    ELSE {[value EXCEPT !.prefix = "f"], [value EXCEPT !.text = <<0>> \o @],
          [value EXCEPT !.text = Append(@, NoDigit)], [value EXCEPT !.text = Append(@, OffTable)],
          [value EXCEPT !.text = SubSeq(@, 2, Len(@))],
          [value EXCEPT !.text = [i \in DOMAIN @ |-> IF i = Len(@) THEN (@[i] + 1) % 58 ELSE @[i]]]}

\* A leaf is changed, added or dropped.
Alter ==
    LET doc == Parse(holder.text)
    IN  /\ holder.row # 0
        /\ ~holder.altered
        /\ \E path \in Paths :
             \/ \E v \in Forged(path, Field(doc, path)) :
                  holder' = [holder EXCEPT !.altered = TRUE, !.route = "forger",
                      !.text = Render([p \in DOMAIN doc \cup {path} |->
                                          IF p = path THEN v ELSE doc[p]], SortedOrder)]
             \/ /\ path \in DOMAIN doc
                /\ holder' = [holder EXCEPT !.altered = TRUE, !.route = "forger",
                      !.text = Render([p \in DOMAIN doc \ {path} |-> doc[p]], SortedOrder)]
        /\ UNCHANGED <<badges, signatures>>

Next ==
    \/ \E key \in Keys, bytes \in Signatures :
         \/ IssueBadge(key, bytes)
         \/ \E image \in Images : ReissueBadge(key, bytes, image)
    \/ \E i \in DOMAIN badges : DownloadBadge(i)
    \/ Reformat
    \/ Alter

Spec == Init /\ [][Next]_vars

-------------------------------------------------------------------------------
(* The verifier, given the key that was current when the badge was issued. *)

\* The proof is left out; the rest is written with sorted keys.
canonicalize(doc) ==
    canonicalJSON(Render([p \in DOMAIN doc \ ProofPaths |-> doc[p]], SortedOrder))

\* A proof that names no method is checked with the first key of the document.
extractPublicKey(doc, key) ==
    IF Field(doc, "proof.verificationMethod") \in {KeyID, ""}
    THEN DecodePublicKeyMultibase(PublicKeyMultibase(key)) ELSE Malformed

\* panics: the decoder of the proof value ends the process, instead of an answer.
VerifyCredential(text, key) ==
    LET doc == Parse(text)
        public == extractPublicKey(doc, key)
        signature == decodeMultibaseSignature(doc["proof.proofValue"])
        decodes == /\ DOMAIN doc \cap ProofPaths # {}
                   /\ Field(doc, "issuer.id") = IssuerDID
                   /\ public.ok
                   /\ "proof.proofValue" \in DOMAIN doc
    IN  [valid |-> /\ decodes
                   /\ signature.ok
                   /\ [key |-> public.bytes, message |-> canonicalize(doc), bytes |-> signature.bytes]
                         \in signatures,
         panics |-> decodes /\ signature.panics]

-------------------------------------------------------------------------------
\* A credential verifies with the key it was signed with, whichever way its
\* text has taken: straight from the answer, through the JSONB column, through
\* a tool that writes keys in another order, signed as it was before or reissued;
\* no such text ends the process of the verifier, with whatever key.
GenuineSurvivesTransport ==
    holder.row # 0 /\ ~holder.altered =>
        /\ VerifyCredential(holder.text, badges[holder.row].key).valid
        /\ \A key \in Keys : ~VerifyCredential(holder.text, key).panics

\* What verifies, with whatever key of the issuer, says what a credential that
\* was issued says, leaf for leaf, and carries its proof value, character for
\* character.  Of the proof nothing else is covered by the signature.
AlteredNeverVerifies ==
    \A key \in Keys : holder.row # 0 /\ VerifyCredential(holder.text, key).valid =>
        \E i \in DOMAIN badges :
            LET issued == Parse(badges[i].credentialJSON)
                held == Parse(holder.text)
                covered(doc) == DOMAIN doc \ (ProofPaths \ {"proof.proofValue"})
            IN  /\ covered(issued) = covered(held)
                /\ \A p \in covered(issued) : issued[p] = held[p]

\* A reissued badge says what the first one said but for its id, date, image
\* and proof, although it is built from columns and from a parsed text; the id
\* of the achievement survives only if it was a plain UUID.
ReissueKeepsContent ==
    Len(badges) = 2 =>
        LET first == Parse(badges[1].credentialJSON)
            second == Parse(badges[2].credentialJSON)
            replaced == {"id", "validFrom", "subject.achievement.image"} \cup ProofPaths
        IN  /\ DOMAIN first = DOMAIN second
            /\ \A p \in DOMAIN first \ replaced :
                 \/ first[p] = second[p]
                 \/ p = "subject.achievement.id" /\ badges[1].asked # "uuid"

\* What each prefix of a sequence of digits stands for.
Numbers(digits, base) ==
    LET number[i \in 0..Len(digits)] == IF i = 0 THEN 0 ELSE number[i - 1] * base + digits[i]
    IN  number

NumberOf(digits, base) == Numbers(digits, base)[Len(digits)]

\* The proof value is the base-58 notation of the signature's number, with as
\* many leading ones as the signature has zero bytes.  Checked where the number
\* fits into TLC's integers.
ProofValueIsPositional ==
    \A s \in signatures : Len(s.bytes) =< 3 =>
        LET text == Multibase(s.bytes).text
        IN  /\ NumberOf(text, 58) = NumberOf(s.bytes, 256)
            /\ LeadingZeros(text) = LeadingZeros(s.bytes)

\* "The JSON is sent byte-for-byte from the database to preserve the exact hash
\* used for signing and on-chain recording" (handler/credential.go:55-56).
DownloadMatchesAnchor ==
    holder.route = "download" /\ ~holder.altered =>
        holder.text = badges[holder.row].blockchainHash

===============================================================================
