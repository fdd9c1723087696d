------------------------------- MODULE Multibase ------------------------------
(***************************************************************************)
(* The base58 and multibase codecs of service/signer.go (encoding) and     *)
(* service/did_resolver.go and service/verifier.go (decoding), which share *)
(* no code.  A byte string is a sequence of 0..255; base58 text is the     *)
(* sequence of the positions of its characters in the alphabet, which both *)
(* files spell alike.  Of the other characters, the decoder's table of 256 *)
(* entries has no digit for those before U+0100, NoDigit, and no entry for *)
(* later ones, OffTable: looking one up panics, and the process ends.      *)
(***************************************************************************)
EXTENDS Integers, Sequences, SequencesExt

CONSTANT KeySize   \* bytes of a public key; 32 for Ed25519

ASSUME KeySizeAssumption == KeySize \in Nat \ {0}

NoDigit == 58
OffTable == 59
Foreign == {NoDigit, OffTable}

Zeros(n) == [i \in 1..n |-> 0]
LeadingZeros(s) == SelectInSeq(s \o <<1>>, LAMBDA d : d # 0) - 1

\* x.DivMod(x, 58, mod), on the big-endian bytes of x.
DivMod58(x) ==
    LET rem[i \in 0..Len(x)] == IF i = 0 THEN 0 ELSE (rem[i - 1] * 256 + x[i]) % 58
    IN  [quot |-> [i \in 1..Len(x) |-> (rem[i - 1] * 256 + x[i]) \div 58], mod |-> rem[Len(x)]]

\* Divide until nothing is left; two digits for each byte are more than enough.
\* As a faulty variant of base58Encode: leading zero bytes are lost.
EncodeNumber(input) ==
    LET after[i \in 0..(2 * Len(input))] ==
            IF i = 0 THEN [x |-> input, text |-> <<>>]
            ELSE LET acc == after[i - 1]
                     d == DivMod58(acc.x)
                 IN  IF LeadingZeros(acc.x) = Len(acc.x) THEN acc
                     ELSE [x |-> d.quot, text |-> <<d.mod>> \o acc.text]
    IN  after[2 * Len(input)].text

base58Encode(input) == Zeros(LeadingZeros(input)) \o EncodeNumber(input)

Malformed == [ok |-> FALSE, panics |-> FALSE, bytes |-> <<>>]
Panicked == [ok |-> FALSE, panics |-> TRUE, bytes |-> <<>>]
Decoded(bytes) == [ok |-> TRUE, panics |-> FALSE, bytes |-> bytes]

BufferSize(n) == (n * 733) \div 1000 + 1

\* buf := 58 * buf + c, from its last byte to its first.
Shift(buf, c) ==
    LET n == Len(buf)
        carry[i \in 0..n] == IF i = 0 THEN c ELSE (carry[i - 1] + 58 * buf[n + 1 - i]) \div 256
    IN  [carry |-> carry[n], buf |-> [k \in 1..n |-> (carry[n - k] + 58 * buf[k]) % 256]]

\* The loop ends at the first foreign character, or when the buffer is too short;
\* ok stays FALSE from then on, and what the buffer holds is of no account.
Number(input) ==
    LET after[i \in 0..Len(input)] ==
            IF i = 0 THEN [ok |-> TRUE, panics |-> FALSE, buf |-> Zeros(BufferSize(Len(input)))]
            ELSE LET acc == after[i - 1]
                     s == Shift(acc.buf, input[i])
                 IN  [ok |-> acc.ok /\ input[i] \notin Foreign /\ s.carry = 0,
                      panics |-> acc.panics \/ (acc.ok /\ input[i] = OffTable), buf |-> s.buf]
    IN  after[Len(input)]

Outcome(n, bytes) == IF n.panics THEN Panicked ELSE IF n.ok THEN Decoded(bytes) ELSE Malformed

Significant(buf) == SubSeq(buf, LeadingZeros(buf) + 1, Len(buf))

\* Faulty variant: the leading ones are taken for digits of the number only.
DecodeNumber(input) == LET n == Number(input) IN Outcome(n, Significant(n.buf))

base58Decode(input) ==
    LET n == Number(input)
    IN  Outcome(n, Zeros(LeadingZeros(input)) \o Significant(n.buf))

-------------------------------------------------------------------------------
\* "z" announces base58; any other prefix is refused, the empty text included.
Multibase(bytes) == [prefix |-> "z", text |-> base58Encode(bytes)]

decodeMultibaseSignature(m) ==
    IF m.prefix = "z" THEN base58Decode(m.text) ELSE Malformed

Ed25519Prefix == <<237, 1>>

PublicKeyMultibase(key) == Multibase(Ed25519Prefix \o key)

\* The prefix is stripped where it is found; a bare key is accepted as well.
DecodePublicKeyMultibase(m) ==
    LET d == decodeMultibaseSignature(m)
        key == IF Len(d.bytes) = KeySize + 2 /\ SubSeq(d.bytes, 1, 2) = Ed25519Prefix
               THEN SubSeq(d.bytes, 3, KeySize + 2) ELSE d.bytes
    IN  IF d.panics THEN Panicked
        ELSE IF d.ok /\ Len(key) = KeySize THEN Decoded(key) ELSE Malformed

===============================================================================
