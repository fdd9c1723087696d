# Verification of The Badge

TLA+ models of the Open Badges server in `src/app` (Go) and of its two contracts in
`src/contracts` (Solidity), checked with TLC, with safety theorems checked by TLAPS.

## The system

| component | state | operations | what makes it correct |
|---|---|---|---|
| Worker pool (`internal/worker/pool.go`), used by the issue and verify handlers, shut down by `main` | jobs channel, context, wait group, a result channel per job | `Submit`, worker loop, `Shutdown`, handler's wait with a 30 s timer | each accepted job is processed once and its channel gets one value, also when the handler has gone or the pool is shut down; nothing blocks for ever |
| BadgeRegistry contract | owner, issuance and revocation mappings, two enumerable lists | record, batch record, revoke, batch revoke, transfer, queries | a record is permanent; lists mirror mappings; batches are all or nothing |
| KeyRegistry contract | owner, append-only key history | rotate, revoke, add, transfer, `getActiveKey`, `getKeyAtTime` | one key per instant; the past never changes |
| Badge service (`cmd/server/main.go`, `handler/credential.go`, `pkg/blockchain`) | `badges` rows, sequence, fire-and-forget goroutines, the account's transactions | issue, reissue, revoke, `recordOnChain`, sending and waiting | database and chain agree in the end, or there is an error to blame |
| Verification (`service/verifier.go`, `service/did_resolver.go`) | this server's DID document, `verification_logs` | `VerifyCredential`, `ResolveWithFallback` | only what was signed and is not expired passes; nor what is revoked, for which it fails closed as long as the process has a chain client; it works without the domain |
| Issue and verify requests (`handler/issue.go`, `handler/verify.go`, the processors of `main.go`) | request bodies, jobs in line | parse, submit, wait, log | a verdict is about the body that was sent; a repeated request makes a second badge only after a 504 |
| Repository, listings, pagination (`repository`, `handler/history.go`, `model`) | PostgreSQL tables | writes; a count and a page in two statements | pages hold what their totals announce; a walk through the pages sees every row |
| Codecs (`service/signer.go`, base58, canonical JSON) | none | encode, decode, sign | round trips; signer and verifier agree on the bytes |
| Download and reissue (`handler/credential.go`) | stored credentials | send as stored, rebuild and sign again | the text still verifies and hashes as recorded; a reissue says what the first badge said |
| Verify page, DID document, middleware, router, responses, configuration | none | formatting and wiring | - |

How they interact. An HTTP handler submits a job and waits on its result channel. A worker
runs the issue processor (number, build, sign, save, start `recordOnChain`, answer) or the
verify processor (resolve the issuer's key, check the signature, ask the badge registry, log).
`ReissueBadge` and `RevokeBadge` work in the handler; revocation starts a goroutine for the
chain. All goroutines send from one account through one client. Verifiers read the key registry
only when the issuer's `did.json` cannot be had, and the badge registry for every credential whose
signature holds. `main` makes the chain client once, at start: a process that does not reach the node then
has none until it ends (`main.go:247`), and skips the recording, the revocation on the chain, the
fallback and the revocation check.

What is hard: handlers, workers and shutdown interleave over Go channels; goroutines outlive the
requests and the process does not wait for them; some calls have no deadline and may hold a worker or a
goroutine for ever; nonces are read and used in two steps; a transaction may be mined after its sender
has given up, or never, since another took its nonce; the database is written before the chain
and nothing retries; keys change on the chain and in the server one by one; remote calls fail; request
bodies live in buffers that are handed to the next request; a listing is two statements; a credential
is marshalled, stored, downloaded and parsed by code that must agree on its bytes.
`PROJECT.json` lists each such hazard at its line, with the properties about it.

## Modules

| module | models | abstracts |
|---|---|---|
| `JobService` | what the pool promises: one line of jobs, each settled once | |
| `WorkerPool` | `pool.go`, `handler/issue.go`, `handler/verify.go`, the shutdown goroutine of `main.go` | payloads; the result is data or an error |
| `BadgeLedger` | what the badge registry promises: absent, recorded, revoked | |
| `BadgeRegistry` | `BadgeRegistry.sol`, one action per function | events, issuer DID |
| `KeyTimeline` | what the key registry promises: a key per instant, the past fixed | |
| `KeyRegistry` | `KeyRegistry.sol`, one action per function | events, DID, reason of a revocation |
| `BadgeService` | issue, reissue, revoke, the client, node and contract they reach | contents of a credential; a number stands for id and hash |
| `Verification` | `VerifyCredential` and the resolver in a changing world | cryptography is ideal; ids by the text after the last slash |
| `Repository` | the tables `badges` and `verification_logs`, a page of them at the width of `int` | columns but status and time |
| `History` | the listings and clients that walk them | the filter on the recipient |
| `Requests` | issue and verify handlers and processors with their payloads and buffers | what a credential says; the pool is its abstract `JobService` |
| `Api` | `History` and `Requests` on one database, with revocations and single reads | |
| `Multibase` | base58 and multibase, both directions | the alphabet: a character is its position, other characters are those the decoder's table has no digit for and those it has no entry for |
| `Documents` | building, storing, reissuing, downloading and verifying a credential as a text | leaves that never vary; SHA-256 and Ed25519 are ideal |
| `WorkerPoolProofs`, `BadgeRegistryProofs`, `KeyRegistryProofs`, `BadgeServiceProofs`, `VerificationProofs`, `ApiProofs`, `DocumentsProofs` | theorems and their lemmas | |
| `SequenceFacts` | lemmas on ranges, distinct elements, induction and recursive functions | |
| `MC...` | symmetry sets for TLC | |

Composition: `Verification` instantiates `KeyTimeline` for the key registry, and `KeyRegistry` is
shown to implement that. `BadgeRegistry` implements `BadgeLedger`; `BadgeService` contains of it what a single
badge meets (`Accepts`, `Execute`), for its subject is what the Go code makes of the answers. `WorkerPool`
implements `JobService`, and `Requests` is built on that: a job is handed in, served and answered by
`JobService`'s own actions, joined with what its processor does to the tables. `Api` adds `History`
on the same tables. `Documents` extends `Multibase`.

Correspondence. *WorkerPool*: `queue`, `parked`, `closed` are the buffer of `p.jobs`, the sends
parked on it and whether it is closed; `cancelled` is `p.ctx`; `rc` the result channels. A
receive and the refill of the buffer from the first parked send are one action, as in Go's
runtime; so are `p.cancel()` and the waking of the parked selects. A select with two ready cases
is a choice: `SubmitRefuse` or `SubmitEnqueue` on a cancelled pool, `SubmitRefuse` or
`SubmitOnClosed` on a closed one. `Hang` is a call of a processor that never returns, `ProcessorPanics` the
panic of the verify processor below. *Contracts*: a transaction is atomic; a revert is no step;
`NextBlock` alone moves time, so transactions may share a timestamp. *BadgeService*: each database
statement and each call to the node is one action; `sender[s]` is the goroutine of badge or
request `s`; `ctx[q]` the fiber `Ctx` that the goroutine of `RevokeBadge` captured;
`tx[s]` is the transaction it sent, which alone its `waitForReceipt` asks for: two transactions may bear one
nonce, and when one is mined the other is `gone`. `client` says whether the process has a chain client;
`offline` remembers what was handled without one. A failing database write may or may not have been done.
*Verification*: `CheckSignature` is steps 1 to 8 of `VerifyCredential`, `CheckStatus` 9 to 11 and
`SaveLog` the log and the answer; the world may change between them. `client` is as in BadgeService, and
`call[v].chain` whether the process that runs `v` has one: `keyReader` and `revChecker` of `main` are nil
together. A credential that is not `named` has no id to ask the registry for (`verifier.go:171`). `Resolve`
reads the local document first, as the code does. *Repository*: a table is the sequence of its rows in the order of
commit; `at` is `now()` of a row's transaction, so it may tie with, or be just before, that of the row
committed before. *Requests*: `request[q].buffer` is the body buffer that request `q` holds,
and goes on holding as a payload if the credential is bare JSON (`return body` in
`extractFromJSONBody`); `job[q].says` is what the payload says now, `job[q].read` what the processor
read. A job whose place in line is beyond the buffer of the channel is a `Submit` that has not
returned, so its timer has not started. *Api*: `GetMissingBadge` is the nil pointer of
`BadgeResponseFromBadge` (`history.go:66`), which ends the process. *Documents*: a JSON text is
the sequence of its leaves in the order of their keys; `Render(doc, SortedOrder)` is
`json.Marshal` of a map and `marshalSorted`, `Render(doc, StoredOrder)` what comes back from JSONB.

Definitions marked "Faulty variant" are used by no specification: each is what a plausible
mistake would have made of the definition after it, and makes one property fail.

## Runs

| run | module, cfg | bounds | shows |
|---|---|---|---|
| `pool` | `MCWorkerPool` | 3 jobs, 2 workers, queue of 1, fairness | typing, one value per channel, every job in one place, parking only on a full queue, drained after shutdown; `Submit` returns, accepted jobs are answered, shutdown ends, unless workers hang; implements `JobService` |
| `pool_shutdown` | `MCWorkerPoolShutdown` | 2 jobs | **violated**: `Submit` can panic |
| `badge_registry` | `MCBadgeRegistry` | 3 ids, 2 hashes and zero, 2 accounts, batches of 2, 2 timestamps | lists, order, status, batches, permanence, implements `BadgeLedger` |
| `key_registry` | `MCKeyRegistry` | 2 keys, 2 accounts, 4 timestamps, 5 entries | order, one key per instant, agreement of queries, fixed past, implements `KeyTimeline` |
| `service` | `MCBadgeService` | 2 badges, 1 revocation, all faults, fairness | no false success; every divergence of database and chain has a cause, and the chain revokes nothing the database does not; rows only advance; every `recordOnChain` ends |
| `revoked_twice` | `MCServiceRevokeTwice` | 1 badge, 2 revocations | **violated**: a second revocation goes through |
| `wrong_badge` | `MCServiceWrongBadge` | 2 badges, 1 revocation | **violated**: another badge is revoked on the chain |
| `verification` | `MCVerification` | 1 credential, 2 keys and a foreign one, 2 verifications (one remote), 3 timestamps after 0 | genuine, and not revoked where there is a chain client; final verdicts; survives without the domain |
| `key_rotation` | `MCVerificationRotation` | as above | **violated**: a regular rotation breaks older badges here |
| `api` | `MCApi` | two of 2 requests and a reader, 2 buffers, 2 texts, 0 or 3 rows before, pages of 1, 2 (default) or 3 (largest), largest `int` 15 | a verdict is about its own body; duplicates have a 504 to blame; a page holds what its total announces; a walk misses rows only for two reasons |
| `documents` | `MCDocuments` | 1 key of 4 bytes, 3 signatures of 3 and 12 bytes, every optional member present or not | genuine texts verify, altered ones do not; a reissue keeps the content; base58 is positional; genuine texts never panic a decoder |
| `download_hash` | `MCDocumentsDownload` | as above | **violated**: the downloaded text is not the hashed one |

Why the bounds suffice. Pool: with a queue of one, one job held by each worker, one buffered and
one parked all occur; three jobs keep both workers busy with one more in line. Registry: two entries
are the least batch with a repeated id, and a third badge is left over. Keys: five entries in four
timestamps force two rotations into one block, also after a revocation. Service: the goroutines of two badges, or of a
badge and a revocation, are the least that share or replace a nonce, and starts with and without a chain client alternate; badge 2 is the stranger whose id a reused buffer holds. The theorems hold for any number of badges and requests.
Verification: two calls are the least where one begins after the other has logged, in the same process or in one that was started without a chain client; three
timestamps separate issue, rotation and verification. Api: two requests are the least where one's buffer
goes to the other, or where one repeats the other; a request and a reader the least where a row comes
between the count and the page; `Together` bounds them to two at a time, since what two requests do to
each other no reader sees and a reader meets requests only in the tables. Three earlier rows make
three pages of one, two of two and one of three; page 12 overflows
an `int` that ends at 15 as page 2^62 or so does one that ends at 2^63 - 1, to a negative offset with pages of two and to a
small positive one with pages of three. Documents: a key of four
bytes and signatures of three and twelve stand for 32 and 64, since TLC evaluates the recursive
functions step by step; with them base58 meets leading zeros, a number below 58, carries through the whole
buffer and text longer than its bytes. The second badge is the reissue.

Deadlock is not an error in any run: a server that gets no more requests, has shut down or has
reached a bound stops. That nothing stops too early is what the liveness properties say.

Fairness. *Pool*: workers, handlers' waits and the code of `Shutdown` are weakly fair (goroutines are
scheduled, a timer fires); requests and the signal are not. A worker may hang in a call, at any moment and
for ever, since `main.go:323` and `:355` call node and database with `context.Background()`; after `Hang` no
fairness moves it, and each liveness property names the hung workers that would excuse it. *Service*: only
`recordOnChain` is fair, since its 60 s for the chain and 5 s for the database end every wait; the
goroutine of `RevokeBadge` has no deadline, and neither jobs, handlers, mining, requests nor faults are assumed
to happen. Where processes end in an error, the property says so instead of assuming it away.

## What the checks found

1. `Submit` after `Shutdown` may panic: the closed channel's send case is ready too
   (`pool.go:114`, against `pool.go:100-101` and `:128`). `main` shuts the HTTP server down last,
   so this happens on a normal stop.
2. Concurrent revocations both succeed (`credential.go:303`, against `credential.go:258`).
3. The goroutine of `RevokeBadge` uses `c` and a string of `c.Params` after the handler has
   returned; it can revoke another badge or panic (`credential.go:311`, against `:260`).
4. After a regular change of key the server rejects its older badges (`did_resolver.go:97`, against
   `docs/did-design.md:52`). In the trace k1 is registered, a badge is issued with it, k2 is registered
   and the server is restarted with k2: the local document, which has k2 only, always resolves, so the
   registry, which still names k1 for the time of issue, is not asked.
5. `DownloadBadge` does not send the bytes whose hash is on the chain (`credential.go:83`, against
   `:55-56`): the column is JSONB, which reorders keys. Whoever hashes the file, as
   `contracts/README.md` tells verifiers to, gets another hash. The signature survives, since the
   verifier canonicalizes: that is `GenuineSurvivesTransport`.

Behaviour the models contain and no run is spent on:

- `ReissueBadge` never records the hash of the new badge (`credential.go:239`, though `:93` says
  it does). `UnrecordedHasCause` and `IssuedIsRecordedOrReported` therefore except reissued badges.
- A server that was started while the node was down (`main.go:247-250`) delivers badges that nobody records
  (`main.go:416`), revokes rows and not the chain (`credential.go:309`), and finds revoked badges valid
  (`verifier.go:165`; skipping the check is what `:42` announces for a nil checker, though
  `docs/mvp-scenario.md:240-242` has later verifications return "revoked"). This lasts until the next start, and what was
  skipped is never made up for. `UnrecordedHasCause`, `DivergenceHasCause`, `IssuedIsRecordedOrReported`,
  `ValidIsGenuine` and `VerdictsAreFinal` each name this case and exclude every other.
- A proof value with a character from U+0100 on ends the process: `base58Decode` indexes a table of 256
  entries with a rune (`did_resolver.go:320`), in a worker that recovers nothing. `AlteredNeverVerifies` says that
  such a text does not verify, `GenuineSurvivesTransport` that no text the server made comes to that.
- A call to the node or the database that does not return holds a worker for ever (`main.go:323`, `:355`);
  when all are held, `Submit` blocks and so does `Shutdown`.
- The goroutine of `RevokeBadge` has no deadline (`credential.go:311`): if another transaction is mined with its
  nonce it waits for ever, the badge is revoked in the database only, and no error is logged.
- `GetBadge` of an id that is not in the table ends the process (`history.go:66`; no middleware
  recovers).
- A bare credential posted to `/badges/verify` that times out in line may be judged, and logged,
  with the bytes of another request. `VerdictIsOfOwnBody` says exactly when.
- An issue request answered 504 is done all the same; a client that repeats it gets two badges.
- Two rows of one instant may be listed twice or not at all by a client that walks the pages.

## Proofs

All theorems are for every value of the constants, under the named assumptions of the modules:
`PoolAssumption` (some worker, positive queue size; the defaults of `NewPool`),
`RegistryAssumption` and `KeyRegistryAssumption` (zero hash, no reason and no key are distinct from
real ones, and no account is the zero address), `ServiceAssumption` (badges are numbers, requests are not, "no row" is neither),
`VerificationAssumption` (the foreign key is not one of the issuer's), `RequestsAssumption` and
`ApiAssumption` ("nothing yet" is no body, kind or code; tables have lengths), `RepositoryAssumption`
(page sizes are positive, the default is not above the largest, and that is an `int`),
`HistoryAssumption` (what is asked for are integers), `KeySizeAssumption` and `DocumentsAssumption`
(a key has `KeySize` > 0 bytes, a signature is a byte string, "no UUID" is not an id). TLC evaluates each of
them in the run of its module. None of the invariants below is inductive alone; each module of proofs
joins them with what they need in an `IInv` (`ListInv` and `DocInv` for listings and documents), has a
lemma per action, and derives the theorems. TLC cannot evaluate `DocInv`, which quantifies over all
parameters a credential may be built from; the others it can.

`SequenceFacts` holds what `Append`, `Tail` and `Head` do to ranges and to sequences without
repetition, and two facts on which everything about data of any length rests. *Induction* is stated
for the set of numbers that have the property, not for an operator. *Recursion* says that the
function that a step and a first value determine exists, so that a recursive function is known by
its value at zero and by its step (`Iterates`).

- **Pool** (`WorkerPoolProofs`). That a parked job has an empty channel needs that no job is in two
  places; that a drained pool is empty needs that a closed pool has no parked send and a stopped worker
  no job. `IInv` adds the relation of each worker's state to what it holds, hung and panicked workers
  included. Proved:
  typing, exactly one value, every job in one place, parking only on a full queue, drained after shutdown.
- **Pool as a service** (`WorkerPoolProofs`). `PoolImplementsJobService`: the line is the buffer, then the
  parked sends; receiving and refilling is `Serve`, `Cancel` is `CutOff`. One more invariant, that
  a channel's value is the answer of the worker that sent it, settles which of answered and refused a job
  is. This is what allows `Requests` to use `JobService` in the pool's place.
- **Badge registry** (`BadgeRegistryProofs`). The invariant adds that a revoked badge is issued and that
  entries carry past, positive times and no zero hash. Proved: typing, lists, order of revocation,
  unambiguous status, permanence, and that the contract implements `BadgeLedger`, for batches of any
  length. `RegistryBatches` is by induction along the loop: after `i` entries it has either met one that
  is not recordable, or it has flagged exactly the first `i` (`Flagged`), among which none is repeated.
- **Key registry** (`KeyRegistryProofs`). The invariant is that the history is in the order of time. From it
  follow uniqueness, the agreement of the queries, and that a transaction at `now` leaves every
  earlier instant's matching entry alone. Proved: typing, order, one key per instant, agreement, fixed
  past, and that the contract implements `KeyTimeline`.
- **Badge service** (`BadgeServiceProofs`). At the centre: a transaction that succeeded has left its
  effect on the ledger, which never takes it back (`MinedIsOnChain`), whatever replaced or overtook it; since
  a goroutine asks for the receipt of its own transaction and looks at its status, what it stores is borne
  out (`StoredIsOnChain`). A goroutine exists only once its job or its row is written, and where none exists
  the process had no client (`RowsFollowJobs`, `SendersFollowJobs`, `RequestsHaveRows`); a revoked row has a
  request behind it and a revoked badge on the chain a goroutine (`RevokedByRequest`, `RevokedBySender`).
  Proved, for any number of badges and requests and any set of faults: all safety properties of the run
  `service`.
- **Verification** (`VerificationProofs`). A call that has checked a signature goes on with the
  credential that it read, and the world only makes credentials older or revoked; so a verdict
  of revoked or expired, once in the log, stays true (`LogIsTrue`), and a call that begins later, with a
  chain client if the verdict was revoked, finds it true too or fails. That it has something to ask for is
  `RevokedAreNamed`: what is revoked has an id. `SurvivesWithoutDomain` needs no more than that the key timeline's past is
  fixed, which `KeyRegistryProofs` proves of the contract. Proved: every property of the run
  `verification`.
- **Requests** (`ApiProofs`). A job that is not yet settled belongs to a handler that waits or has answered 504;
  only a bare credential shares its buffer with a later request (`PayloadsAreOwn`); hence what a job reads
  is its own body unless it is late (`ReadsAreOwn`), and a late job's verdict reaches the log but not the
  client. A request has one badge at most, which is a success, and of two requests for one badge
  one had been told that it failed (`AskedAgain`); since a 500 is about a job that saved nothing, the
  other answer, 504, is to blame. Proved: `VerdictIsOfOwnBody`, `DuplicatesHaveCause`.
- **Listings** (`ApiProofs`). Tables only grow, so a total that was counted is never more than there is to
  read. A product that exceeds `MaxInt` is named in the invariant and not computed. For a walk: each row that
  is owed and has not been seen has at least as many rows above it as the walk has read (`OwedIsBelow`); rows
  that come on top raise that number, and a page takes the rows that have fewer above them than its end. So an
  empty page leaves nothing owed. Ties and revocations break the counting, and nothing else does
  (`Walks`). Proved: `PageKeepsPromise`, `WalkSkipsHaveCause`, for any largest `int`, page sizes, pages and readers.
- **Codecs** (`DocumentsProofs`). A text of digits stands for a number and for how many zeros it begins
  with, and no two texts agree in both (`SameNumber`). The encoder's long division and the decoder's
  multiplication with carry keep the number, and each treats the leading zeros apart. The decoder's buffer
  of 733 bytes per thousand characters never runs over, since 58^1000 =< 256^733. Proved, for texts of
  any length: `NumberRead` (a text is refused, or panics, for a foreign character alone, and the first one decides which), `RoundTrip`, `DecodesOnce`,
  `KeyRoundTrip`.
- **Documents** (`DocumentsProofs`). `DocInv`: every row is a credential built from some parameters
  and signed, every signature is the one of a row, and what the holder has can be read. A text spells
  its members whatever their order, so parsing the stored text and rendering it in the canonical order
  gives the bytes that were signed; what verifies has them, too, and a proof value that decodes to
  the signature, which `DecodesOnce` makes the same proof value; and what the server made holds digits only,
  so no decoder panics on it. Proved: every property of the run
  `documents`, for keys of any size and any signatures; `DocumentsAnyProofValue` says of
  signatures of any length what `ProofValueIsPositional` says of short ones.

Only model-checked: liveness (out of reach of the prover). Every other property of a passing run is a theorem.

## Not modelled

The verify page and the DID document handler, middleware, router, responses and configuration keep no
state and only format or wire. `IssueBadgeSync` is not routed. `scripts/multibase_codec.py` is a
tool for operators. Queries no handler calls (achievements, key tables, `GetBadgeStatus`,
`VerifyHash`) are left out, and so is the recipient filter of listings, which picks the same rows
whenever it is asked. Ed25519, SHA-256, PostgreSQL, Ethereum and fasthttp are taken to do what they
promise. The events of the contracts are read by nobody in the repository. `Verification` names a
credential by the text after the last slash of its id, as the revocation check does; ids of other
issuers that end in the same text (`verifier.go:168`) are not distinguished.

## Plan

Done in this order: `JobService`, `WorkerPool` and its proofs; the contracts with their abstract
specifications and proofs; `BadgeService`; `Verification`; `Repository`, `History`, `Requests` and `Api`;
`Multibase` and `Documents`; the theorems about `BadgeService`, `Verification` and `Api`, and the two
refinements `PoolImplementsJobService` and `KeysImplementTimeline`; induction and recursion in
`SequenceFacts`, and with them the theorems about batches, listings, codecs and documents.

Left:

1. Several issuers whose ids share their last segment, in `Verification` (`verifier.go:168`): the
   revocation of one would strike the other.
2. Several pages and filters by recipient, should a handler begin to combine them.
