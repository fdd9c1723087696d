--------------------------- MODULE KeyRegistryProofs ---------------------------
(***************************************************************************)
(* The key registry's invariants, the fixity of past keys and the          *)
(* implementation of the timeline, for any keys, accounts and bounds.      *)
(* The lemmas are about a history h at time n, so that they serve both the *)
(* state before a transaction and the one after it.                        *)
(***************************************************************************)
EXTENDS KeyRegistry, TLAPS

\* h with its last entry revoked at n; h with a new last entry activated at n.
Retire(h, n) == [h EXCEPT ![Len(h)].revokedAt = n]
AddEntry(h, k, n) == Append(h, [publicKey |-> k, activatedAt |-> n, revokedAt |-> 0])

\* Every entry of h is revoked.
AllRetired(h) == \A i \in 1..Len(h) : h[i].revokedAt # 0

IInv == TypeOK /\ HistoryOrdered

-------------------------------------------------------------------------------
\* What retiring the last entry changes.
LEMMA RetireEntry ==
  ASSUME NEW h \in Seq(Entries), Len(h) > 0, NEW n \in Nat
  PROVE  LET r == Retire(h, n) IN
         /\ r \in Seq(Entries) /\ Len(r) = Len(h)
         /\ \A i \in 1..Len(h) :
               /\ r[i].publicKey = h[i].publicKey
               /\ r[i].activatedAt = h[i].activatedAt
               /\ r[i].revokedAt = IF i = Len(h) THEN n ELSE h[i].revokedAt
<1> DEFINE r == Retire(h, n)
<1>1. Len(h) \in Nat /\ Len(h) \in 1..Len(h) /\ \A i \in 1..Len(h) : h[i] \in Entries
  OBVIOUS
<1>2. [h[Len(h)] EXCEPT !.revokedAt = n] \in Entries
  BY <1>1 DEF Entries
<1>3. r = [h EXCEPT ![Len(h)] = [h[Len(h)] EXCEPT !.revokedAt = n]]
  BY DEF Retire
<1>4. r \in Seq(Entries) /\ Len(r) = Len(h)
  BY <1>1, <1>2, <1>3
<1>5. \A i \in 1..Len(h) : r[i] = IF i = Len(h) THEN [h[i] EXCEPT !.revokedAt = n] ELSE h[i]
  BY <1>1, <1>3
<1>6. ASSUME NEW i \in 1..Len(h)
      PROVE  /\ r[i].publicKey = h[i].publicKey
             /\ r[i].activatedAt = h[i].activatedAt
             /\ r[i].revokedAt = IF i = Len(h) THEN n ELSE h[i].revokedAt
  <2>1. CASE i = Len(h)
    BY <1>1, <1>5, <2>1 DEF Entries
  <2>2. CASE i # Len(h)
    BY <1>5, <2>2
  <2> QED BY <2>1, <2>2
<1> QED BY <1>4, <1>6

\* What adding an entry changes.
LEMMA AddedEntry ==
  ASSUME NEW h \in Seq(Entries), NEW k \in Keys, NEW n \in Nat
  PROVE  /\ AddEntry(h, k, n) \in Seq(Entries)
         /\ Len(AddEntry(h, k, n)) = Len(h) + 1 /\ Len(h) \in Nat
         /\ \A i \in 1..Len(h) : AddEntry(h, k, n)[i] = h[i]
         /\ AddEntry(h, k, n)[Len(h) + 1] = [publicKey |-> k, activatedAt |-> n, revokedAt |-> 0]
<1> DEFINE e == [publicKey |-> k, activatedAt |-> n, revokedAt |-> 0]
<1>1. e \in Entries
  BY DEF Entries
<1>2. AddEntry(h, k, n) = Append(h, e)
  BY DEF AddEntry
<1> HIDE DEF e
<1>3. AddEntry(h, k, n)[Len(h) + 1] = e
  BY <1>1, <1>2
<1>4. AddEntry(h, k, n) \in Seq(Entries) /\ Len(AddEntry(h, k, n)) = Len(h) + 1 /\ Len(h) \in Nat
  BY <1>1, <1>2
<1>5. \A i \in 1..Len(h) : AddEntry(h, k, n)[i] = h[i]
  BY <1>1, <1>2
<1> QED BY <1>3, <1>4, <1>5 DEF e

\* Retiring an active last entry keeps the order and leaves no active entry.
LEMMA RetireOrdered ==
  ASSUME NEW h \in Seq(Entries), Len(h) > 0, NEW n \in Nat \ {0}, Ordered(h, n)
  PROVE  Ordered(Retire(h, n), n) /\ AllRetired(Retire(h, n))
<1> DEFINE r == Retire(h, n)
<1>1. /\ r \in Seq(Entries) /\ Len(r) = Len(h) /\ Len(h) \in Nat
      /\ \A i \in 1..Len(h) :
            /\ r[i].activatedAt = h[i].activatedAt
            /\ r[i].revokedAt = IF i = Len(h) THEN n ELSE h[i].revokedAt
  BY RetireEntry
<1> HIDE DEF r
<1>2. \A i \in 1..Len(h) : /\ h[i].activatedAt \in 1..n
                           /\ h[i].revokedAt = 0 \/ h[i].revokedAt \in h[i].activatedAt..n
  BY DEF Ordered
<1>3. \A i, k \in 1..Len(h) : i < k => h[i].revokedAt # 0 /\ h[i].revokedAt =< h[k].activatedAt
  BY DEF Ordered
<1>4. \A i \in 1..Len(h) : i < Len(h) => h[i].revokedAt # 0
  BY <1>1, <1>3
<1>5. AllRetired(r)
  BY <1>1, <1>4 DEF AllRetired
<1>6. \A i \in 1..Len(r) : /\ r[i].activatedAt \in 1..n
                           /\ r[i].revokedAt = 0 \/ r[i].revokedAt \in r[i].activatedAt..n
  BY <1>1, <1>2
<1>7. \A i, k \in 1..Len(r) : i < k => r[i].revokedAt # 0 /\ r[i].revokedAt =< r[k].activatedAt
  BY <1>1, <1>3
<1>8. Ordered(r, n)
  BY <1>6, <1>7 DEF Ordered
<1> QED BY <1>5, <1>8 DEF r

\* A new entry after retired ones keeps the order.
LEMMA AddOrdered ==
  ASSUME NEW h \in Seq(Entries), NEW k \in Keys, NEW n \in Nat \ {0},
         Ordered(h, n), AllRetired(h)
  PROVE  Ordered(AddEntry(h, k, n), n)
<1> DEFINE a == AddEntry(h, k, n)
<1>1. /\ Len(a) = Len(h) + 1 /\ Len(h) \in Nat
      /\ \A i \in 1..Len(h) : a[i] = h[i]
      /\ a[Len(h) + 1].activatedAt = n /\ a[Len(h) + 1].revokedAt = 0
  <2>1. Len(a) = Len(h) + 1 /\ Len(h) \in Nat
    BY AddedEntry
  <2>2. \A i \in 1..Len(h) : a[i] = h[i]
    BY AddedEntry
  <2>3. a[Len(h) + 1] = [publicKey |-> k, activatedAt |-> n, revokedAt |-> 0]
    BY AddedEntry
  <2>4. a[Len(h) + 1].activatedAt = n /\ a[Len(h) + 1].revokedAt = 0
    BY <2>3
  <2> QED BY <2>1, <2>2, <2>4
<1> HIDE DEF a
<1>2. \A i \in 1..Len(h) : /\ h[i].activatedAt \in 1..n
                           /\ h[i].revokedAt \in h[i].activatedAt..n
                           /\ h[i].revokedAt # 0
  BY DEF Ordered, AllRetired
<1>3. \A i \in 1..Len(a) : /\ a[i].activatedAt \in 1..n
                           /\ a[i].revokedAt = 0 \/ a[i].revokedAt \in a[i].activatedAt..n
  <2> SUFFICES ASSUME NEW i \in 1..Len(a)
               PROVE  /\ a[i].activatedAt \in 1..n
                      /\ a[i].revokedAt = 0 \/ a[i].revokedAt \in a[i].activatedAt..n
    OBVIOUS
  <2>1. CASE i = Len(h) + 1
    BY <2>1, <1>1
  <2>2. CASE i # Len(h) + 1
    BY <2>2, <1>1, <1>2
  <2> QED BY <2>1, <2>2
<1>4. \A i, j \in 1..Len(a) : i < j => a[i].revokedAt # 0 /\ a[i].revokedAt =< a[j].activatedAt
  <2> SUFFICES ASSUME NEW i \in 1..Len(a), NEW j \in 1..Len(a), i < j
               PROVE  a[i].revokedAt # 0 /\ a[i].revokedAt =< a[j].activatedAt
    OBVIOUS
  <2>1. i \in 1..Len(h) /\ a[i] = h[i]
    BY <1>1
  <2>2. CASE j = Len(h) + 1
    BY <2>1, <2>2, <1>1, <1>2
  <2>3. CASE j # Len(h) + 1
    <3>1. j \in 1..Len(h) /\ a[j] = h[j]
      BY <2>3, <1>1
    <3> QED BY <2>1, <3>1 DEF Ordered
  <2> QED BY <2>2, <2>3
<1>5. Ordered(a, n)
  BY <1>3, <1>4 DEF Ordered
<1> QED BY <1>5 DEF a

-------------------------------------------------------------------------------
\* In an ordered history at most one entry matches an instant, and it is the answer.
LEMMA OneMatch ==
  ASSUME NEW h \in Seq(Entries), NEW n \in Nat, Ordered(h, n), NEW t \in Nat,
         NEW i \in Matching(h, t)
  PROVE  Matching(h, t) = {i} /\ KeyAt(h, t) = h[i].publicKey
<1>1. ASSUME NEW k \in Matching(h, t) PROVE k = i
  <2>1. /\ i \in 1..Len(h) /\ k \in 1..Len(h) /\ Len(h) \in Nat
        /\ h[i] \in Entries /\ h[k] \in Entries
        /\ h[i].activatedAt =< t /\ (h[i].revokedAt = 0 \/ h[i].revokedAt > t)
        /\ h[k].activatedAt =< t /\ (h[k].revokedAt = 0 \/ h[k].revokedAt > t)
    BY DEF Matching, ActiveAt
  <2>2. /\ h[i].activatedAt \in Nat /\ h[i].revokedAt \in Nat
        /\ h[k].activatedAt \in Nat /\ h[k].revokedAt \in Nat
    BY <2>1 DEF Entries
  <2>3. ~(i < k)
    BY <2>1, <2>2 DEF Ordered
  <2>4. ~(k < i)
    BY <2>1, <2>2 DEF Ordered
  <2> QED BY <2>1, <2>3, <2>4
<1>2. Matching(h, t) = {i} /\ i \in Nat
  BY <1>1 DEF Matching
<1>3. (CHOOSE j \in {i} : \A k \in {i} : k =< j) = i
  BY <1>2
<1>4. KeyAt(h, t) = h[CHOOSE j \in {i} : \A k \in {i} : k =< j].publicKey
  BY <1>2 DEF KeyAt
<1> QED BY <1>2, <1>3, <1>4

\* Ordered histories with the same matching entries, which carry the same keys,
\* give the same answer.
LEMMA SameMatching ==
  ASSUME NEW g \in Seq(Entries), NEW h \in Seq(Entries), NEW n \in Nat, NEW t \in Nat,
         Ordered(g, n), Ordered(h, n),
         Matching(g, t) = Matching(h, t),
         \A i \in Matching(h, t) : g[i].publicKey = h[i].publicKey
  PROVE  KeyAt(g, t) = KeyAt(h, t)
<1>1. CASE Matching(h, t) = {}
  BY <1>1 DEF KeyAt
<1>2. CASE Matching(h, t) # {}
  <2>1. PICK i : i \in Matching(h, t)
    BY <1>2
  <2> QED BY <2>1, OneMatch
<1> QED BY <1>1, <1>2

\* Retiring the last entry at n leaves the instants before n alone ...
LEMMA RetireKeepsPast ==
  ASSUME NEW h \in Seq(Entries), Len(h) > 0, NEW n \in Nat \ {0}, Ordered(h, n),
         h[Len(h)].revokedAt = 0, NEW t \in Nat, t < n
  PROVE  KeyAt(Retire(h, n), t) = KeyAt(h, t)
<1> DEFINE r == Retire(h, n)
<1>1. /\ r \in Seq(Entries) /\ Len(r) = Len(h) /\ Len(h) \in Nat
      /\ \A i \in 1..Len(h) :
            /\ r[i].publicKey = h[i].publicKey
            /\ r[i].activatedAt = h[i].activatedAt
            /\ r[i].revokedAt = IF i = Len(h) THEN n ELSE h[i].revokedAt
  BY RetireEntry
<1>2. Ordered(r, n)
  BY RetireOrdered
<1> HIDE DEF r
<1>3. \A i \in 1..Len(h) : ActiveAt(r[i], t) <=> ActiveAt(h[i], t)
  BY <1>1 DEF ActiveAt
<1>4. Matching(r, t) = Matching(h, t)
  BY <1>1, <1>3 DEF Matching
<1>5. \A i \in Matching(h, t) : r[i].publicKey = h[i].publicKey
  BY <1>1 DEF Matching
<1>6. KeyAt(r, t) = KeyAt(h, t)
  BY <1>1, <1>2, <1>4, <1>5, SameMatching
<1> QED BY <1>6 DEF r

\* ... and so does a new entry activated at n.
LEMMA AddKeepsPast ==
  ASSUME NEW h \in Seq(Entries), NEW k \in Keys, NEW n \in Nat \ {0}, Ordered(h, n),
         AllRetired(h), NEW t \in Nat, t < n
  PROVE  KeyAt(AddEntry(h, k, n), t) = KeyAt(h, t)
<1> DEFINE a == AddEntry(h, k, n)
<1>1. /\ a \in Seq(Entries) /\ Len(a) = Len(h) + 1 /\ Len(h) \in Nat
      /\ \A i \in 1..Len(h) : a[i] = h[i]
      /\ a[Len(h) + 1].activatedAt = n
  <2>1. a \in Seq(Entries) /\ Len(a) = Len(h) + 1 /\ Len(h) \in Nat
    BY AddedEntry
  <2>2. \A i \in 1..Len(h) : a[i] = h[i]
    BY AddedEntry
  <2>3. a[Len(h) + 1] = [publicKey |-> k, activatedAt |-> n, revokedAt |-> 0]
    BY AddedEntry
  <2>4. a[Len(h) + 1].activatedAt = n
    BY <2>3
  <2> QED BY <2>1, <2>2, <2>4
<1>2. Ordered(a, n)
  BY AddOrdered
<1> HIDE DEF a
<1>3. ~ActiveAt(a[Len(h) + 1], t)
  BY <1>1 DEF ActiveAt
<1>4. Matching(a, t) = Matching(h, t)
  <2>1. \A i \in 1..Len(a) : i \in 1..Len(h) \/ i = Len(h) + 1
    BY <1>1
  <2>2. \A i \in 1..Len(h) : i \in 1..Len(a)
    BY <1>1
  <2> QED BY <2>1, <2>2, <1>1, <1>3 DEF Matching
<1>5. \A i \in Matching(h, t) : a[i].publicKey = h[i].publicKey
  BY <1>1 DEF Matching
<1>6. KeyAt(a, t) = KeyAt(h, t)
  BY <1>1, <1>2, <1>4, <1>5, SameMatching
<1> QED BY <1>6 DEF a

\* From n on, a history whose entries are all retired has no key ...
LEMMA RetiredHasNoKey ==
  ASSUME NEW h \in Seq(Entries), NEW n \in Nat \ {0}, Ordered(h, n), AllRetired(h),
         NEW t \in Nat, t >= n
  PROVE  KeyAt(h, t) = NoKey
<1>1. ASSUME NEW i \in 1..Len(h) PROVE ~ActiveAt(h[i], t)
  <2>1. h[i].revokedAt # 0 /\ h[i].revokedAt \in h[i].activatedAt..n /\ h[i].activatedAt \in 1..n
    BY DEF Ordered, AllRetired
  <2> QED BY <2>1 DEF ActiveAt
<1>2. Matching(h, t) = {}
  BY <1>1 DEF Matching
<1> QED BY <1>2 DEF KeyAt

\* ... and one whose last entry is active has that entry's key.
LEMMA ActiveIsKey ==
  ASSUME NEW h \in Seq(Entries), Len(h) > 0, NEW n \in Nat \ {0}, Ordered(h, n),
         h[Len(h)].revokedAt = 0, NEW t \in Nat, t >= n
  PROVE  KeyAt(h, t) = h[Len(h)].publicKey
<1>1. Len(h) \in 1..Len(h)
  OBVIOUS
<1>2. h[Len(h)].activatedAt \in 1..n
  BY <1>1 DEF Ordered
<1>3. Len(h) \in Matching(h, t)
  BY <1>1, <1>2 DEF Matching, ActiveAt
<1> QED BY <1>3, OneMatch

-------------------------------------------------------------------------------
(* The registry's steps.                                                   *)

\* What a transaction or a block does to the history.
Rotated(k) == Last > 0 /\ HasActiveKey /\ history' = AddEntry(Retire(history, now), k, now)
Revoked == Last > 0 /\ HasActiveKey /\ history' = Retire(history, now)
Added(k) == ~HasActiveKey /\ history' = AddEntry(history, k, now)

\* Every step is one of these at a standing clock, or leaves the history alone.
LEMMA StepShape ==
  ASSUME IInv, [Next]_keyVars
  PROVE  \/ /\ now' = now /\ owner' \in Accounts
            /\ Revoked \/ \E k \in Keys : Rotated(k) \/ Added(k)
         \/ /\ now' \in Nat /\ now' >= now /\ history' = history /\ owner' \in Accounts
<1>0. now \in Nat /\ owner \in Accounts /\ Last > 0
  BY DEF IInv, TypeOK
<1>1. Retired = Retire(history, now)
  BY DEF Retired, Retire, Last
<1>2. ASSUME NEW sender \in Accounts, NEW k \in Keys, rotateKey(sender, k)
      PROVE  now' = now /\ owner' = owner /\ Rotated(k)
  BY <1>1, <1>2 DEF rotateKey, Rotated, NewEntry, AddEntry
<1>3. ASSUME NEW sender \in Accounts, NEW k \in Keys, addKey(sender, k)
      PROVE  now' = now /\ owner' = owner /\ Added(k)
  BY <1>0, <1>3 DEF addKey, Added, NewEntry, AddEntry
<1>4. ASSUME NEW sender \in Accounts, revokeCurrentKey(sender)
      PROVE  now' = now /\ owner' = owner /\ Revoked
  BY <1>1, <1>4 DEF revokeCurrentKey, Revoked
<1>5. ASSUME NEW sender \in Accounts, NEW newOwner \in Accounts, transferOwnership(sender, newOwner)
      PROVE  now' = now /\ history' = history /\ owner' \in Accounts
  BY <1>5 DEF transferOwnership
<1>6. CASE NextBlock
  BY <1>0, <1>6 DEF NextBlock
<1>7. CASE UNCHANGED keyVars
  BY <1>0, <1>7 DEF keyVars
<1>8. ASSUME NEW sender \in Accounts, Transaction(sender)
      PROVE  \/ /\ now' = now /\ owner' \in Accounts
                /\ Revoked \/ \E k \in Keys : Rotated(k) \/ Added(k)
             \/ /\ now' \in Nat /\ now' >= now /\ history' = history /\ owner' \in Accounts
  BY <1>0, <1>2, <1>3, <1>4, <1>5, <1>8 DEF Transaction
<1> QED BY <1>6, <1>7, <1>8 DEF Next

\* If the last entry of an ordered history is retired, all are.
LEMMA LastRetired ==
  ASSUME IInv, ~HasActiveKey
  PROVE  AllRetired(history)
<1> SUFFICES ASSUME NEW i \in 1..Len(history) PROVE history[i].revokedAt # 0
  BY DEF AllRetired
<1>1. Len(history) \in 1..Len(history)
  BY DEF IInv, TypeOK, Last
<1>2. CASE i = Len(history)
  BY <1>2 DEF HasActiveKey, Last
<1>3. CASE i # Len(history)
  <2>1. i < Len(history)
    BY <1>1, <1>3
  <2> QED BY <1>1, <2>1 DEF IInv, HistoryOrdered, Ordered
<1> QED BY <1>2, <1>3

\* The facts the step proofs need of the state.
LEMMA StateFacts ==
  ASSUME IInv
  PROVE  /\ history \in Seq(Entries) /\ Len(history) > 0 /\ now \in Nat \ {0}
         /\ Ordered(history, now) /\ owner \in Accounts
BY DEF IInv, TypeOK, HistoryOrdered, Last

\* An ordered history stays ordered as time passes.
LEMMA OrderedLater ==
  ASSUME NEW h \in Seq(Entries), NEW n \in Nat, NEW m \in Nat, n =< m, Ordered(h, n)
  PROVE  Ordered(h, m)
<1>1. \A i \in 1..Len(h) : h[i].activatedAt \in 1..m
  BY DEF Ordered
<1>2. \A i \in 1..Len(h) : h[i].revokedAt = 0 \/ h[i].revokedAt \in h[i].activatedAt..m
  <2> SUFFICES ASSUME NEW i \in 1..Len(h), h[i].revokedAt # 0
               PROVE  h[i].revokedAt \in h[i].activatedAt..m
    OBVIOUS
  <2>1. h[i].activatedAt \in 1..n /\ h[i].revokedAt \in h[i].activatedAt..n
    BY DEF Ordered
  <2> QED BY <2>1
<1>3. \A i, k \in 1..Len(h) : i < k => h[i].revokedAt # 0 /\ h[i].revokedAt =< h[k].activatedAt
  BY DEF Ordered
<1> QED BY <1>1, <1>2, <1>3 DEF Ordered

\* The constructor's one key is an ordered history.
LEMMA InitIInv == Init => IInv
<1> SUFFICES ASSUME Init PROVE IInv
  OBVIOUS
<1>1. PICK k \in Keys : history = <<NewEntry(k)>>
  BY DEF Init
<1>2. now = 1 /\ owner \in Accounts
  BY DEF Init
<1>3. NewEntry(k) \in Entries /\ NewEntry(k).activatedAt = 1 /\ NewEntry(k).revokedAt = 0
  BY <1>2 DEF NewEntry, Entries
<1>4. history \in Seq(Entries) /\ Len(history) = 1 /\ history[1] = NewEntry(k)
  BY <1>1, <1>3
<1>5. TypeOK
  BY <1>2, <1>4 DEF TypeOK, Last
<1>6. HistoryOrdered
  BY <1>2, <1>3, <1>4 DEF HistoryOrdered, Ordered
<1> QED BY <1>5, <1>6 DEF IInv

\* Every transaction keeps the history ordered.
LEMMA NextIInv == IInv /\ [Next]_keyVars => IInv'
<1> SUFFICES ASSUME IInv, [Next]_keyVars PROVE IInv'
  OBVIOUS
<1>0. /\ history \in Seq(Entries) /\ Len(history) > 0 /\ now \in Nat \ {0}
      /\ Ordered(history, now)
  BY StateFacts
<1> DEFINE r == Retire(history, now)
<1>1. r \in Seq(Entries) /\ Len(r) = Len(history)
  BY <1>0, RetireEntry
<1>2. Ordered(r, now) /\ AllRetired(r)
  BY <1>0, RetireOrdered
<1> HIDE DEF r
<1>3. ASSUME now' = now, owner' \in Accounts, Revoked PROVE IInv'
  <2>1. history' = r
    BY <1>3 DEF Revoked, r
  <2> QED BY <1>0, <1>1, <1>2, <1>3, <2>1 DEF IInv, TypeOK, HistoryOrdered, Last
<1>4. ASSUME now' = now, owner' \in Accounts, NEW k \in Keys, Rotated(k) PROVE IInv'
  <2>1. history' = AddEntry(r, k, now)
    BY <1>4 DEF Rotated, r
  <2>2. /\ AddEntry(r, k, now) \in Seq(Entries)
        /\ Len(AddEntry(r, k, now)) = Len(r) + 1 /\ Len(r) \in Nat
    BY <1>0, <1>1, AddedEntry
  <2>3. Ordered(AddEntry(r, k, now), now)
    BY <1>0, <1>1, <1>2, AddOrdered
  <2> QED BY <1>0, <1>4, <2>1, <2>2, <2>3 DEF IInv, TypeOK, HistoryOrdered, Last
<1>5. ASSUME now' = now, owner' \in Accounts, NEW k \in Keys, Added(k) PROVE IInv'
  <2>1. history' = AddEntry(history, k, now) /\ AllRetired(history)
    BY <1>5, LastRetired DEF Added
  <2>2. /\ AddEntry(history, k, now) \in Seq(Entries)
        /\ Len(AddEntry(history, k, now)) = Len(history) + 1 /\ Len(history) \in Nat
    BY <1>0, AddedEntry
  <2>3. Ordered(AddEntry(history, k, now), now)
    BY <1>0, <2>1, AddOrdered
  <2> QED BY <1>0, <1>5, <2>1, <2>2, <2>3 DEF IInv, TypeOK, HistoryOrdered, Last
<1>6. ASSUME now' \in Nat, now' >= now, history' = history, owner' \in Accounts PROVE IInv'
  <2>1. Ordered(history, now')
    BY <1>0, <1>6, OrderedLater
  <2> QED BY <1>0, <1>6, <2>1 DEF IInv, TypeOK, HistoryOrdered, Last
<1> QED BY <1>3, <1>4, <1>5, <1>6, StepShape

\* The invariant holds after any sequence of transactions.
THEOREM Invariance == Spec => []IInv
BY InitIInv, NextIInv, PTL DEF Spec

\* The contract's storage keeps its types, and the history is never empty.
THEOREM KeysTyped == Spec => []TypeOK
<1>1. IInv => TypeOK
  BY DEF IInv
<1> QED BY <1>1, Invariance, PTL

\* The history is in the order of time and only its last entry can be active.
THEOREM KeysOrdered == Spec => []HistoryOrdered
<1>1. IInv => HistoryOrdered
  BY DEF IInv
<1> QED BY <1>1, Invariance, PTL

\* No instant has two keys.
THEOREM KeysUnique == Spec => []OneKeyPerInstant
<1>1. ASSUME IInv, NEW t \in 0..(now + 1), NEW i \in Matching(history, t), NEW k \in Matching(history, t)
      PROVE  i = k
  <2>1. t \in Nat
    BY <1>1, StateFacts
  <2>2. Matching(history, t) = {i}
    BY <1>1, <2>1, StateFacts, OneMatch
  <2> QED BY <2>2
<1>2. IInv => OneKeyPerInstant
  BY <1>1 DEF OneKeyPerInstant, Matching
<1> QED BY <1>2, Invariance, PTL

\* getActiveKey is the key of this instant and of every later one.
THEOREM KeysAgree == Spec => []ActiveKeyIsKeyFromNow
<1>1. ASSUME IInv, NEW t \in now..(now + 2) PROVE getKeyAtTime(t) = getActiveKey
  <2>1. t \in Nat /\ t >= now
    BY <1>1, StateFacts
  <2>2. CASE HasActiveKey
    <3>1. KeyAt(history, t) = history[Len(history)].publicKey
      BY <1>1, <2>1, <2>2, StateFacts, ActiveIsKey DEF HasActiveKey, Last
    <3> QED BY <1>1, <2>2, <3>1, StateFacts DEF getKeyAtTime, getActiveKey, Last
  <2>3. CASE ~HasActiveKey
    <3>1. KeyAt(history, t) = NoKey
      BY <1>1, <2>1, <2>3, StateFacts, LastRetired, RetiredHasNoKey
    <3> QED BY <2>3, <3>1 DEF getKeyAtTime, getActiveKey
  <2> QED BY <2>2, <2>3
<1>2. IInv => ActiveKeyIsKeyFromNow
  BY <1>1 DEF ActiveKeyIsKeyFromNow
<1> QED BY <1>2, Invariance, PTL

\* The key of a past instant never changes.
THEOREM KeysPastFixed == Spec => PastKeysAreFixed
<1>1. ASSUME IInv, [Next]_keyVars, NEW t \in 0..(now - 1)
      PROVE  KeyAt(history', t) = KeyAt(history, t)
  <2>0. /\ history \in Seq(Entries) /\ Len(history) > 0 /\ now \in Nat \ {0}
        /\ Ordered(history, now) /\ t \in Nat /\ t < now
    BY <1>1, StateFacts
  <2> DEFINE r == Retire(history, now)
  <2>1. r \in Seq(Entries)
    BY <2>0, RetireEntry
  <2>2. Ordered(r, now) /\ AllRetired(r)
    BY <2>0, RetireOrdered
  <2>3. HasActiveKey => KeyAt(r, t) = KeyAt(history, t)
    BY <2>0, RetireKeepsPast DEF HasActiveKey, Last
  <2> HIDE DEF r
  <2>4. ASSUME Revoked PROVE KeyAt(history', t) = KeyAt(history, t)
    BY <2>3, <2>4 DEF Revoked, r
  <2>5. ASSUME NEW k \in Keys, Rotated(k) PROVE KeyAt(history', t) = KeyAt(history, t)
    <3>1. KeyAt(AddEntry(r, k, now), t) = KeyAt(r, t)
      BY <2>0, <2>1, <2>2, AddKeepsPast
    <3> QED BY <2>3, <2>5, <3>1 DEF Rotated, r
  <2>6. ASSUME NEW k \in Keys, Added(k) PROVE KeyAt(history', t) = KeyAt(history, t)
    <3>1. AllRetired(history)
      BY <1>1, <2>6, LastRetired DEF Added
    <3> QED BY <2>0, <2>6, <3>1, AddKeepsPast DEF Added
  <2> QED BY <1>1, <2>4, <2>5, <2>6, StepShape
<1>2. IInv /\ [Next]_keyVars => [\A t \in 0..(now - 1) : getKeyAtTime(t)' = getKeyAtTime(t)]_keyVars
  BY <1>1 DEF getKeyAtTime
<1> QED BY <1>2, Invariance, PTL DEF Spec, PastKeysAreFixed

\* A key added to a history without an active one is the key from then on, and
\* the past is what it was.
LEMMA AddedTimeline ==
  ASSUME NEW h \in Seq(Entries), NEW k \in Keys, NEW n \in Nat \ {0}, Ordered(h, n),
         AllRetired(h), NEW t \in Nat
  PROVE  KeyAt(AddEntry(h, k, n), t) = IF t < n THEN KeyAt(h, t) ELSE k
<1> DEFINE a == AddEntry(h, k, n)
<1>1. /\ a \in Seq(Entries) /\ Len(a) = Len(h) + 1 /\ Len(h) \in Nat
      /\ a[Len(a)].revokedAt = 0 /\ a[Len(a)].publicKey = k
  <2>1. a \in Seq(Entries) /\ Len(a) = Len(h) + 1 /\ Len(h) \in Nat
        /\ a[Len(h) + 1] = [publicKey |-> k, activatedAt |-> n, revokedAt |-> 0]
    BY AddedEntry
  <2> QED BY <2>1
<1>2. Ordered(a, n)
  BY AddOrdered
<1>3. t < n => KeyAt(a, t) = KeyAt(h, t)
  BY AddKeepsPast
<1> HIDE DEF a
<1>4. ~(t < n) => KeyAt(a, t) = k
  BY <1>1, <1>2, ActiveIsKey
<1> QED BY <1>3, <1>4 DEF a

\* The history implements the timeline: each transaction chooses the key from
\* now on, or none, and leaves every earlier instant its key.
THEOREM KeysImplementTimeline == Spec => ImplementsTimeline
<1> USE KeyRegistryAssumption
<1>1. Init => TL!TimelineInit
  <2> SUFFICES ASSUME Init PROVE TL!TimelineInit
    OBVIOUS
  <2>1. PICK k \in Keys : history = <<NewEntry(k)>>
    BY DEF Init
  <2>2. now = 1 /\ IInv
    BY InitIInv DEF Init
  <2>3. /\ history \in Seq(Entries) /\ Len(history) = 1 /\ history[1].publicKey = k
        /\ history[1].activatedAt = 1 /\ history[1].revokedAt = 0 /\ Ordered(history, 1)
    BY <2>1, <2>2, StateFacts DEF NewEntry
  <2>4. ASSUME NEW t \in Instants PROVE KeyAt(history, t) = IF t < now THEN NoKey ELSE k
    <3>1. t \in Nat
      BY DEF Instants
    <3>2. CASE t < now
      <4>1. Matching(history, t) = {}
        BY <2>2, <2>3, <3>1, <3>2 DEF Matching, ActiveAt
      <4> QED BY <3>2, <4>1 DEF KeyAt
    <3>3. CASE ~(t < now)
      <4>1. /\ Len(history) > 0 /\ history[Len(history)].revokedAt = 0
            /\ history[Len(history)].publicKey = k /\ t >= 1
        BY <2>2, <2>3, <3>1, <3>3
      <4>2. KeyAt(history, t) = history[Len(history)].publicKey
        <5>1. history \in Seq(Entries) /\ Len(history) > 0 /\ Ordered(history, 1)
          BY <2>3
        <5>2. history[Len(history)].revokedAt = 0 /\ t \in Nat /\ t >= 1 /\ 1 \in Nat \ {0}
          BY <3>1, <4>1
        <5> HIDE <2>1, KeyRegistryAssumption
        <5> QED BY <5>1, <5>2, ActiveIsKey
      <4> QED BY <3>3, <4>1, <4>2
    <3> QED BY <3>2, <3>3
  <2>5. timeline = [t \in Instants |-> IF t < now THEN NoKey ELSE k]
    BY <2>4 DEF timeline, getKeyAtTime
  <2> QED BY <2>2, <2>5 DEF TL!TimelineInit
<1>2. ASSUME IInv, [Next]_keyVars PROVE [TL!TimelineNext]_TL!timelineVars
  <2>0. /\ history \in Seq(Entries) /\ Len(history) > 0 /\ now \in Nat \ {0} /\ Ordered(history, now)
        /\ Instants \subseteq Nat
    BY <1>2, StateFacts DEF Instants
  <2> DEFINE r == Retire(history, now)
  <2>1. r \in Seq(Entries) /\ Ordered(r, now) /\ AllRetired(r)
    BY <2>0, RetireEntry, RetireOrdered
  <2>2. ASSUME HasActiveKey, NEW t \in Instants
        PROVE  KeyAt(r, t) = IF t < now THEN KeyAt(history, t) ELSE NoKey
    <3>1. t < now => KeyAt(r, t) = KeyAt(history, t)
      BY <2>0, <2>2, RetireKeepsPast DEF HasActiveKey, Last
    <3> HIDE DEF r
    <3>2. ~(t < now) => KeyAt(r, t) = NoKey
      BY <2>0, <2>1, RetiredHasNoKey
    <3> QED BY <3>1, <3>2
  <2> HIDE DEF r
  <2>3. ASSUME NEW k \in Keys \cup {NoKey}, now' = now,
               \A t \in Instants : KeyAt(history', t) = IF t < now THEN KeyAt(history, t) ELSE k
        PROVE  TL!TimelineNext
    <3>1. timeline' = [t \in Instants |-> IF t < now THEN timeline[t] ELSE k]
      BY <2>3 DEF timeline, getKeyAtTime
    <3> QED BY <2>3, <3>1 DEF TL!TimelineNext, TL!Choose
  <2>4. CASE now' = now /\ Revoked
    <3>1. history' = r /\ HasActiveKey
      BY <2>4 DEF Revoked, r
    <3> QED BY <2>2, <2>3, <2>4, <3>1
  <2>5. ASSUME now' = now, NEW k \in Keys, Rotated(k) PROVE TL!TimelineNext
    <3>1. history' = AddEntry(r, k, now) /\ HasActiveKey
      BY <2>5 DEF Rotated, r
    <3>2. ASSUME NEW t \in Instants
          PROVE  KeyAt(history', t) = IF t < now THEN KeyAt(history, t) ELSE k
      <4>1. KeyAt(history', t) = IF t < now THEN KeyAt(r, t) ELSE k
        BY <2>0, <2>1, <3>1, AddedTimeline
      <4> QED BY <2>2, <3>1, <4>1
    <3> QED BY <2>3, <2>5, <3>2
  <2>6. ASSUME now' = now, NEW k \in Keys, Added(k) PROVE TL!TimelineNext
    <3>1. history' = AddEntry(history, k, now) /\ AllRetired(history)
      BY <1>2, <2>6, LastRetired DEF Added
    <3>2. ASSUME NEW t \in Instants
          PROVE  KeyAt(history', t) = IF t < now THEN KeyAt(history, t) ELSE k
      BY <2>0, <3>1, AddedTimeline
    <3> QED BY <2>3, <2>6, <3>2
  <2>7. CASE now' \in Nat /\ now' >= now /\ history' = history
    <3>1. timeline' = timeline
      BY <2>7 DEF timeline, getKeyAtTime
    <3> QED BY <2>0, <2>7, <3>1 DEF TL!TimelineNext, TL!Pass, TL!timelineVars
  <2> QED BY <1>2, <2>4, <2>5, <2>6, <2>7, StepShape
<1>3. IInv /\ [Next]_keyVars => [TL!TimelineNext]_TL!timelineVars
  BY <1>2
<1> QED BY <1>1, <1>3, Invariance, PTL DEF Spec, ImplementsTimeline, TL!Timeline

===============================================================================
