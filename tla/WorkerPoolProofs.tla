--------------------------- MODULE WorkerPoolProofs ---------------------------
(***************************************************************************)
(* The safety properties of WorkerPool for any number of jobs and workers  *)
(* and any queue size.  The inductive invariant says, for each place a job *)
(* can be in, what its handler and its result channel look like there.     *)
(* With it the pool is shown to implement JobService.                      *)
(***************************************************************************)
EXTENDS WorkerPool, SequenceFacts, TLAPS

\* A parked or queued job has a fresh channel, and its handler is where Submit left it.
QueuedFresh ==
    /\ IsInjective(queue) /\ IsInjective(parked)
    /\ \A j \in Range(queue) : rc[j] = NewChannel /\ caller[j] \in {"waiting", "timed out"}
    /\ \A j \in Range(parked) : rc[j] = NewChannel
    /\ \A j \in Jobs : caller[j] = "submitting" <=> j \in Range(parked)

\* A worker holds one job exactly while it works on it, and shares it with nobody.
HandOfWorker ==
    /\ \A w \in Workers : hand[w] = {} <=> wpc[w] \in {"ready", "stopped"}
    /\ \A w \in Workers : \A i, k \in hand[w] : i = k
    /\ \A w, x \in Workers : \A i \in hand[w] : i \in hand[x] => w = x

\* A held job has left the buffer, and Submit has returned for it.
HeldElsewhere ==
    \A w \in Workers : \A i \in hand[w] :
        i \notin Range(queue) /\ caller[i] \in {"waiting", "answered", "timed out"}

\* Its channel is as far as its worker is.
HeldAsSent ==
    /\ \A w \in Workers : \A i \in hand[w] : wpc[w] = "processing" => rc[i] = NewChannel
    /\ \A w \in Workers : \A i \in hand[w] : wpc[w] = "sent" => Len(rc[i].sent) = 1
    /\ \A w \in Workers : \A i \in hand[w] : ~rc[i].closed

\* A job that is in no such place is fresh or settled.
ElsewhereSettled ==
    \A j \in Jobs :
        /\ caller[j] = "idle" =>
              rc[j] = NewChannel /\ j \notin Range(queue) /\ \A w \in Workers : j \notin hand[w]
        /\ rc[j].closed => Len(rc[j].sent) = 1
        /\ caller[j] \in {"waiting", "answered", "timed out"} =>
              j \in Range(queue) \/ rc[j].closed \/ \E w \in Workers : hand[w] = {j}
        /\ rc[j].sent # <<>> /\ ~rc[j].closed =>
              \E w \in Workers : hand[w] = {j} /\ wpc[w] = "sent"

\* The order of the steps of Shutdown and of the workers' stops.
ShutdownOrder ==
    /\ ParkedOnlyOnFullQueue
    /\ closed => cancelled
    /\ \A w \in Workers : wpc[w] = "stopped" => closed /\ queue = <<>>
    /\ drained => \A w \in Workers : wpc[w] = "stopped"

IInv ==
    /\ TypeOK
    /\ QueuedFresh
    /\ HandOfWorker
    /\ HeldElsewhere
    /\ HeldAsSent
    /\ ElsewhereSettled
    /\ ShutdownOrder

-------------------------------------------------------------------------------
(* Facts about channels and places.                                       *)

\* A new channel is empty and open.
LEMMA FreshChannel == NewChannel \in Channels /\ NewChannel.sent = <<>> /\ ~NewChannel.closed
BY DEF NewChannel, Channels

\* The first value sent on a channel is its only one, and does not close it.
LEMMA SendFresh ==
  ASSUME NEW r \in Values
  PROVE  /\ Send(NewChannel, r) \in Channels
         /\ Len(Send(NewChannel, r).sent) = 1
         /\ ~Send(NewChannel, r).closed
<1>1. Append(<<>>, r) \in Seq(Values) /\ Len(Append(<<>>, r)) = 1
  OBVIOUS
<1>2. Send(NewChannel, r).sent = Append(<<>>, r)
  BY FreshChannel DEF Send, Channels
<1>3. ~Send(NewChannel, r).closed
  BY FreshChannel DEF Send, Channels
<1>4. Send(NewChannel, r) \in Channels
  BY <1>1, FreshChannel DEF Send, Channels
<1> QED BY <1>1, <1>2, <1>3, <1>4

\* What the steps below need of the types.
LEMMA Places ==
  ASSUME TypeOK
  PROVE  /\ queue \in Seq(Jobs) /\ Range(queue) \subseteq Jobs
         /\ parked \in Seq(Jobs) /\ Range(parked) \subseteq Jobs
         /\ Len(queue) \in Nat /\ Len(queue) =< QueueSize
         /\ hand \in [Workers -> SUBSET Jobs]
         /\ wpc \in [Workers -> WorkerStates]
         /\ rc \in [Jobs -> Channels]
         /\ caller \in [Jobs -> Callers]
BY DEF TypeOK, JobsTyped, Range

-------------------------------------------------------------------------------
(* The invariant holds initially and is kept by every step.                *)

\* NewPool, RegisterProcessor and Start establish the invariant.
LEMMA InitIInv == Init => IInv
<1> SUFFICES ASSUME Init PROVE IInv
  OBVIOUS
<1>1. Range(<<>>) = {} /\ IsInjective(<<>>)
  BY EmptySequence
<1>2. NewChannel \in Channels
  BY DEF NewChannel, Channels
<1>3. TypeOK
  <2>1. JobsTyped
    BY <1>2, PoolAssumption DEF JobsTyped, Init, Callers, WorkerStates
  <2>2. FlagsTyped
    BY DEF FlagsTyped, Init
  <2> QED BY <2>1, <2>2 DEF TypeOK
<1>4. QueuedFresh
  BY <1>1 DEF Init, QueuedFresh
<1>5. HandOfWorker /\ HeldElsewhere /\ HeldAsSent
  BY <1>1 DEF Init, HandOfWorker, HeldElsewhere, HeldAsSent
<1>6. ElsewhereSettled
  BY <1>1 DEF Init, ElsewhereSettled, NewChannel
<1>7. ShutdownOrder
  BY DEF Init, ShutdownOrder, ParkedOnlyOnFullQueue
<1> QED BY <1>3, <1>4, <1>5, <1>6, <1>7 DEF IInv

\* A Submit that finds room: the job moves from its handler into the buffer.
LEMMA EnqueueStep ==
  ASSUME IInv, NEW j \in Jobs, SubmitEnqueue(j) PROVE IInv'
<1> USE DEF IInv
<1>1. Range(queue) \subseteq Jobs /\ j \notin Range(queue)
  BY Places DEF ElsewhereSettled, SubmitEnqueue
<1>2. rc[j] = NewChannel /\ j \notin Range(parked) /\ \A w \in Workers : j \notin hand[w]
  BY DEF ElsewhereSettled, QueuedFresh, SubmitEnqueue
<1>3. /\ queue \in Seq(Jobs) /\ queue' = Append(queue, j) /\ Len(queue') =< QueueSize
      /\ UNCHANGED <<parked, hand, wpc, rc>>
      /\ caller' = [caller EXCEPT ![j] = "waiting"] /\ caller \in [Jobs -> Callers]
      /\ hand \in [Workers -> SUBSET Jobs]
      /\ caller[j] = "idle"
  BY Places, PoolAssumption DEF SubmitEnqueue
<1>4. Range(queue') = Range(queue) \cup {j} /\ IsInjective(queue')
  <2>1. IsInjective(queue)
    BY DEF QueuedFresh
  <2>2. Range(Append(queue, j)) = Range(queue) \cup {j}
    BY <1>3, RangeAppend
  <2>3. IsInjective(Append(queue, j))
    BY <1>1, <1>3, <2>1, InjectiveAppend
  <2> QED BY <1>3, <2>2, <2>3
<1>5. TypeOK'
  <2>1. queue' \in Seq(Jobs)
    BY <1>3
  <2>2. caller' \in [Jobs -> Callers]
    BY <1>3 DEF Callers
  <2>3. JobsTyped'
    BY <1>3, <2>1, <2>2 DEF JobsTyped, TypeOK, WorkerStates
  <2>4. FlagsTyped'
    BY DEF FlagsTyped, TypeOK, SubmitEnqueue
  <2> QED BY <2>3, <2>4 DEF TypeOK
<1>6. QueuedFresh'
  <2>1. \A i \in Range(queue') : rc'[i] = NewChannel /\ caller'[i] \in {"waiting", "timed out"}
    BY <1>1, <1>2, <1>3, <1>4 DEF QueuedFresh
  <2>2. \A i \in Range(parked') : rc'[i] = NewChannel
    BY <1>3 DEF QueuedFresh
  <2>3. \A i \in Jobs : caller'[i] = "submitting" <=> i \in Range(parked')
    BY <1>2, <1>3 DEF QueuedFresh
  <2>4. IsInjective(parked')
    BY <1>3 DEF QueuedFresh
  <2> QED BY <1>4, <2>1, <2>2, <2>3, <2>4 DEF QueuedFresh
<1>7. HandOfWorker' /\ HeldAsSent'
  BY <1>3 DEF HandOfWorker, HeldAsSent
<1>8. HeldElsewhere'
  BY <1>1, <1>2, <1>3, <1>4 DEF HeldElsewhere
<1>9. ElsewhereSettled'
  BY <1>1, <1>2, <1>3, <1>4 DEF ElsewhereSettled
<1>10. ShutdownOrder'
  BY <1>3, Places, PoolAssumption DEF ShutdownOrder, ParkedOnlyOnFullQueue, SubmitEnqueue
<1> QED BY <1>5, <1>6, <1>7, <1>8, <1>9, <1>10

\* A Submit that finds the buffer full: its send parks.
LEMMA ParkStep ==
  ASSUME IInv, NEW j \in Jobs, SubmitPark(j) PROVE IInv'
<1> USE DEF IInv
<1>1. Range(parked) \subseteq Jobs /\ j \notin Range(parked) /\ j \notin Range(queue)
  BY Places DEF ElsewhereSettled, QueuedFresh, SubmitPark
<1>2. rc[j] = NewChannel /\ \A w \in Workers : j \notin hand[w]
  BY DEF ElsewhereSettled, SubmitPark
<1>3. /\ parked \in Seq(Jobs) /\ parked' = Append(parked, j)
      /\ UNCHANGED <<queue, hand, wpc, rc>>
      /\ caller' = [caller EXCEPT ![j] = "submitting"] /\ caller \in [Jobs -> Callers]
      /\ hand \in [Workers -> SUBSET Jobs] /\ Range(queue) \subseteq Jobs
      /\ caller[j] = "idle"
  BY Places DEF SubmitPark
<1>4. Range(parked') = Range(parked) \cup {j} /\ IsInjective(parked')
  <2>1. IsInjective(parked)
    BY DEF QueuedFresh
  <2>2. Range(Append(parked, j)) = Range(parked) \cup {j}
    BY <1>3, RangeAppend
  <2>3. IsInjective(Append(parked, j))
    BY <1>1, <1>3, <2>1, InjectiveAppend
  <2> QED BY <1>3, <2>2, <2>3
<1>5. TypeOK'
  <2>1. parked' \in Seq(Jobs)
    BY <1>3
  <2>2. caller' \in [Jobs -> Callers]
    BY <1>3 DEF Callers
  <2>3. JobsTyped'
    BY <1>3, <2>1, <2>2 DEF JobsTyped, TypeOK, WorkerStates
  <2>4. FlagsTyped'
    BY DEF FlagsTyped, TypeOK, SubmitPark
  <2> QED BY <2>3, <2>4 DEF TypeOK
<1>6. QueuedFresh'
  BY <1>1, <1>2, <1>3, <1>4, Places DEF QueuedFresh
<1>7. HandOfWorker' /\ HeldAsSent'
  BY <1>3 DEF HandOfWorker, HeldAsSent
<1>8. HeldElsewhere'
  BY <1>1, <1>2, <1>3, <1>4 DEF HeldElsewhere
<1>9. ElsewhereSettled'
  BY <1>1, <1>2, <1>3, <1>4 DEF ElsewhereSettled
<1>10. ShutdownOrder'
  <2>1. Len(queue) = QueueSize
    BY Places, PoolAssumption DEF SubmitPark
  <2>2. ParkedOnlyOnFullQueue'
    BY <2>1 DEF ParkedOnlyOnFullQueue, SubmitPark
  <2> QED BY <2>2 DEF ShutdownOrder, SubmitPark
<1> QED BY <1>5, <1>6, <1>7, <1>8, <1>9, <1>10

\* A Submit on a cancelled pool: the fresh channel gets the error and is closed.
LEMMA RefuseStep ==
  ASSUME IInv, NEW j \in Jobs, SubmitRefuse(j) PROVE IInv'
<1> USE DEF IInv
<1>1. /\ j \notin Range(queue) /\ j \notin Range(parked)
      /\ rc[j] = NewChannel /\ \A w \in Workers : j \notin hand[w]
  BY DEF ElsewhereSettled, QueuedFresh, SubmitRefuse
<1>2. /\ UNCHANGED <<queue, parked, hand, wpc>>
      /\ caller' = [caller EXCEPT ![j] = "waiting"] /\ caller \in [Jobs -> Callers]
      /\ hand \in [Workers -> SUBSET Jobs] /\ Range(queue) \subseteq Jobs
      /\ Range(parked) \subseteq Jobs
      /\ rc \in [Jobs -> Channels]
      /\ caller[j] = "idle"
  BY Places DEF SubmitRefuse
<1>3. PICK ch \in Channels : ch.closed /\ Len(ch.sent) = 1 /\ rc' = [rc EXCEPT ![j] = ch]
  <2> DEFINE sent == Send(rc[j], ShutDownError)
  <2>1. sent \in Channels /\ Len(sent.sent) = 1
    BY <1>1, SendFresh DEF Values
  <2>2. Close(sent) \in Channels /\ Close(sent).closed /\ Close(sent).sent = sent.sent
    BY <2>1 DEF Close, Channels
  <2>3. rc' = [rc EXCEPT ![j] = Close(sent)]
    BY DEF SubmitRefuse
  <2> QED BY <2>1, <2>2, <2>3
<1>5. TypeOK'
  <2>1. caller' \in [Jobs -> Callers]
    BY <1>2 DEF Callers
  <2>2. JobsTyped'
    BY <1>2, <1>3, <2>1 DEF JobsTyped, TypeOK, WorkerStates
  <2>3. FlagsTyped'
    BY DEF FlagsTyped, TypeOK, SubmitRefuse
  <2> QED BY <2>2, <2>3 DEF TypeOK
<1>6. QueuedFresh'
  BY <1>1, <1>2, <1>3 DEF QueuedFresh
<1>7. HandOfWorker' /\ HeldElsewhere'
  BY <1>1, <1>2 DEF HandOfWorker, HeldElsewhere
<1>8. HeldAsSent'
  BY <1>1, <1>2, <1>3 DEF HeldAsSent
<1>9. ElsewhereSettled'
  BY <1>1, <1>2, <1>3 DEF ElsewhereSettled
<1>10. ShutdownOrder'
  BY DEF ShutdownOrder, ParkedOnlyOnFullQueue, SubmitRefuse
<1> QED BY <1>5, <1>6, <1>7, <1>8, <1>9, <1>10

\* A handler that receives its result reads a channel no queued job has used.
LEMMA AnswersStep ==
  ASSUME IInv, NEW j \in Jobs, HandlerAnswers(j) PROVE IInv'
<1> USE DEF IInv
<1>1. /\ UNCHANGED <<queue, parked, hand, wpc>>
      /\ caller' = [caller EXCEPT ![j] = "answered"] /\ caller \in [Jobs -> Callers]
      /\ hand \in [Workers -> SUBSET Jobs] /\ Range(queue) \subseteq Jobs
      /\ Range(parked) \subseteq Jobs
      /\ rc \in [Jobs -> Channels]
      /\ caller[j] = "waiting"
  BY Places DEF HandlerAnswers
<1>2. rc[j].sent # <<>> /\ rc[j] # NewChannel
  <2>1. rc[j].taken \in Nat /\ rc[j].sent \in Seq(Values) /\ rc[j].taken < Len(rc[j].sent)
    BY <1>1 DEF HandlerAnswers, CanReceive, Channels
  <2>2. rc[j].sent # <<>>
    BY <2>1
  <2> QED BY <2>2 DEF NewChannel
<1>3. PICK ch \in Channels : /\ ch.sent = rc[j].sent /\ ch.closed = rc[j].closed
                             /\ rc' = [rc EXCEPT ![j] = ch]
  <2> DEFINE ch == [rc[j] EXCEPT !.taken = @ + 1]
  <2>1. rc[j] \in Channels
    BY <1>1
  <2>2. ch \in Channels
    BY <2>1 DEF Channels
  <2>3. ch.sent = rc[j].sent /\ ch.closed = rc[j].closed
    BY <2>1 DEF Channels
  <2>4. rc' = [rc EXCEPT ![j] = ch]
    BY DEF HandlerAnswers
  <2> QED BY <2>2, <2>3, <2>4
<1>4. j \notin Range(queue) /\ j \notin Range(parked)
  BY <1>2 DEF QueuedFresh
<1>5. TypeOK'
  <2>1. caller' \in [Jobs -> Callers]
    BY <1>1 DEF Callers
  <2>2. JobsTyped'
    BY <1>1, <1>3, <2>1 DEF JobsTyped, TypeOK, WorkerStates
  <2>3. FlagsTyped'
    BY DEF FlagsTyped, TypeOK, HandlerAnswers
  <2> QED BY <2>2, <2>3 DEF TypeOK
<1>6. QueuedFresh'
  BY <1>1, <1>3, <1>4 DEF QueuedFresh
<1>7. HandOfWorker' /\ HeldElsewhere'
  BY <1>1 DEF HandOfWorker, HeldElsewhere
<1>8. HeldAsSent'
  BY <1>1, <1>2, <1>3 DEF HeldAsSent
<1>9. ElsewhereSettled'
  BY <1>1, <1>2, <1>3 DEF ElsewhereSettled
<1>10. ShutdownOrder'
  BY DEF ShutdownOrder, ParkedOnlyOnFullQueue, HandlerAnswers
<1> QED BY <1>5, <1>6, <1>7, <1>8, <1>9, <1>10

\* A handler that times out leaves its job where it is.
LEMMA TimesOutStep ==
  ASSUME IInv, NEW j \in Jobs, HandlerTimesOut(j) PROVE IInv'
<1> USE DEF IInv
<1>1. /\ UNCHANGED <<queue, parked, hand, wpc, rc>>
      /\ caller' = [caller EXCEPT ![j] = "timed out"] /\ caller \in [Jobs -> Callers]
      /\ hand \in [Workers -> SUBSET Jobs] /\ Range(queue) \subseteq Jobs
      /\ Range(parked) \subseteq Jobs
      /\ caller[j] = "waiting"
  BY Places DEF HandlerTimesOut
<1>5. TypeOK'
  <2>1. caller' \in [Jobs -> Callers]
    BY <1>1 DEF Callers
  <2>2. JobsTyped'
    BY <1>1, <2>1 DEF JobsTyped, TypeOK, WorkerStates
  <2>3. FlagsTyped'
    BY DEF FlagsTyped, TypeOK, HandlerTimesOut
  <2> QED BY <2>2, <2>3 DEF TypeOK
<1>6. QueuedFresh'
  BY <1>1 DEF QueuedFresh
<1>7. HandOfWorker' /\ HeldElsewhere' /\ HeldAsSent'
  <2>1. HandOfWorker'
    BY <1>1 DEF HandOfWorker
  <2>2. HeldElsewhere'
    BY <1>1 DEF HeldElsewhere
  <2>3. HeldAsSent'
    BY <1>1 DEF HeldAsSent
  <2> QED BY <2>1, <2>2, <2>3
<1>9. ElsewhereSettled'
  BY <1>1 DEF ElsewhereSettled
<1>10. ShutdownOrder'
  BY DEF ShutdownOrder, ParkedOnlyOnFullQueue, HandlerTimesOut
<1> QED BY <1>5, <1>6, <1>7, <1>9, <1>10

\* A receive: the head of the buffer goes to the worker, the first parked send
\* takes its slot.
LEMMA ReceiveStep ==
  ASSUME IInv, NEW v \in Workers, Receive(v) PROVE IInv'
<1> USE DEF IInv
<1> DEFINE h == Head(queue)
           p == Head(parked)
<1>1. /\ wpc[v] = "ready" /\ queue \in Seq(Jobs) /\ queue # <<>>
      /\ parked \in Seq(Jobs)
      /\ hand' = [hand EXCEPT ![v] = {h}] /\ hand \in [Workers -> SUBSET Jobs]
      /\ wpc' = [wpc EXCEPT ![v] = "processing"]
      /\ wpc \in [Workers -> WorkerStates]
      /\ caller \in [Jobs -> Callers]
      /\ UNCHANGED <<rc, cancelled, closed, drained, panicked>>
      /\ Range(queue) \subseteq Jobs /\ Range(parked) \subseteq Jobs
  BY Places DEF Receive
<1>2. h \in Jobs /\ Tail(queue) \in Seq(Jobs) /\ Len(Tail(queue)) = Len(queue) - 1
  BY <1>1
<1>3. Range(queue) = {h} \cup Range(Tail(queue))
  BY <1>1, RangeTail
<1>4. IsInjective(Tail(queue)) /\ h \notin Range(Tail(queue))
  <2>1. IsInjective(queue)
    BY DEF QueuedFresh
  <2> QED BY <1>1, <2>1, InjectiveTail
<1>5. /\ rc[h] = NewChannel /\ caller[h] \in {"waiting", "timed out"}
      /\ h \notin Range(parked)
  BY <1>2, <1>3 DEF QueuedFresh
<1>6. \A w \in Workers : h \notin hand[w]
  BY <1>3 DEF HeldElsewhere
<1>7. hand[v] = {}
  BY <1>1 DEF HandOfWorker
<1>8. FlagsTyped'
  BY <1>1 DEF FlagsTyped, TypeOK
<1>9. HandOfWorker'
  <2>1. hand'[v] = {h} /\ wpc'[v] = "processing"
    BY <1>1
  <2>2. \A w \in Workers : w # v => hand'[w] = hand[w] /\ wpc'[w] = wpc[w]
    BY <1>1
  <2>3. \A w \in Workers : hand'[w] = {} <=> wpc'[w] \in {"ready", "stopped"}
    BY <2>1, <2>2 DEF HandOfWorker
  <2>4. \A w \in Workers : \A i, k \in hand'[w] : i = k
    BY <2>1, <2>2 DEF HandOfWorker
  <2>5. \A w, x \in Workers : \A i \in hand'[w] : i \in hand'[x] => w = x
    BY <2>1, <2>2, <1>6 DEF HandOfWorker
  <2> QED BY <2>3, <2>4, <2>5 DEF HandOfWorker
<1>10. HeldAsSent'
  <2>1. hand'[v] = {h} /\ wpc'[v] = "processing" /\ rc' = rc
    BY <1>1
  <2>2. \A w \in Workers : w # v => hand'[w] = hand[w] /\ wpc'[w] = wpc[w]
    BY <1>1
  <2>3. ~rc[h].closed
    BY <1>5, FreshChannel
  <2>4. \A w \in Workers : \A i \in hand'[w] : wpc'[w] = "processing" => rc[i] = NewChannel
    <3>1. \A i \in hand'[v] : rc[i] = NewChannel
      BY <2>1, <1>5
    <3>2. \A w \in Workers : w # v => \A i \in hand[w] : wpc[w] = "processing" => rc[i] = NewChannel
      BY DEF HeldAsSent
    <3> QED BY <2>2, <3>1, <3>2
  <2>5. \A w \in Workers : \A i \in hand'[w] : wpc'[w] = "sent" => Len(rc[i].sent) = 1
    BY <2>1, <2>2 DEF HeldAsSent
  <2>6. \A w \in Workers : \A i \in hand'[w] : ~rc[i].closed
    BY <2>1, <2>2, <2>3 DEF HeldAsSent
  <2> QED BY <2>1, <2>4, <2>5, <2>6 DEF HeldAsSent
<1>11. CASE parked = <<>>
  <2>1. queue' = Tail(queue) /\ UNCHANGED <<parked, caller>>
    BY <1>11 DEF Receive, Refill, Unparked
  <2>2. JobsTyped'
    BY <1>1, <1>2, <2>1, Places, PoolAssumption DEF JobsTyped, TypeOK, WorkerStates
  <2>3. QueuedFresh'
    BY <1>1, <1>3, <1>4, <2>1 DEF QueuedFresh
  <2>4. HeldElsewhere'
    BY <1>1, <1>3, <1>4, <1>5, <2>1 DEF HeldElsewhere
  <2>5. ElsewhereSettled'
    BY <1>1, <1>2, <1>3, <1>5, <1>7, <2>1 DEF ElsewhereSettled, NewChannel
  <2>6. ShutdownOrder'
    BY <1>1, <1>11, <2>1 DEF ShutdownOrder, ParkedOnlyOnFullQueue
  <2> QED BY <2>2, <2>3, <2>4, <2>5, <2>6, <1>8, <1>9, <1>10 DEF TypeOK
<1>12. CASE parked # <<>>
  <2>1. /\ queue' = Append(Tail(queue), p) /\ parked' = Tail(parked)
        /\ caller' = [caller EXCEPT ![p] = "waiting"]
    BY <1>12 DEF Receive, Refill, Unparked
  <2>2. p \in Jobs /\ Tail(parked) \in Seq(Jobs)
    BY <1>1, <1>12
  <2>3. Range(parked) = {p} \cup Range(Tail(parked))
    BY <1>1, <1>12, RangeTail
  <2>4. IsInjective(Tail(parked)) /\ p \notin Range(Tail(parked))
    <3>1. IsInjective(parked)
      BY DEF QueuedFresh
    <3> QED BY <1>1, <1>12, <3>1, InjectiveTail
  <2>5. rc[p] = NewChannel /\ caller[p] = "submitting" /\ p \notin Range(queue)
    BY <2>2, <2>3 DEF QueuedFresh
  <2>6. p # h /\ p \notin Range(Tail(queue)) /\ \A w \in Workers : p \notin hand[w]
    BY <1>3, <2>5 DEF HeldElsewhere
  <2>7. Range(queue') = Range(Tail(queue)) \cup {p}
    <3>1. PICK q \in Seq(Jobs) : q = Tail(queue)
      BY <1>2
    <3>2. Range(Append(q, p)) = Range(q) \cup {p}
      BY <2>2, RangeAppend
    <3> QED BY <3>1, <3>2, <2>1
  <2>8. IsInjective(queue')
    BY <1>2, <1>4, <2>1, <2>2, <2>6, InjectiveAppend
  <2>9. queue' \in Seq(Jobs) /\ Len(queue') = Len(queue)
    BY <1>1, <1>2, <2>1, <2>2
  <2>10. JobsTyped'
    <3>1. caller' \in [Jobs -> Callers]
      BY <1>1, <2>1 DEF Callers
    <3>2. Len(queue') =< QueueSize
      BY <2>9, Places
    <3>3. hand' \in [Workers -> SUBSET Jobs] /\ wpc' \in [Workers -> WorkerStates]
      BY <1>1, <1>2 DEF WorkerStates
    <3> QED BY <1>1, <2>1, <2>2, <2>9, <3>1, <3>2, <3>3 DEF JobsTyped, TypeOK, WorkerStates
  <2>11. QueuedFresh'
    BY <1>1, <1>3, <1>4, <2>1, <2>2, <2>3, <2>4, <2>5, <2>7, <2>8 DEF QueuedFresh
  <2>12. HeldElsewhere'
    BY <1>1, <1>3, <1>4, <1>5, <2>1, <2>5, <2>6, <2>7 DEF HeldElsewhere
  <2>13. ElsewhereSettled'
    <3>1. \A i \in Jobs : caller'[i] = "idle" => caller[i] = "idle"
      BY <1>1, <2>1, <2>2
    <3>2. \A i \in Jobs : caller[i] = "idle" => i # h /\ i # p
      BY <1>5, <2>5
    <3>3. \A i \in Jobs : i \in Range(queue) => i \in Range(queue') \/ hand'[v] = {i}
      BY <1>1, <1>3, <2>7
    <3>4. \A w \in Workers : hand[w] # {} => hand'[w] = hand[w] /\ wpc'[w] = wpc[w]
      BY <1>1, <1>7
    <3>5. \A i \in Jobs : i \in Range(queue') => i \in Range(queue) \/ i = p
      BY <1>3, <2>7
    <3>6. \A i \in Jobs : caller'[i] # caller[i] => i = p /\ i \in Range(queue')
      BY <1>1, <2>1, <2>7
    <3>7. \A w \in Workers : \A i \in Jobs : i \in hand'[w] => i \in hand[w] \/ i = h
      BY <1>1
    <3>8. \A i \in Jobs : caller'[i] = "idle" =>
             rc[i] = NewChannel /\ i \notin Range(queue') /\ \A w \in Workers : i \notin hand'[w]
      BY <3>1, <3>2, <3>5, <3>7 DEF ElsewhereSettled
    <3>9. \A i \in Jobs : caller'[i] \in {"waiting", "answered", "timed out"} =>
              i \in Range(queue') \/ rc[i].closed \/ \E w \in Workers : hand'[w] = {i}
      <4> SUFFICES ASSUME NEW i \in Jobs, caller'[i] \in {"waiting", "answered", "timed out"}
                   PROVE  i \in Range(queue') \/ rc[i].closed \/ \E w \in Workers : hand'[w] = {i}
        OBVIOUS
      <4>1. CASE i \in Range(queue)
        BY <4>1, <3>3
      <4>2. CASE caller'[i] # caller[i]
        BY <4>2, <3>6
      <4>3. CASE i \notin Range(queue) /\ caller'[i] = caller[i]
        <5>1. CASE rc[i].closed
          BY <5>1
        <5>2. CASE ~rc[i].closed
          <6>1. PICK w \in Workers : hand[w] = {i}
            BY <4>3, <5>2 DEF ElsewhereSettled
          <6> QED BY <6>1, <3>4
        <5> QED BY <5>1, <5>2
      <4> QED BY <4>1, <4>2, <4>3
    <3>10. \A i \in Jobs : rc[i].sent # <<>> /\ ~rc[i].closed =>
              \E w \in Workers : hand'[w] = {i} /\ wpc'[w] = "sent"
      <4> SUFFICES ASSUME NEW i \in Jobs, rc[i].sent # <<>>, ~rc[i].closed
                   PROVE  \E w \in Workers : hand'[w] = {i} /\ wpc'[w] = "sent"
        OBVIOUS
      <4>1. PICK w \in Workers : hand[w] = {i} /\ wpc[w] = "sent"
        BY DEF ElsewhereSettled
      <4> QED BY <4>1, <3>4
    <3>11. \A i \in Jobs : rc[i].closed => Len(rc[i].sent) = 1
      BY DEF ElsewhereSettled
    <3>12. rc' = rc
      BY <1>1
    <3> QED BY <3>8, <3>9, <3>10, <3>11, <3>12 DEF ElsewhereSettled
  <2>14. ShutdownOrder'
    <3>1. Len(queue) = QueueSize /\ ~cancelled
      BY <1>12 DEF ShutdownOrder, ParkedOnlyOnFullQueue
    <3>2. ParkedOnlyOnFullQueue'
      BY <1>1, <2>9, <3>1 DEF ParkedOnlyOnFullQueue
    <3>3. \A w \in Workers : wpc'[w] # "stopped"
      BY <1>1, <3>1 DEF ShutdownOrder
    <3> QED BY <1>1, <3>1, <3>2, <3>3 DEF ShutdownOrder
  <2> QED BY <2>10, <2>11, <2>12, <2>13, <2>14, <1>8, <1>9, <1>10 DEF TypeOK
<1> QED BY <1>11, <1>12

\* A worker sends its result: the job's channel now holds its one value.
LEMMA SendStep ==
  ASSUME IInv, NEW v \in Workers, NEW j \in Jobs, SendResult(v, j) PROVE IInv'
<1> USE DEF IInv
<1>1. /\ UNCHANGED <<queue, parked, hand, caller>>
      /\ wpc' = [wpc EXCEPT ![v] = "sent"]
      /\ wpc \in [Workers -> WorkerStates]
      /\ hand \in [Workers -> SUBSET Jobs] /\ Range(queue) \subseteq Jobs
      /\ Range(parked) \subseteq Jobs
      /\ rc \in [Jobs -> Channels]
      /\ wpc[v] = "processing" /\ j \in hand[v]
  BY Places DEF SendResult
<1>2. /\ rc[j] = NewChannel /\ j \notin Range(queue) /\ j \notin Range(parked)
      /\ caller[j] \notin {"idle", "submitting"}
      /\ hand[v] = {j} /\ \A w \in Workers : w # v => j \notin hand[w]
  <2>1. hand[v] = {j}
    BY <1>1 DEF HandOfWorker
  <2>2. \A w \in Workers : w # v => j \notin hand[w]
    BY <1>1 DEF HandOfWorker
  <2>3. caller[j] \notin {"idle", "submitting"} /\ j \notin Range(queue)
    BY <1>1 DEF HeldElsewhere
  <2>4. j \notin Range(parked)
    BY <2>3 DEF QueuedFresh
  <2> QED BY <1>1, <2>1, <2>2, <2>3, <2>4 DEF HeldAsSent
<1>3. PICK ch \in Channels : Len(ch.sent) = 1 /\ ~ch.closed /\ rc' = [rc EXCEPT ![j] = ch]
  <2>1. PICK r \in Answers : rc' = [rc EXCEPT ![j] = Send(@, r)]
    BY DEF SendResult
  <2>2. Send(rc[j], r) \in Channels /\ Len(Send(rc[j], r).sent) = 1 /\ ~Send(rc[j], r).closed
    BY <1>2, SendFresh DEF Values
  <2> QED BY <2>1, <2>2
<1>5. TypeOK'
  <2>1. JobsTyped'
    BY <1>1, <1>3 DEF JobsTyped, TypeOK, WorkerStates
  <2>2. FlagsTyped'
    BY DEF FlagsTyped, TypeOK, SendResult
  <2> QED BY <2>1, <2>2 DEF TypeOK
<1>6. QueuedFresh'
  BY <1>1, <1>2, <1>3 DEF QueuedFresh
<1>7. HandOfWorker' /\ HeldElsewhere'
  <2>1. \A w \in Workers : wpc'[w] \in {"ready", "stopped"} <=> wpc[w] \in {"ready", "stopped"}
    BY <1>1
  <2>2. HandOfWorker'
    BY <1>1, <2>1 DEF HandOfWorker
  <2>3. HeldElsewhere'
    BY <1>1 DEF HeldElsewhere
  <2> QED BY <2>2, <2>3
<1>8. HeldAsSent'
  BY <1>1, <1>2, <1>3 DEF HeldAsSent
<1>9. ElsewhereSettled'
  <2>1. \A i \in Jobs : i # j => rc'[i] = rc[i]
    BY <1>1, <1>3
  <2>2. Len(rc'[j].sent) = 1 /\ ~rc'[j].closed /\ hand'[v] = {j} /\ wpc'[v] = "sent"
    BY <1>1, <1>2, <1>3
  <2>3. \A w \in Workers : wpc[w] = "sent" => wpc'[w] = "sent"
    BY <1>1
  <2>4. \A i \in Jobs : i # j /\ rc'[i].sent # <<>> /\ ~rc'[i].closed =>
            \E w \in Workers : hand'[w] = {i} /\ wpc'[w] = "sent"
    <3> SUFFICES ASSUME NEW i \in Jobs, i # j, rc[i].sent # <<>>, ~rc[i].closed
                 PROVE  \E w \in Workers : hand'[w] = {i} /\ wpc'[w] = "sent"
      BY <2>1
    <3>1. PICK w \in Workers : hand[w] = {i} /\ wpc[w] = "sent"
      BY DEF ElsewhereSettled
    <3> QED BY <3>1, <1>1, <2>3
  <2>5. \A i \in Jobs : rc'[i].sent # <<>> /\ ~rc'[i].closed =>
            \E w \in Workers : hand'[w] = {i} /\ wpc'[w] = "sent"
    BY <2>2, <2>4
  <2>6. \A i \in Jobs : rc'[i].closed => Len(rc'[i].sent) = 1
    BY <2>1, <2>2 DEF ElsewhereSettled
  <2>7. \A i \in Jobs : caller[i] = "idle" =>
           rc'[i] = NewChannel /\ i \notin Range(queue) /\ \A w \in Workers : i \notin hand[w]
    BY <1>2, <2>1 DEF ElsewhereSettled
  <2>8. \A i \in Jobs : caller[i] \in {"waiting", "answered", "timed out"} =>
            i \in Range(queue) \/ rc'[i].closed \/ \E w \in Workers : hand[w] = {i}
    BY <1>2, <2>1 DEF ElsewhereSettled
  <2> QED BY <1>1, <2>5, <2>6, <2>7, <2>8 DEF ElsewhereSettled
<1>10. ShutdownOrder'
  <2>1. \A w \in Workers : wpc'[w] = "stopped" => wpc[w] = "stopped"
    BY <1>1
  <2>2. drained => \A w \in Workers : wpc'[w] = "stopped"
    BY <1>1 DEF ShutdownOrder
  <2> QED BY <2>1, <2>2 DEF ShutdownOrder, ParkedOnlyOnFullQueue, SendResult
<1> QED BY <1>5, <1>6, <1>7, <1>8, <1>9, <1>10

\* A worker closes the channel it sent on and is ready for the next job.
LEMMA CloseStep ==
  ASSUME IInv, NEW v \in Workers, NEW j \in Jobs, CloseResult(v, j) PROVE IInv'
<1> USE DEF IInv
<1>1. /\ UNCHANGED <<queue, parked, caller>>
      /\ wpc' = [wpc EXCEPT ![v] = "ready"]
      /\ wpc \in [Workers -> WorkerStates]
      /\ hand' = [hand EXCEPT ![v] = {}]
      /\ hand \in [Workers -> SUBSET Jobs] /\ Range(queue) \subseteq Jobs
      /\ Range(parked) \subseteq Jobs
      /\ rc \in [Jobs -> Channels]
      /\ wpc[v] = "sent" /\ j \in hand[v]
  BY Places DEF CloseResult
<1>2. /\ Len(rc[j].sent) = 1 /\ j \notin Range(queue) /\ j \notin Range(parked)
      /\ caller[j] \notin {"idle", "submitting"}
      /\ hand[v] = {j} /\ \A w \in Workers : w # v => j \notin hand[w]
  <2>1. hand[v] = {j}
    BY <1>1 DEF HandOfWorker
  <2>2. \A w \in Workers : w # v => j \notin hand[w]
    BY <1>1 DEF HandOfWorker
  <2>3. caller[j] \notin {"idle", "submitting"} /\ j \notin Range(queue)
    BY <1>1 DEF HeldElsewhere
  <2>4. j \notin Range(parked)
    BY <2>3 DEF QueuedFresh
  <2> QED BY <1>1, <2>1, <2>2, <2>3, <2>4 DEF HeldAsSent
<1>3. PICK ch \in Channels : Len(ch.sent) = 1 /\ ch.closed /\ rc' = [rc EXCEPT ![j] = ch]
  <2>1. Close(rc[j]) \in Channels /\ Close(rc[j]).sent = rc[j].sent /\ Close(rc[j]).closed
    BY <1>1 DEF Close, Channels
  <2>2. rc' = [rc EXCEPT ![j] = Close(rc[j])]
    BY DEF CloseResult
  <2> QED BY <1>2, <2>1, <2>2
<1>5. TypeOK'
  <2>1. JobsTyped'
    BY <1>1, <1>3 DEF JobsTyped, TypeOK, WorkerStates
  <2>2. FlagsTyped'
    BY DEF FlagsTyped, TypeOK, CloseResult
  <2> QED BY <2>1, <2>2 DEF TypeOK
<1>6. QueuedFresh'
  BY <1>1, <1>2, <1>3 DEF QueuedFresh
<1>7. HandOfWorker' /\ HeldElsewhere'
  <2>1. hand'[v] = {} /\ wpc'[v] = "ready"
    BY <1>1
  <2>2. \A w \in Workers : w # v => hand'[w] = hand[w] /\ wpc'[w] = wpc[w]
    BY <1>1
  <2>3. HandOfWorker'
    BY <2>1, <2>2 DEF HandOfWorker
  <2>4. HeldElsewhere'
    BY <1>1, <2>1, <2>2 DEF HeldElsewhere
  <2> QED BY <2>3, <2>4
<1>8. HeldAsSent'
  BY <1>1, <1>2, <1>3 DEF HeldAsSent
<1>9. ElsewhereSettled'
  <2>1. \A i \in Jobs : i # j => rc'[i] = rc[i]
    BY <1>1, <1>3
  <2>2. Len(rc'[j].sent) = 1 /\ rc'[j].closed
    BY <1>1, <1>3
  <2>3. \A w \in Workers : \A i \in Jobs : i # j /\ hand[w] = {i} =>
            hand'[w] = {i} /\ wpc'[w] = wpc[w]
    BY <1>1, <1>2
  <2>4. \A i \in Jobs : i # j /\ rc'[i].sent # <<>> /\ ~rc'[i].closed =>
            \E w \in Workers : hand'[w] = {i} /\ wpc'[w] = "sent"
    <3> SUFFICES ASSUME NEW i \in Jobs, i # j, rc[i].sent # <<>>, ~rc[i].closed
                 PROVE  \E w \in Workers : hand'[w] = {i} /\ wpc'[w] = "sent"
      BY <2>1
    <3>1. PICK w \in Workers : hand[w] = {i} /\ wpc[w] = "sent"
      BY DEF ElsewhereSettled
    <3> QED BY <3>1, <2>3
  <2>5. \A i \in Jobs : rc'[i].sent # <<>> /\ ~rc'[i].closed =>
            \E w \in Workers : hand'[w] = {i} /\ wpc'[w] = "sent"
    BY <2>2, <2>4
  <2>6. \A i \in Jobs : rc'[i].closed => Len(rc'[i].sent) = 1
    BY <2>1, <2>2 DEF ElsewhereSettled
  <2>7. \A w \in Workers : \A i \in Jobs : i \in hand'[w] => i \in hand[w]
    BY <1>1
  <2>8. \A i \in Jobs : caller[i] = "idle" =>
           rc'[i] = NewChannel /\ i \notin Range(queue) /\ \A w \in Workers : i \notin hand'[w]
    BY <1>2, <2>1, <2>7 DEF ElsewhereSettled
  <2>9. \A i \in Jobs : caller[i] \in {"waiting", "answered", "timed out"} =>
            i \in Range(queue) \/ rc'[i].closed \/ \E w \in Workers : hand'[w] = {i}
    <3> SUFFICES ASSUME NEW i \in Jobs, i # j, i \notin Range(queue), ~rc[i].closed,
                        caller[i] \in {"waiting", "answered", "timed out"}
                 PROVE  \E w \in Workers : hand'[w] = {i}
      BY <2>1, <2>2
    <3>1. PICK w \in Workers : hand[w] = {i}
      BY DEF ElsewhereSettled
    <3> QED BY <3>1, <2>3
  <2> QED BY <1>1, <2>5, <2>6, <2>8, <2>9 DEF ElsewhereSettled
<1>10. ShutdownOrder'
  <2>1. \A w \in Workers : wpc'[w] = "stopped" => wpc[w] = "stopped"
    BY <1>1
  <2>2. drained => \A w \in Workers : wpc'[w] = "stopped"
    BY <1>1 DEF ShutdownOrder
  <2> QED BY <2>1, <2>2 DEF ShutdownOrder, ParkedOnlyOnFullQueue, CloseResult
<1> QED BY <1>5, <1>6, <1>7, <1>8, <1>9, <1>10

\* A worker that leaves its loop held nothing and left nothing in the channel.
LEMMA StopStep ==
  ASSUME IInv, NEW v \in Workers, Stop(v) PROVE IInv'
<1> USE DEF IInv
<1>1. /\ UNCHANGED <<queue, parked, hand, caller, rc>>
      /\ wpc' = [wpc EXCEPT ![v] = "stopped"]
      /\ wpc \in [Workers -> WorkerStates]
      /\ wpc[v] = "ready" /\ closed /\ queue = <<>>
  BY Places DEF Stop
<1>2. TypeOK'
  <2>1. JobsTyped'
    BY <1>1 DEF JobsTyped, TypeOK, WorkerStates
  <2>2. FlagsTyped'
    BY DEF FlagsTyped, TypeOK, Stop
  <2> QED BY <2>1, <2>2 DEF TypeOK
<1>3. QueuedFresh'
  BY <1>1 DEF QueuedFresh
<1>4. HandOfWorker' /\ HeldElsewhere' /\ HeldAsSent'
  <2>1. \A w \in Workers : wpc'[w] \in {"ready", "stopped"} <=> wpc[w] \in {"ready", "stopped"}
    BY <1>1
  <2>2. HandOfWorker'
    BY <1>1, <2>1 DEF HandOfWorker
  <2>3. HeldElsewhere'
    BY <1>1 DEF HeldElsewhere
  <2>4. HeldAsSent'
    BY <1>1 DEF HeldAsSent
  <2> QED BY <2>2, <2>3, <2>4
<1>5. ElsewhereSettled'
  <2>1. \A w \in Workers : wpc[w] = "sent" => wpc'[w] = "sent"
    BY <1>1
  <2> QED BY <1>1, <2>1 DEF ElsewhereSettled
<1>6. ShutdownOrder'
  <2>1. \A w \in Workers : wpc[w] = "stopped" => wpc'[w] = "stopped"
    BY <1>1
  <2>2. closed' /\ cancelled' = cancelled /\ drained' = drained
    BY <1>1 DEF Stop
  <2> QED BY <1>1, <2>1, <2>2 DEF ShutdownOrder, ParkedOnlyOnFullQueue
<1> QED BY <1>2, <1>3, <1>4, <1>5, <1>6

\* A worker whose call hangs or panics keeps its job, unanswered.
LEMMA StuckStep ==
  ASSUME IInv, NEW v \in Workers, Hang(v) \/ ProcessorPanics(v) PROVE IInv'
<1> USE DEF IInv
<1>1. /\ UNCHANGED <<queue, parked, hand, caller, rc, cancelled, closed, drained>>
      /\ wpc[v] = "processing"
      /\ wpc \in [Workers -> WorkerStates] /\ wpc' \in [Workers -> WorkerStates]
      /\ wpc'[v] \in {"hung", "panicked"}
      /\ \A w \in Workers : w # v => wpc'[w] = wpc[w]
  BY Places DEF Hang, ProcessorPanics, WorkerStates
<1>2. TypeOK'
  <2>1. JobsTyped'
    BY <1>1 DEF JobsTyped, TypeOK
  <2>2. FlagsTyped'
    BY DEF FlagsTyped, TypeOK, Hang, ProcessorPanics
  <2> QED BY <2>1, <2>2 DEF TypeOK
<1>3. QueuedFresh'
  BY <1>1 DEF QueuedFresh
<1>4. HandOfWorker' /\ HeldElsewhere' /\ HeldAsSent'
  <2>1. \A w \in Workers : wpc'[w] \in {"ready", "stopped"} <=> wpc[w] \in {"ready", "stopped"}
    BY <1>1
  <2>2. HandOfWorker'
    BY <1>1, <2>1 DEF HandOfWorker
  <2>3. HeldElsewhere'
    BY <1>1 DEF HeldElsewhere
  <2>4. \A w \in Workers : wpc'[w] \in {"processing", "sent"} => wpc'[w] = wpc[w]
    BY <1>1
  <2>5. HeldAsSent'
    BY <1>1, <2>4 DEF HeldAsSent
  <2> QED BY <2>2, <2>3, <2>5
<1>5. ElsewhereSettled'
  <2>1. \A w \in Workers : wpc[w] = "sent" => wpc'[w] = "sent"
    BY <1>1
  <2> QED BY <1>1, <2>1 DEF ElsewhereSettled
<1>6. ShutdownOrder'
  <2>1. \A w \in Workers : wpc'[w] = "stopped" <=> wpc[w] = "stopped"
    BY <1>1
  <2> QED BY <1>1, <2>1 DEF ShutdownOrder, ParkedOnlyOnFullQueue
<1> QED BY <1>2, <1>3, <1>4, <1>5, <1>6

\* p.cancel(): every parked job is refused at once, the others are untouched.
LEMMA CancelStep ==
  ASSUME IInv, Cancel PROVE IInv'
<1> USE DEF IInv
<1>1. /\ UNCHANGED <<queue, hand, wpc, closed, drained, panicked>>
      /\ parked' = <<>> /\ cancelled' = TRUE
      /\ caller \in [Jobs -> Callers] /\ rc \in [Jobs -> Channels]
      /\ hand \in [Workers -> SUBSET Jobs] /\ Range(queue) \subseteq Jobs
      /\ Range(parked) \subseteq Jobs
  BY Places DEF Cancel
<1>2. Range(parked') = {} /\ IsInjective(parked')
  BY <1>1, EmptySequence
<1>3. \A j \in Range(parked) :
         rc[j] = NewChannel /\ caller[j] = "submitting" /\ j \notin Range(queue)
  BY <1>1 DEF QueuedFresh
<1>4. \A j \in Range(parked) : \A w \in Workers : j \notin hand[w]
  BY <1>3 DEF HeldElsewhere
<1>5. /\ \A j \in Jobs : j \in Range(parked) =>
            /\ caller'[j] = "waiting" /\ rc'[j] \in Channels
            /\ Len(rc'[j].sent) = 1 /\ rc'[j].closed
      /\ \A j \in Jobs : j \notin Range(parked) => caller'[j] = caller[j] /\ rc'[j] = rc[j]
      /\ DOMAIN caller' = Jobs /\ DOMAIN rc' = Jobs
  <2> DEFINE ch == Close(Send(NewChannel, ShutDownError))
  <2>1. Send(NewChannel, ShutDownError) \in Channels /\ Len(Send(NewChannel, ShutDownError).sent) = 1
    BY SendFresh DEF Values
  <2>2. ch \in Channels /\ ch.closed /\ Len(ch.sent) = 1
    BY <2>1 DEF Close, Channels
  <2>3. \A j \in Jobs : j \in Range(parked) => caller'[j] = "waiting" /\ rc'[j] = ch
    BY <1>3 DEF Cancel
  <2>4. /\ \A j \in Jobs : j \notin Range(parked) => caller'[j] = caller[j] /\ rc'[j] = rc[j]
        /\ DOMAIN caller' = Jobs /\ DOMAIN rc' = Jobs
    BY DEF Cancel
  <2> QED BY <2>2, <2>3, <2>4
<1>6. TypeOK'
  <2>1. caller' \in [Jobs -> Callers]
    <3>1. caller' = [j \in Jobs |-> caller'[j]]
      BY DEF Cancel
    <3>2. \A j \in Jobs : caller'[j] \in Callers
      BY <1>1, <1>5 DEF Callers
    <3> QED BY <3>1, <3>2
  <2>2. rc' \in [Jobs -> Channels]
    <3>1. rc' = [j \in Jobs |-> rc'[j]]
      BY DEF Cancel
    <3>2. \A j \in Jobs : rc'[j] \in Channels
      BY <1>1, <1>5
    <3> QED BY <3>1, <3>2
  <2>3. JobsTyped'
    BY <1>1, <2>1, <2>2 DEF JobsTyped, TypeOK, WorkerStates
  <2>4. FlagsTyped'
    BY DEF FlagsTyped, TypeOK, Cancel
  <2> QED BY <2>3, <2>4 DEF TypeOK
<1>7. QueuedFresh'
  <2>1. \A j \in Jobs : caller'[j] # "submitting"
    BY <1>5 DEF QueuedFresh
  <2>2. \A j \in Range(queue) : rc'[j] = rc[j] /\ caller'[j] = caller[j]
    BY <1>1, <1>3, <1>5
  <2> QED BY <1>1, <1>2, <2>1, <2>2 DEF QueuedFresh
<1>8. \A w \in Workers : \A j \in hand[w] : rc'[j] = rc[j] /\ caller'[j] = caller[j]
  BY <1>1, <1>4, <1>5
<1>9. HandOfWorker' /\ HeldElsewhere' /\ HeldAsSent'
  <2>1. HandOfWorker'
    BY <1>1 DEF HandOfWorker
  <2>2. HeldElsewhere'
    BY <1>1, <1>8 DEF HeldElsewhere
  <2>3. HeldAsSent'
    BY <1>1, <1>8 DEF HeldAsSent
  <2> QED BY <2>1, <2>2, <2>3
<1>10. ElsewhereSettled'
  <2>1. \A j \in Jobs : j \notin Range(parked) =>
           /\ caller'[j] = "idle" =>
                rc'[j] = NewChannel /\ j \notin Range(queue) /\ \A w \in Workers : j \notin hand[w]
           /\ rc'[j].closed => Len(rc'[j].sent) = 1
           /\ caller'[j] \in {"waiting", "answered", "timed out"} =>
                j \in Range(queue) \/ rc'[j].closed \/ \E w \in Workers : hand[w] = {j}
           /\ rc'[j].sent # <<>> /\ ~rc'[j].closed =>
                \E w \in Workers : hand[w] = {j} /\ wpc[w] = "sent"
    BY <1>5 DEF ElsewhereSettled
  <2>2. \A j \in Jobs : j \in Range(parked) =>
           caller'[j] = "waiting" /\ rc'[j].closed /\ Len(rc'[j].sent) = 1
    BY <1>5
  <2> QED BY <1>1, <2>1, <2>2 DEF ElsewhereSettled
<1>11. ShutdownOrder'
  BY <1>1 DEF ShutdownOrder, ParkedOnlyOnFullQueue
<1> QED BY <1>6, <1>7, <1>9, <1>10, <1>11

\* What the invariant says of jobs and workers reads only the variables about them.
LEMMA SamePlaces ==
  ASSUME IInv, UNCHANGED <<queue, parked, hand, wpc, rc, caller>>
  PROVE  QueuedFresh' /\ HandOfWorker' /\ HeldElsewhere' /\ HeldAsSent' /\ ElsewhereSettled'
<1> USE DEF IInv
<1>1. QueuedFresh'
  BY DEF QueuedFresh
<1>2. HandOfWorker'
  BY DEF HandOfWorker
<1>3. HeldElsewhere'
  BY DEF HeldElsewhere
<1>4. HeldAsSent'
  BY DEF HeldAsSent
<1>5. ElsewhereSettled'
  BY DEF ElsewhereSettled
<1> QED BY <1>1, <1>2, <1>3, <1>4, <1>5

\* The steps that touch no job: close(p.jobs), the return of wg.Wait, a panic.
LEMMA FlagStep ==
  ASSUME IInv, CloseJobs \/ WaitReturns \/ (\E j \in Jobs : SubmitOnClosed(j)) PROVE IInv'
<1> USE DEF IInv
<1>1. UNCHANGED <<queue, parked, hand, wpc, rc, caller>>
  BY DEF CloseJobs, WaitReturns, SubmitOnClosed
<1>2. TypeOK'
  <2>1. JobsTyped'
    BY <1>1 DEF JobsTyped, TypeOK, WorkerStates
  <2>2. FlagsTyped'
    BY DEF FlagsTyped, TypeOK, CloseJobs, WaitReturns, SubmitOnClosed
  <2> QED BY <2>1, <2>2 DEF TypeOK
<1>3. QueuedFresh' /\ HandOfWorker' /\ HeldElsewhere' /\ HeldAsSent' /\ ElsewhereSettled'
  BY <1>1, SamePlaces
<1>4. ShutdownOrder'
  BY <1>1 DEF ShutdownOrder, ParkedOnlyOnFullQueue, CloseJobs, WaitReturns, SubmitOnClosed
<1> QED BY <1>2, <1>3, <1>4

\* Every step of the pool, and every stuttering step, keeps the invariant.
LEMMA NextIInv == IInv /\ [Next]_vars => IInv'
<1> SUFFICES ASSUME IInv, [Next]_vars PROVE IInv'
  OBVIOUS
<1>1. CASE UNCHANGED vars
  <2>1. UNCHANGED <<queue, parked, hand, wpc, rc, caller>> /\ UNCHANGED <<cancelled, closed, drained, panicked>>
    BY <1>1 DEF vars
  <2>2. JobsTyped'
    BY <2>1 DEF JobsTyped, IInv, TypeOK
  <2>3. FlagsTyped'
    BY <2>1 DEF FlagsTyped, IInv, TypeOK
  <2>4. ShutdownOrder'
    BY <2>1 DEF IInv, ShutdownOrder, ParkedOnlyOnFullQueue
  <2> QED BY <2>1, <2>2, <2>3, <2>4, SamePlaces DEF IInv, TypeOK
<1>2. ASSUME NEW j \in Jobs, Submit(j) PROVE IInv'
  BY <1>2, EnqueueStep, ParkStep, RefuseStep, FlagStep DEF Submit
<1>3. ASSUME NEW j \in Jobs, HandlerReturns(j) PROVE IInv'
  BY <1>3, AnswersStep, TimesOutStep DEF HandlerReturns
<1>4. ASSUME NEW w \in Workers, WorkerStep(w) PROVE IInv'
  BY <1>4, ReceiveStep, SendStep, CloseStep, StopStep DEF WorkerStep
<1>5. ASSUME NEW w \in Workers, Hang(w) \/ ProcessorPanics(w) PROVE IInv'
  BY <1>5, StuckStep
<1>6. CASE Shutdown
  BY <1>6, CancelStep, FlagStep DEF Shutdown
<1> QED BY <1>1, <1>2, <1>3, <1>4, <1>5, <1>6 DEF Next

\* The invariant holds in every reachable state.
THEOREM Invariance == Spec => []IInv
<1>1. Init => IInv
  BY InitIInv
<1>2. IInv /\ [Next]_vars => IInv'
  BY NextIInv
<1> QED BY <1>1, <1>2, PTL DEF Spec

-------------------------------------------------------------------------------
(* The properties the runs check.                                          *)

\* Types are kept, and the buffer of p.jobs never exceeds its capacity.
THEOREM PoolTyped == Spec => []TypeOK
<1>1. IInv => TypeOK
  BY DEF IInv
<1> QED BY <1>1, Invariance, PTL

\* Every result channel gets exactly one value and is closed after it (pool.go:99).
THEOREM PoolAnswersOnce == Spec => []ExactlyOneValue
<1>1. IInv => ExactlyOneValue
  BY FreshChannel DEF IInv, QueuedFresh, ElsewhereSettled, ExactlyOneValue, Settled
<1> QED BY <1>1, Invariance, PTL

\* No accepted job is lost, held twice or processed twice.
THEOREM PoolKeepsJobs == Spec => []EveryJobInOnePlace
<1>1. ASSUME IInv PROVE EveryJobInOnePlace
  <2> USE <1>1 DEF IInv
  <2>1. \A j \in Jobs : caller[j] \in {"waiting", "answered", "timed out"} =>
           j \in Accepted \cup Settled
    BY DEF ElsewhereSettled, Accepted, Settled, Held
  <2>2. \A j \in Jobs : caller[j] = "submitting" <=> j \in Range(parked)
    BY DEF QueuedFresh
  <2>3. \A w, x \in Workers : w # x => hand[w] \cap hand[x] = {}
    BY DEF HandOfWorker
  <2>4. Range(queue) \cap Held = {}
    BY DEF HeldElsewhere, Held
  <2>5. Range(parked) \cap Range(queue) = {}
    BY Places DEF QueuedFresh
  <2>6. Range(parked) \cap Held = {}
    <3>1. \A j \in Range(parked) : \A w \in Workers : j \notin hand[w]
      BY Places DEF QueuedFresh, HeldElsewhere
    <3> QED BY <3>1 DEF Held
  <2>7. Settled \cap (Range(queue) \cup Range(parked)) = {}
    BY FreshChannel DEF QueuedFresh, Settled
  <2>8. Settled \cap Held = {}
    BY DEF HeldAsSent, Settled, Held
  <2>9. IsInjective(queue) /\ IsInjective(parked) /\ \A w \in Workers : \A i, k \in hand[w] : i = k
    BY DEF QueuedFresh, HandOfWorker
  <2> QED BY <2>1, <2>2, <2>3, <2>4, <2>5, <2>6, <2>7, <2>8, <2>9 DEF EveryJobInOnePlace, Accepted
<1> QED BY <1>1, Invariance, PTL

\* No send is ever parked on a channel that is being closed.
THEOREM PoolParksOnFull == Spec => []ParkedOnlyOnFullQueue
<1>1. IInv => ParkedOnlyOnFullQueue
  BY DEF IInv, ShutdownOrder
<1> QED BY <1>1, Invariance, PTL

\* When Shutdown returns, every job it had accepted has been processed (pool.go:139).
THEOREM PoolDrains == Spec => []DrainedAfterShutdown
<1>1. ASSUME IInv PROVE DrainedAfterShutdown
  <2> SUFFICES ASSUME drained PROVE Accepted = {} /\ parked = <<>>
    BY DEF DrainedAfterShutdown
  <2> USE <1>1 DEF IInv
  <2>1. \A w \in Workers : wpc[w] = "stopped"
    BY DEF ShutdownOrder
  <2>2. closed /\ queue = <<>>
    BY <2>1, PoolAssumption DEF ShutdownOrder
  <2>3. Held = {}
    BY <2>1 DEF HandOfWorker, Held
  <2>4. Range(queue) = {}
    BY <2>2, EmptySequence
  <2>5. parked = <<>>
    BY <2>2 DEF ShutdownOrder, ParkedOnlyOnFullQueue
  <2> QED BY <2>3, <2>4, <2>5 DEF Accepted
<1> QED BY <1>1, Invariance, PTL

-------------------------------------------------------------------------------
(* The pool implements the service of JobService: the line is the buffer   *)
(* followed by the parked sends, a receive serves its head, the close of a *)
(* result channel answers, and the cancellation cuts off the parked sends. *)

\* What a worker has sent is an answer, not Submit's error.
SentIsAnswer ==
    \A w \in Workers : \A i \in hand[w] : wpc[w] = "sent" => rc[i].sent[1] \in Answers

Line == queue \o parked
AnsweredJobs == {j \in Settled : rc[j].sent[1] \in Answers}
RefusedJobs == {j \in Settled : rc[j].sent[1] = ShutDownError}

-------------------------------------------------------------------------------
\* The first value sent on a new channel is the one that was sent.
LEMMA FirstSent ==
  ASSUME NEW v \in Values
  PROVE  /\ Send(NewChannel, v) \in Channels
         /\ Send(NewChannel, v).sent[1] = v
         /\ ~Send(NewChannel, v).closed
<1>1. Send(NewChannel, v).sent = Append(<<>>, v)
  BY FreshChannel DEF Send, Channels
<1>2. Append(<<>>, v)[1] = v
  OBVIOUS
<1> QED BY <1>1, <1>2, SendFresh

\* Closing a channel leaves what was sent.
LEMMA ClosedKeeps ==
  ASSUME NEW ch \in Channels
  PROVE  Close(ch) \in Channels /\ Close(ch).closed /\ Close(ch).sent = ch.sent
BY DEF Close, Channels

\* The refusal of Submit, on a new channel.
LEMMA RefusedChannel ==
  LET ch == Close(Send(NewChannel, ShutDownError)) IN
  ch.closed /\ ch.sent[1] = ShutDownError /\ ch \in Channels
BY FirstSent, ClosedKeeps DEF Values

\* Who may have sent is kept by every step: only SendResult sends on the channel of a held job.
LEMMA SentStep ==
  ASSUME IInv, SentIsAnswer, [Next]_vars
  PROVE  SentIsAnswer'
<1> USE DEF IInv
<1>0. /\ rc \in [Jobs -> Channels] /\ hand \in [Workers -> SUBSET Jobs]
      /\ wpc \in [Workers -> WorkerStates]
      /\ Range(parked) \subseteq Jobs
  BY Places
<1>1. CASE UNCHANGED <<hand, wpc, rc>>
  BY <1>1 DEF SentIsAnswer
<1>2. ASSUME NEW j \in Jobs, SubmitRefuse(j) PROVE SentIsAnswer'
  <2>1. UNCHANGED <<hand, wpc>> /\ \A i \in Jobs \ {j} : rc'[i] = rc[i]
    BY <1>0, <1>2 DEF SubmitRefuse
  <2>2. \A w \in Workers : j \notin hand[w]
    BY <1>2 DEF ElsewhereSettled, SubmitRefuse
  <2> QED BY <1>0, <2>1, <2>2 DEF SentIsAnswer
<1>3. ASSUME NEW j \in Jobs, HandlerAnswers(j) PROVE SentIsAnswer'
  <2>1. UNCHANGED <<hand, wpc>> /\ \A i \in Jobs : rc'[i].sent = rc[i].sent
    BY <1>0, <1>3 DEF HandlerAnswers, Channels
  <2> QED BY <1>0, <2>1 DEF SentIsAnswer
<1>4. ASSUME NEW w \in Workers, Receive(w) PROVE SentIsAnswer'
  <2>1. rc' = rc /\ wpc'[w] = "processing"
        /\ \A x \in Workers \ {w} : wpc'[x] = wpc[x] /\ hand'[x] = hand[x]
    BY <1>0, <1>4 DEF Receive
  <2> QED BY <2>1 DEF SentIsAnswer
<1>5. ASSUME NEW w \in Workers, NEW j \in Jobs, SendResult(w, j) PROVE SentIsAnswer'
  <2>1. PICK v \in Answers : rc' = [rc EXCEPT ![j] = Send(rc[j], v)]
    BY <1>5 DEF SendResult
  <2>2. rc[j] = NewChannel
    BY <1>5 DEF HeldAsSent, SendResult
  <2>3. rc'[j].sent[1] \in Answers /\ \A i \in Jobs \ {j} : rc'[i] = rc[i]
    BY <1>0, <2>1, <2>2, FirstSent DEF Values
  <2>4. hand' = hand /\ \A x \in Workers \ {w} : wpc'[x] = wpc[x]
    BY <1>0, <1>5 DEF SendResult
  <2>5. \A i \in hand[w] : i = j
    BY <1>5 DEF HandOfWorker, SendResult
  <2> QED BY <1>0, <2>3, <2>4, <2>5 DEF SentIsAnswer
<1>6. ASSUME NEW w \in Workers, NEW j \in Jobs, CloseResult(w, j) PROVE SentIsAnswer'
  <2>1. rc'[j].sent = rc[j].sent /\ \A i \in Jobs \ {j} : rc'[i] = rc[i]
    BY <1>0, <1>6, ClosedKeeps DEF CloseResult
  <2>2. hand'[w] = {} /\ \A x \in Workers \ {w} : hand'[x] = hand[x] /\ wpc'[x] = wpc[x]
    BY <1>0, <1>6 DEF CloseResult
  <2> QED BY <1>0, <2>1, <2>2 DEF SentIsAnswer
<1>7. ASSUME NEW w \in Workers, Stop(w) PROVE SentIsAnswer'
  <2>1. UNCHANGED <<hand, rc>> /\ \A x \in Workers : wpc'[x] = "sent" => wpc[x] = "sent"
    BY <1>0, <1>7 DEF Stop
  <2> QED BY <2>1 DEF SentIsAnswer
<1>8. ASSUME Cancel PROVE SentIsAnswer'
  <2>1. UNCHANGED <<hand, wpc>> /\ \A i \in Jobs : i \notin Range(parked) => rc'[i] = rc[i]
    BY <1>8 DEF Cancel
  <2>2. \A w \in Workers : \A i \in hand[w] : i \notin Range(parked)
    BY <1>0 DEF QueuedFresh, HeldElsewhere
  <2> QED BY <1>0, <2>1, <2>2 DEF SentIsAnswer
<1>9. CASE UNCHANGED vars
  BY <1>1, <1>9 DEF vars
<1>10. ASSUME NEW j \in Jobs, SubmitEnqueue(j) \/ SubmitPark(j) \/ SubmitOnClosed(j) \/ HandlerTimesOut(j)
       PROVE  SentIsAnswer'
  BY <1>1, <1>10 DEF SubmitEnqueue, SubmitPark, SubmitOnClosed, HandlerTimesOut
<1>11. CASE CloseJobs \/ WaitReturns
  BY <1>1, <1>11 DEF CloseJobs, WaitReturns
<1>12. ASSUME NEW w \in Workers, Hang(w) \/ ProcessorPanics(w) PROVE SentIsAnswer'
  <2>1. UNCHANGED <<hand, rc>> /\ \A x \in Workers : wpc'[x] = "sent" => wpc[x] = "sent"
    BY <1>0, <1>12 DEF Hang, ProcessorPanics
  <2> QED BY <2>1 DEF SentIsAnswer
<1> QED
  BY <1>2, <1>3, <1>4, <1>5, <1>6, <1>7, <1>8, <1>9, <1>10, <1>11, <1>12
     DEF Next, Submit, HandlerReturns, WorkerStep, Shutdown

-------------------------------------------------------------------------------
(* What a step of the pool is for the service.                             *)

\* The service's variables, and its guard against handing in a job twice.
LEMMA Mapping ==
  ASSUME TypeOK
  PROVE  /\ Line \in Seq(Jobs) /\ Len(Line) = Len(queue) + Len(parked)
         /\ Promise!Waiting = Range(queue) \cup Range(parked)
<1>1. queue \in Seq(Jobs) /\ parked \in Seq(Jobs)
  BY Places
<1>2. Line \in Seq(Jobs) /\ Len(Line) = Len(queue) + Len(parked)
  BY <1>1 DEF Line
<1>3. Range(Line) = {Line[i] : i \in 1..Len(Line)}
  BY <1>2, SequenceRange
<1>4. Range(Line) = Range(queue) \cup Range(parked)
  BY <1>1, RangeConcat DEF Line
<1> QED BY <1>2, <1>3, <1>4 DEF Promise!Waiting, Line

\* A step that settles no job, starts none and hands none in is a stutter of the service.
LEMMA Stutter ==
  ASSUME UNCHANGED <<queue, parked, hand, panicked>>,
         \A j \in Jobs : /\ rc'[j].closed <=> rc[j].closed
                         /\ rc[j].closed => rc'[j].sent = rc[j].sent
  PROVE  UNCHANGED Promise!jsVars
<1>1. Settled' = Settled
  BY DEF Settled
<1>2. AnsweredJobs' = AnsweredJobs /\ RefusedJobs' = RefusedJobs
  BY <1>1 DEF AnsweredJobs, RefusedJobs, Settled
<1>3. Held' = Held
  BY DEF Held
<1> QED BY <1>2, <1>3 DEF Promise!jsVars, AnsweredJobs, RefusedJobs

\* A job whose handler has not called Submit is nowhere.
LEMMA IdleIsNowhere ==
  ASSUME IInv, NEW j \in Jobs, caller[j] = "idle"
  PROVE  j \notin Promise!Waiting \cup Held \cup Settled
<1> USE DEF IInv
<1>1. j \notin Range(queue) /\ rc[j] = NewChannel /\ \A w \in Workers : j \notin hand[w]
  BY DEF ElsewhereSettled
<1>2. j \notin Range(parked)
  BY DEF QueuedFresh
<1> QED BY <1>1, <1>2, Mapping, FreshChannel DEF Held, Settled

LEMMA SubmitMaps ==
  ASSUME IInv, ~panicked, NEW j \in Jobs, Submit(j)
  PROVE  Promise!JSNext
<1> USE DEF IInv
<1>0. queue \in Seq(Jobs) /\ parked \in Seq(Jobs) /\ rc \in [Jobs -> Channels]
      /\ Len(queue) \in Nat /\ Len(queue) =< QueueSize
  BY Places
<1>1. caller[j] = "idle"
  BY DEF Submit, SubmitEnqueue, SubmitPark, SubmitRefuse, SubmitOnClosed
<1>2. j \notin Promise!Waiting \cup Held \cup Settled
  BY <1>1, IdleIsNowhere
<1>3. ASSUME queue' \o parked' = Append(Line, j), UNCHANGED <<hand, rc, panicked>> PROVE Promise!HandIn(j)
  <2>1. Held' = Held /\ Settled' = Settled
    BY <1>3 DEF Held, Settled
  <2>2. AnsweredJobs' = AnsweredJobs /\ RefusedJobs' = RefusedJobs
    BY <1>3, <2>1 DEF AnsweredJobs, RefusedJobs
  <2> QED BY <1>2, <1>3, <2>1, <2>2 DEF Promise!HandIn, Line, AnsweredJobs, RefusedJobs
<1>4. CASE SubmitEnqueue(j)
  <2>1. parked = <<>> /\ parked' = parked /\ queue' = Append(queue, j)
    BY <1>0, <1>4 DEF SubmitEnqueue, ShutdownOrder, ParkedOnlyOnFullQueue
  <2>2. queue' \o parked' = Append(Line, j)
    BY <1>0, <2>1 DEF Line
  <2> QED BY <1>3, <1>4, <2>2 DEF SubmitEnqueue, Promise!JSNext
<1>5. CASE SubmitPark(j)
  <2>1. queue \o Append(parked, j) = Append(queue \o parked, j)
    BY <1>0
  <2> QED BY <1>3, <1>5, <2>1 DEF SubmitPark, Line, Promise!JSNext
<1>6. CASE SubmitRefuse(j)
  <2>1. rc[j] = NewChannel
    BY <1>1 DEF ElsewhereSettled
  <2>2. rc'[j].closed /\ rc'[j].sent[1] = ShutDownError /\ \A i \in Jobs \ {j} : rc'[i] = rc[i]
    BY <1>0, <1>6, <2>1, RefusedChannel DEF SubmitRefuse
  <2>3. Settled' = Settled \cup {j}
    BY <2>2 DEF Settled
  <2>4. AnsweredJobs' = AnsweredJobs
    BY <1>2, <2>2, <2>3 DEF AnsweredJobs, Settled, Answers, ShutDownError
  <2>5. RefusedJobs' = RefusedJobs \cup {j}
    BY <1>2, <2>2, <2>3 DEF RefusedJobs, Settled
  <2>6. Held' = Held /\ queue' \o parked' = queue \o parked /\ panicked' = panicked
    BY <1>6 DEF SubmitRefuse, Held
  <2>7. Promise!Refuse(j)
    BY <1>2, <2>4, <2>5, <2>6 DEF Promise!Refuse, AnsweredJobs, RefusedJobs
  <2> QED BY <2>7 DEF Promise!JSNext
<1>7. CASE SubmitOnClosed(j)
  <2>1. Held' = Held /\ Settled' = Settled /\ UNCHANGED <<queue, parked, rc>> /\ panicked'
    BY <1>7 DEF SubmitOnClosed, Held, Settled
  <2>2. Promise!Fail
    BY <2>1 DEF Promise!Fail
  <2> QED BY <2>2 DEF Promise!JSNext
<1> QED BY <1>4, <1>5, <1>6, <1>7 DEF Submit

LEMMA ReceiveMaps ==
  ASSUME IInv, ~panicked, NEW w \in Workers, Receive(w)
  PROVE  Promise!Serve
<1> USE DEF IInv
<1>0. /\ queue \in Seq(Jobs) /\ parked \in Seq(Jobs) /\ queue # <<>>
      /\ hand \in [Workers -> SUBSET Jobs] /\ hand[w] = {}
      /\ UNCHANGED <<rc, panicked>>
  BY Places DEF Receive, HandOfWorker
<1>1. queue' \o parked' = Tail(queue \o parked) /\ Head(queue \o parked) = Head(queue)
      /\ queue \o parked # <<>>
  <2>1. queue' = Refill(Tail(queue), parked) /\ parked' = Unparked(parked)
    BY DEF Receive
  <2>2. CASE parked = <<>>
    BY <1>0, <2>1, <2>2 DEF Refill, Unparked
  <2>3. CASE parked # <<>>
    <3>1. queue' = Append(Tail(queue), Head(parked)) /\ parked' = Tail(parked)
      BY <2>1, <2>3 DEF Refill, Unparked
    <3>2. Append(Tail(queue), Head(parked)) \o Tail(parked) = Tail(queue) \o parked
      BY <1>0, <2>3
    <3>3. Tail(queue) \o parked = Tail(queue \o parked)
      BY <1>0
    <3>4. Head(queue \o parked) = Head(queue) /\ queue \o parked # <<>>
      BY <1>0
    <3> QED BY <3>1, <3>2, <3>3, <3>4
  <2> QED BY <2>2, <2>3
<1>2. Held' = Held \cup {Head(queue)}
  <2>1. hand'[w] = {Head(queue)} /\ \A x \in Workers \ {w} : hand'[x] = hand[x]
    BY <1>0 DEF Receive
  <2> QED BY <1>0, <2>1 DEF Held
<1>3. Settled' = Settled
  BY <1>0 DEF Settled
<1>4. AnsweredJobs' = AnsweredJobs /\ RefusedJobs' = RefusedJobs
  BY <1>0, <1>3 DEF AnsweredJobs, RefusedJobs
<1> QED BY <1>0, <1>1, <1>2, <1>4 DEF Promise!Serve, AnsweredJobs, RefusedJobs

LEMMA CloseMaps ==
  ASSUME IInv, SentIsAnswer, ~panicked, NEW w \in Workers, NEW j \in Jobs, CloseResult(w, j)
  PROVE  Promise!Answer(j)
<1> USE DEF IInv
<1>0. /\ rc \in [Jobs -> Channels] /\ hand \in [Workers -> SUBSET Jobs]
      /\ j \in hand[w] /\ wpc[w] = "sent" /\ UNCHANGED <<queue, parked, panicked>>
  BY Places DEF CloseResult
<1>1. rc'[j].closed /\ rc'[j].sent = rc[j].sent /\ \A i \in Jobs \ {j} : rc'[i] = rc[i]
  BY <1>0, ClosedKeeps DEF CloseResult
<1>2. rc[j].sent[1] \in Answers /\ ~rc[j].closed
  BY <1>0 DEF SentIsAnswer, HeldAsSent
<1>3. Settled' = Settled \cup {j} /\ j \notin Settled
  BY <1>1, <1>2 DEF Settled
<1>4. AnsweredJobs' = AnsweredJobs \cup {j} /\ RefusedJobs' = RefusedJobs
  <2>1. rc'[j].sent[1] \in Answers /\ rc'[j].sent[1] # ShutDownError
    BY <1>1, <1>2 DEF Answers, ShutDownError
  <2>2. \A i \in Settled : rc'[i].sent = rc[i].sent
    BY <1>1, <1>3 DEF Settled
  <2>3. AnsweredJobs' = AnsweredJobs \cup {j}
    BY <1>3, <2>1, <2>2 DEF AnsweredJobs
  <2>4. RefusedJobs' = RefusedJobs
    BY <1>3, <2>1, <2>2 DEF RefusedJobs
  <2> QED BY <2>3, <2>4
<1>5. Held' = Held \ {j} /\ j \in Held
  <2>1. hand'[w] = {} /\ \A x \in Workers \ {w} : hand'[x] = hand[x]
    BY <1>0 DEF CloseResult
  <2>2. \A i \in hand[w] : i = j
    BY <1>0 DEF HandOfWorker
  <2>3. \A x \in Workers \ {w} : j \notin hand[x]
    BY <1>0 DEF HandOfWorker
  <2> QED BY <1>0, <2>1, <2>2, <2>3 DEF Held
<1> QED BY <1>0, <1>4, <1>5 DEF Promise!Answer, AnsweredJobs, RefusedJobs

LEMMA CancelMaps ==
  ASSUME IInv, ~panicked, Cancel
  PROVE  Promise!CutOff(Len(queue)) /\ Len(queue) \in 0..Len(Line)
<1> USE DEF IInv
<1>0. /\ queue \in Seq(Jobs) /\ parked \in Seq(Jobs) /\ Len(queue) \in Nat /\ Len(parked) \in Nat
      /\ Line \in Seq(Jobs) /\ Len(Line) = Len(queue) + Len(parked)
      /\ queue' = queue /\ parked' = <<>> /\ UNCHANGED <<hand, panicked>>
      /\ Range(parked) \subseteq Jobs
  BY Places, Mapping DEF Cancel
<1>1. queue' \o parked' = SubSeq(Line, 1, Len(queue))
  <2>1. queue' \o parked' = queue
    BY <1>0
  <2>2. SubSeq(queue \o parked, 1, Len(queue)) = queue
    BY <1>0
  <2> QED BY <2>1, <2>2 DEF Line
<1>2. {Line[i] : i \in (Len(queue) + 1)..Len(Line)} = Range(parked)
  <2>1. \A i \in (Len(queue) + 1)..Len(Line) : Line[i] = parked[i - Len(queue)] /\ i - Len(queue) \in 1..Len(parked)
    BY <1>0 DEF Line
  <2>2. \A i \in 1..Len(parked) : Line[Len(queue) + i] = parked[i] /\ Len(queue) + i \in (Len(queue) + 1)..Len(Line)
    BY <1>0 DEF Line
  <2>3. Range(parked) = {parked[i] : i \in 1..Len(parked)}
    BY <1>0, SequenceRange
  <2>4. {Line[i] : i \in (Len(queue) + 1)..Len(Line)} \subseteq Range(parked)
    BY <2>1, <2>3
  <2>5. ASSUME NEW i \in 1..Len(parked) PROVE parked[i] \in {Line[k] : k \in (Len(queue) + 1)..Len(Line)}
    BY <2>2
  <2>6. Range(parked) \subseteq {Line[i] : i \in (Len(queue) + 1)..Len(Line)}
    BY <2>3, <2>5
  <2> QED BY <2>4, <2>6
<1>3. ASSUME NEW j \in Jobs
      PROVE  IF j \in Range(parked) THEN ~rc[j].closed /\ rc'[j].closed /\ rc'[j].sent[1] = ShutDownError
             ELSE rc'[j] = rc[j]
  <2>1. CASE j \in Range(parked)
    <3>1. rc[j] = NewChannel
      BY <2>1 DEF QueuedFresh
    <3>2. rc'[j] = Close(Send(rc[j], ShutDownError))
      BY <2>1 DEF Cancel
    <3> QED BY <2>1, <3>1, <3>2, RefusedChannel, FreshChannel
  <2>2. CASE j \notin Range(parked)
    BY <2>2 DEF Cancel
  <2> QED BY <2>1, <2>2
<1>4. Settled' = Settled \cup Range(parked) /\ Settled \cap Range(parked) = {}
  BY <1>0, <1>3 DEF Settled
<1>5. AnsweredJobs' = AnsweredJobs
  BY <1>0, <1>3, <1>4 DEF AnsweredJobs, Settled, Answers, ShutDownError
<1>6. RefusedJobs' = RefusedJobs \cup Range(parked)
  BY <1>0, <1>3, <1>4 DEF RefusedJobs, Settled
<1>7. Held' = Held
  BY <1>0 DEF Held
<1> QED
  BY <1>0, <1>1, <1>2, <1>5, <1>6, <1>7 DEF Promise!CutOff, Line, AnsweredJobs, RefusedJobs

\* Every step of the pool is one of the service, or none.
LEMMA NextMaps ==
  ASSUME IInv, SentIsAnswer, [Next]_vars
  PROVE  [Promise!JSNext]_Promise!jsVars
<1>0. rc \in [Jobs -> Channels]
  BY Places DEF IInv
<1>1. CASE UNCHANGED vars
  BY <1>1, Stutter DEF vars
<1>2. ASSUME ~panicked, NEW j \in Jobs, HandlerReturns(j) PROVE UNCHANGED Promise!jsVars
  <2>1. \A i \in Jobs : (rc'[i].closed <=> rc[i].closed) /\ rc'[i].sent = rc[i].sent
    <3>1. CASE HandlerAnswers(j)
      <4>1. rc[j] \in Channels /\ rc' = [rc EXCEPT ![j] = [rc[j] EXCEPT !.taken = @ + 1]]
        BY <1>0, <3>1 DEF HandlerAnswers
      <4>2. LET ch == [rc[j] EXCEPT !.taken = @ + 1] IN ch.closed = rc[j].closed /\ ch.sent = rc[j].sent
        BY <4>1 DEF Channels
      <4> QED BY <1>0, <4>1, <4>2
    <3>2. CASE HandlerTimesOut(j)
      BY <3>2 DEF HandlerTimesOut
    <3> QED BY <1>2, <3>1, <3>2 DEF HandlerReturns
  <2>2. UNCHANGED <<queue, parked, hand, panicked>>
    BY <1>2 DEF HandlerReturns, HandlerAnswers, HandlerTimesOut
  <2> QED BY <2>1, <2>2, Stutter
<1>3. ASSUME ~panicked, NEW w \in Workers, WorkerStep(w) PROVE [Promise!JSNext]_Promise!jsVars
  <2>1. CASE Receive(w)
    BY <1>3, <2>1, ReceiveMaps DEF Promise!JSNext
  <2>2. CASE Stop(w)
    BY <2>2, Stutter DEF Stop
  <2>3. ASSUME NEW j \in Jobs, SendResult(w, j) PROVE UNCHANGED Promise!jsVars
    <3>1. PICK v \in Answers : rc' = [rc EXCEPT ![j] = Send(rc[j], v)]
      BY <2>3 DEF SendResult
    <3>2. rc[j] = NewChannel
      BY <2>3 DEF IInv, HeldAsSent, SendResult
    <3>3. \A i \in Jobs : (rc'[i].closed <=> rc[i].closed) /\ (rc[i].closed => rc'[i].sent = rc[i].sent)
      BY <1>0, <3>1, <3>2, FirstSent, FreshChannel DEF Values
    <3>4. UNCHANGED <<queue, parked, hand, panicked>>
      BY <2>3 DEF SendResult
    <3> QED BY <3>3, <3>4, Stutter
  <2>4. ASSUME NEW j \in Jobs, CloseResult(w, j) PROVE Promise!JSNext
    BY <1>3, <2>4, CloseMaps DEF Promise!JSNext
  <2> QED BY <1>3, <2>1, <2>2, <2>3, <2>4 DEF WorkerStep
<1>4. ASSUME ~panicked, Shutdown PROVE [Promise!JSNext]_Promise!jsVars
  <2>1. CASE Cancel
    <3>1. Promise!CutOff(Len(queue)) /\ Len(queue) \in 0..Len(queue \o parked)
      BY <1>4, <2>1, CancelMaps DEF Line
    <3>2. \E k \in 0..Len(queue \o parked) : Promise!CutOff(k)
      BY <3>1 DEF Promise!CutOff
    <3> QED BY <3>2 DEF Promise!JSNext
  <2>2. CASE CloseJobs \/ WaitReturns
    BY <2>2, Stutter DEF CloseJobs, WaitReturns
  <2> QED BY <1>4, <2>1, <2>2 DEF Shutdown
<1>5. ASSUME ~panicked, NEW w \in Workers, Hang(w) PROVE UNCHANGED Promise!jsVars
  BY <1>5, Stutter DEF Hang
<1>6. ASSUME ~panicked, NEW w \in Workers, ProcessorPanics(w) PROVE Promise!JSNext
  <2>1. UNCHANGED <<queue, parked, hand, rc>> /\ panicked'
    BY <1>6 DEF ProcessorPanics
  <2>2. Held' = Held /\ Settled' = Settled
    BY <2>1 DEF Held, Settled
  <2>3. AnsweredJobs' = AnsweredJobs /\ RefusedJobs' = RefusedJobs
    BY <2>1, <2>2 DEF AnsweredJobs, RefusedJobs
  <2>4. Promise!Fail
    BY <1>6, <2>1, <2>2, <2>3 DEF ProcessorPanics, Promise!Fail, AnsweredJobs, RefusedJobs
  <2> QED BY <2>4 DEF Promise!JSNext
<1> QED BY <1>1, <1>2, <1>3, <1>4, <1>5, <1>6, SubmitMaps DEF Next

\* The pool implements the service: jobs are started in the order of their
\* Submits, each is answered or refused once, and a shutdown refuses only those
\* that had not yet been accepted.
THEOREM PoolImplementsJobService == Spec => ImplementsJobService
<1>1. Init => Promise!JSInit
  <2> SUFFICES ASSUME Init PROVE Promise!JSInit
    OBVIOUS
  <2>1. queue \o parked = <<>> /\ panicked = FALSE
    BY DEF Init
  <2>2. Held = {}
    BY DEF Init, Held
  <2>3. Settled = {}
    BY FreshChannel DEF Init, Settled
  <2> QED BY <2>1, <2>2, <2>3 DEF Promise!JSInit
<1>2. Init => SentIsAnswer
  BY DEF Init, SentIsAnswer
<1>3. Spec => [](IInv /\ SentIsAnswer)
  BY <1>2, SentStep, Invariance, PTL DEF Spec
<1>4. IInv /\ SentIsAnswer /\ [Next]_vars => [Promise!JSNext]_Promise!jsVars
  BY NextMaps
<1> QED BY <1>1, <1>3, <1>4, PTL DEF Spec, ImplementsJobService, Promise!JobService

===============================================================================
