------------------------------ MODULE WorkerPool ------------------------------
(***************************************************************************)
(* The goroutine pool of app/internal/worker/pool.go, the HTTP handlers    *)
(* that submit to it and wait with a timeout (handler/issue.go,            *)
(* handler/verify.go), and the signal goroutine of cmd/server/main.go that *)
(* shuts it down while handlers may still be running.                      *)
(*                                                                         *)
(* One job stands for one HTTP request: the code makes a fresh id and a    *)
(* fresh result channel for each.  Go's channel rules are modelled:        *)
(*   - a sender finding the buffer full parks in a FIFO; the receiver that *)
(*     takes the head of the buffer moves the first parked send into it;   *)
(*   - a select with several ready cases takes any of them; a send on a    *)
(*     closed channel is ready, and panics;                                *)
(*   - cancelling the context wakes every send parked in Submit's select.  *)
(***************************************************************************)
EXTENDS Sequences, FiniteSets, Integers, Functions

CONSTANTS
    Jobs,        \* submitted jobs, one per request
    Workers,     \* the worker goroutines
    QueueSize    \* capacity of the jobs channel

\* NewPool replaces a count or a size that is not positive by a default.
ASSUME PoolAssumption == Workers # {} /\ QueueSize \in Nat \ {0}

VARIABLES
    queue,       \* buffer of the channel p.jobs
    parked,      \* sends parked on p.jobs, in arrival order
    cancelled,   \* p.ctx is done
    closed,      \* p.jobs is closed
    drained,     \* p.wg.Wait() has returned: Shutdown is over
    hand,        \* worker -> the job it holds, if it holds one
    wpc,         \* worker -> how far it has come with the job it holds
    rc,          \* job -> its result channel
    caller,      \* job -> the handler that submitted it
    panicked     \* a goroutine panicked: the process is gone

poolVars == <<queue, parked, cancelled, closed>>
workerVars == <<hand, wpc>>
vars == <<queue, parked, cancelled, closed, drained, hand, wpc, rc, caller, panicked>>

\* What a result channel carries: a worker's result (data or an error of the
\* processor) or Submit's own error.
Answers == {"data", "error"}
ShutDownError == "shut down"
Values == Answers \cup {ShutDownError}

\* Faulty variant: an unbuffered result channel, for a handler that has gone.
UnbufferedResult == 0

\* make(chan JobResult, 1)
ResultBuffer == 1

\* sent: the values sent on the channel so far; taken: how many were received.
Channels == [sent : Seq(Values), taken : Nat, closed : BOOLEAN]
NewChannel == [sent |-> <<>>, taken |-> 0, closed |-> FALSE]

CanSend(ch) == ~ch.closed /\ Len(ch.sent) - ch.taken < ResultBuffer
CanReceive(ch) == ch.taken < Len(ch.sent)
Send(ch, v) == [ch EXCEPT !.sent = Append(@, v)]
Close(ch) == [ch EXCEPT !.closed = TRUE]

Init ==
    /\ queue = <<>>
    /\ parked = <<>>
    /\ cancelled = FALSE
    /\ closed = FALSE
    /\ drained = FALSE
    /\ hand = [w \in Workers |-> {}]
    /\ wpc = [w \in Workers |-> "ready"]
    /\ rc = [j \in Jobs |-> NewChannel]
    /\ caller = [j \in Jobs |-> "idle"]
    /\ panicked = FALSE

-------------------------------------------------------------------------------
(* Submit: one action for each outcome of its select.                      *)

\* Faulty variant: the jobs channel takes any number of jobs.
SubmitUnbounded(j) ==
    /\ caller[j] = "idle"
    /\ ~closed
    /\ queue' = Append(queue, j)
    /\ caller' = [caller EXCEPT ![j] = "waiting"]
    /\ UNCHANGED <<parked, cancelled, closed, drained, hand, wpc, rc, panicked>>

SubmitEnqueue(j) ==
    /\ caller[j] = "idle"
    /\ ~closed
    /\ Len(queue) < QueueSize
    /\ queue' = Append(queue, j)
    /\ caller' = [caller EXCEPT ![j] = "waiting"]
    /\ UNCHANGED <<parked, cancelled, closed, drained, hand, wpc, rc, panicked>>

SubmitPark(j) ==
    /\ caller[j] = "idle"
    /\ ~closed
    /\ ~cancelled
    /\ Len(queue) >= QueueSize
    /\ parked' = Append(parked, j)
    /\ caller' = [caller EXCEPT ![j] = "submitting"]
    /\ UNCHANGED <<queue, cancelled, closed, drained, hand, wpc, rc, panicked>>

\* Faulty variant: the refusal leaves its channel open.
SubmitRefuseUnclosed(j) ==
    /\ caller[j] = "idle"
    /\ cancelled
    /\ CanSend(rc[j])
    /\ rc' = [rc EXCEPT ![j] = Send(@, ShutDownError)]
    /\ caller' = [caller EXCEPT ![j] = "waiting"]
    /\ UNCHANGED <<queue, parked, cancelled, closed, drained, hand, wpc, panicked>>

SubmitRefuse(j) ==
    /\ caller[j] = "idle"
    /\ cancelled
    /\ CanSend(rc[j])
    /\ rc' = [rc EXCEPT ![j] = Close(Send(@, ShutDownError))]
    /\ caller' = [caller EXCEPT ![j] = "waiting"]
    /\ UNCHANGED <<queue, parked, cancelled, closed, drained, hand, wpc, panicked>>

SubmitOnClosed(j) ==
    /\ caller[j] = "idle"
    /\ closed
    /\ panicked' = TRUE
    /\ UNCHANGED <<queue, parked, cancelled, closed, drained, hand, wpc, rc, caller>>

(* The handler's select between the result and its 30 s timer.             *)

HandlerAnswers(j) ==
    /\ caller[j] = "waiting"
    /\ CanReceive(rc[j])
    /\ rc' = [rc EXCEPT ![j].taken = @ + 1]
    /\ caller' = [caller EXCEPT ![j] = "answered"]
    /\ UNCHANGED <<queue, parked, cancelled, closed, drained, hand, wpc, panicked>>

HandlerTimesOut(j) ==
    /\ caller[j] = "waiting"
    /\ caller' = [caller EXCEPT ![j] = "timed out"]
    /\ UNCHANGED <<queue, parked, cancelled, closed, drained, hand, wpc, rc, panicked>>

-------------------------------------------------------------------------------
(* The worker loop.                                                        *)

\* What a receive leaves: the first parked send, if any, takes the free slot.
Refill(q, p) == IF p = <<>> THEN q ELSE Append(q, Head(p))
Unparked(p) == IF p = <<>> THEN p ELSE Tail(p)

\* Faulty variant: a worker that finds the context done skips the job it takes.
ReceiveOrSkip(w) ==
    /\ wpc[w] = "ready"
    /\ queue # <<>>
    /\ IF cancelled THEN UNCHANGED <<hand, wpc>>
       ELSE hand' = [hand EXCEPT ![w] = {Head(queue)}] /\ wpc' = [wpc EXCEPT ![w] = "processing"]
    /\ queue' = Refill(Tail(queue), parked)
    /\ parked' = Unparked(parked)
    /\ caller' = IF parked = <<>> THEN caller
                 ELSE [caller EXCEPT ![Head(parked)] = "waiting"]
    /\ UNCHANGED <<cancelled, closed, drained, rc, panicked>>

Receive(w) ==
    /\ wpc[w] = "ready"
    /\ queue # <<>>
    /\ hand' = [hand EXCEPT ![w] = {Head(queue)}]
    /\ wpc' = [wpc EXCEPT ![w] = "processing"]
    /\ queue' = Refill(Tail(queue), parked)
    /\ parked' = Unparked(parked)
    /\ caller' = IF parked = <<>> THEN caller
                 ELSE [caller EXCEPT ![Head(parked)] = "waiting"]
    /\ UNCHANGED <<cancelled, closed, drained, rc, panicked>>

\* p.process(job) comes back in the end, or it does neither of two things: the
\* verify processor and the numbering of a badge call the node and the database
\* with context.Background(), and such a call need not return; ...
Hang(w) ==
    /\ wpc[w] = "processing"
    /\ wpc' = [wpc EXCEPT ![w] = "hung"]
    /\ UNCHANGED <<queue, parked, cancelled, closed, drained, hand, rc, caller, panicked>>

\* ... and the verify processor may panic (see Documents), which nothing recovers.
ProcessorPanics(w) ==
    /\ wpc[w] = "processing"
    /\ wpc' = [wpc EXCEPT ![w] = "panicked"]
    /\ panicked' = TRUE
    /\ UNCHANGED <<queue, parked, cancelled, closed, drained, hand, rc, caller>>

\* Faulty variant: a job taken from a cancelled pool is refused, not processed.
SendRefusal(w, j) ==
    /\ wpc[w] = "processing"
    /\ j \in hand[w]
    /\ CanSend(rc[j])
    /\ \E v \in IF cancelled THEN {ShutDownError} ELSE Answers : rc' = [rc EXCEPT ![j] = Send(@, v)]
    /\ wpc' = [wpc EXCEPT ![w] = "sent"]
    /\ UNCHANGED <<queue, parked, cancelled, closed, drained, hand, caller, panicked>>

SendResult(w, j) ==
    /\ wpc[w] = "processing"
    /\ j \in hand[w]
    /\ CanSend(rc[j])
    /\ \E v \in Answers : rc' = [rc EXCEPT ![j] = Send(@, v)]
    /\ wpc' = [wpc EXCEPT ![w] = "sent"]
    /\ UNCHANGED <<queue, parked, cancelled, closed, drained, hand, caller, panicked>>

CloseResult(w, j) ==
    /\ wpc[w] = "sent"
    /\ j \in hand[w]
    /\ rc' = [rc EXCEPT ![j] = Close(@)]
    /\ hand' = [hand EXCEPT ![w] = {}]
    /\ wpc' = [wpc EXCEPT ![w] = "ready"]
    /\ UNCHANGED <<queue, parked, cancelled, closed, drained, caller, panicked>>

\* Faulty variant: a worker leaves as soon as the context is done.
StopAtOnce(w) ==
    /\ wpc[w] = "ready"
    /\ cancelled
    /\ wpc' = [wpc EXCEPT ![w] = "stopped"]
    /\ UNCHANGED <<queue, parked, cancelled, closed, drained, hand, rc, caller, panicked>>

\* Faulty variant: a worker leaves as soon as it finds nothing to do.
StopWhenIdle(w) ==
    /\ wpc[w] = "ready"
    /\ queue = <<>>
    /\ wpc' = [wpc EXCEPT ![w] = "stopped"]
    /\ UNCHANGED <<queue, parked, cancelled, closed, drained, hand, rc, caller, panicked>>

Stop(w) ==
    /\ wpc[w] = "ready"
    /\ closed
    /\ queue = <<>>
    /\ wpc' = [wpc EXCEPT ![w] = "stopped"]
    /\ UNCHANGED <<queue, parked, cancelled, closed, drained, hand, rc, caller, panicked>>

-------------------------------------------------------------------------------
(* Shutdown, run once by the signal goroutine.                             *)

\* Faulty variant: a Submit that has parked does not look at the context.
CancelUnheard ==
    /\ ~cancelled
    /\ cancelled' = TRUE
    /\ UNCHANGED <<queue, parked, closed, drained, hand, wpc, rc, caller, panicked>>

\* p.cancel(): every Submit parked in its select takes the ctx.Done() case.
Cancel ==
    /\ ~cancelled
    /\ cancelled' = TRUE
    /\ parked' = <<>>
    /\ rc' = [j \in Jobs |-> IF j \in Range(parked)
                             THEN Close(Send(rc[j], ShutDownError)) ELSE rc[j]]
    /\ caller' = [j \in Jobs |-> IF j \in Range(parked) THEN "waiting" ELSE caller[j]]
    /\ UNCHANGED <<queue, closed, drained, hand, wpc, panicked>>

CloseJobs ==
    /\ cancelled
    /\ ~closed
    /\ closed' = TRUE
    /\ UNCHANGED <<queue, parked, cancelled, drained, hand, wpc, rc, caller, panicked>>

WaitReturns ==
    /\ closed
    /\ ~drained
    /\ \A w \in Workers : wpc[w] = "stopped"
    /\ drained' = TRUE
    /\ UNCHANGED <<queue, parked, cancelled, closed, hand, wpc, rc, caller, panicked>>

-------------------------------------------------------------------------------
Submit(j) == SubmitEnqueue(j) \/ SubmitPark(j) \/ SubmitRefuse(j) \/ SubmitOnClosed(j)
HandlerReturns(j) == HandlerAnswers(j) \/ HandlerTimesOut(j)
WorkerStep(w) == Receive(w) \/ Stop(w) \/ \E j \in Jobs : SendResult(w, j) \/ CloseResult(w, j)
Shutdown == Cancel \/ CloseJobs \/ WaitReturns

Next ==
    /\ ~panicked
    /\ \/ \E j \in Jobs : Submit(j) \/ HandlerReturns(j)
       \/ \E w \in Workers : WorkerStep(w) \/ Hang(w) \/ ProcessorPanics(w)
       \/ Shutdown

Spec == Init /\ [][Next]_vars

\* Workers run until they stop, hang or panic, timers fire, and a shutdown that
\* has begun runs its straight-line code.  Requests and the signal may never come.
Fairness ==
    /\ \A w \in Workers : WF_vars(~panicked /\ WorkerStep(w))
    /\ \A j \in Jobs : WF_vars(~panicked /\ HandlerReturns(j))
    /\ WF_vars(~panicked /\ (CloseJobs \/ WaitReturns))

FairSpec == Spec /\ Fairness

-------------------------------------------------------------------------------
WorkerStates == {"ready", "processing", "hung", "panicked", "sent", "stopped"}
Callers == {"idle", "submitting", "waiting", "answered", "timed out"}

JobsTyped ==
    /\ queue \in Seq(Jobs)
    /\ Len(queue) =< QueueSize
    /\ parked \in Seq(Jobs)
    /\ hand \in [Workers -> SUBSET Jobs]
    /\ wpc \in [Workers -> WorkerStates]
    /\ rc \in [Jobs -> Channels]
    /\ caller \in [Jobs -> Callers]

FlagsTyped ==
    /\ cancelled \in BOOLEAN
    /\ closed \in BOOLEAN
    /\ drained \in BOOLEAN
    /\ panicked \in BOOLEAN

\* The shape of every variable; the buffer of p.jobs never exceeds its capacity.
TypeOK == JobsTyped /\ FlagsTyped

Held == UNION {hand[w] : w \in Workers}
Settled == {j \in Jobs : rc[j].closed}
Accepted == Range(queue) \cup Held

\* "The returned channel will receive exactly one value and then be closed"
\* (pool.go:99): whoever closes it, a worker or Submit on the way out, has
\* sent one value before, and a job still queued or held has not been answered.
ExactlyOneValue ==
    /\ \A j \in Settled : Len(rc[j].sent) = 1
    /\ \A j \in Range(queue) \cup Range(parked) : rc[j].sent = <<>>
    /\ \A j \in Jobs : rc[j].sent # <<>> /\ ~rc[j].closed =>
          \E w \in Workers : hand[w] = {j} /\ wpc[w] = "sent"

\* No job is lost and none is processed twice: a request whose Submit returned
\* is queued once, or held by one worker, or settled, and never two of them.
EveryJobInOnePlace ==
    /\ \A j \in Jobs : caller[j] \in {"waiting", "answered", "timed out"} =>
          j \in Accepted \cup Settled
    /\ \A j \in Jobs : caller[j] = "submitting" <=> j \in Range(parked)
    /\ IsInjective(queue) /\ IsInjective(parked)
    /\ \A w \in Workers : \A i, j \in hand[w] : i = j
    /\ \A w, x \in Workers : w # x => hand[w] \cap hand[x] = {}
    /\ Range(queue) \cap Held = {}
    /\ Range(parked) \cap Accepted = {}
    /\ Settled \cap (Accepted \cup Range(parked)) = {}

\* A send parks only while the buffer is full, and none stays parked on a
\* cancelled pool, so none is ever parked on the channel that Shutdown closes.
ParkedOnlyOnFullQueue ==
    parked # <<>> => Len(queue) = QueueSize /\ ~cancelled

\* "ensuring every accepted job gets processed even during graceful
\* termination" (pool.go:139): once wg.Wait has returned, no accepted job is
\* left in the channel or in a worker's hand.
DrainedAfterShutdown == drained => Accepted = {} /\ parked = <<>>

Hung == {w \in Workers : wpc[w] = "hung"}

\* "Submit [...] never block[s] forever when the pool is shutting down"
\* (pool.go:111), nor while one worker is left that is not stuck in a call: a
\* parked Submit returns, or the process dies, or every worker hangs.
SubmitReturns ==
    \A j \in Jobs : caller[j] = "submitting" ~>
        caller[j] # "submitting" \/ panicked \/ Hung = Workers

\* An accepted job is answered even if its handler has timed out and nobody
\* reads the result any more (the buffer of one keeps the worker from blocking),
\* unless its own worker hangs, or every worker does while it is in the queue.
AcceptedIsAnswered ==
    \A j \in Jobs : j \in Accepted ~>
        j \in Settled \/ panicked \/ Hung = Workers \/ \E w \in Hung : j \in hand[w]

\* A shutdown that has begun ends, whatever the queue held when it began, unless
\* it waits for a worker that hangs.
ShutdownEnds == cancelled ~> drained \/ panicked \/ Hung # {}

\* "After Shutdown returns no new jobs will be accepted" (pool.go:128), and a
\* late Submit gets an error (pool.go:100-101) rather than taking the process down:
\* a processor alone may do that.
SubmitNeverPanics == panicked => \E w \in Workers : wpc[w] = "panicked"

-------------------------------------------------------------------------------
\* The line of the abstract service is the buffer followed by the parked sends.
Promise == INSTANCE JobService WITH
    line <- queue \o parked,
    serving <- Held,
    answered <- {j \in Settled : rc[j].sent[1] \in Answers},
    refused <- {j \in Settled : rc[j].sent[1] = ShutDownError},
    failed <- panicked

\* Jobs are started in the order in which Submit was called for them, parked or
\* not, each is answered or refused once and never both, and only the jobs that
\* were still parked are refused when the pool shuts down.
ImplementsJobService == Promise!JobService

===============================================================================
