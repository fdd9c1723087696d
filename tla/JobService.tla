------------------------------ MODULE JobService ------------------------------
(***************************************************************************)
(* What the worker pool promises its callers, with no workers, channels or *)
(* buffers: jobs wait in one line in the order in which they were handed   *)
(* in, are served from its head, and every job that was handed in is       *)
(* settled exactly once, with a result or with a refusal.  A shutdown may  *)
(* refuse the jobs at the end of the line but none that was accepted       *)
(* before a served one.                                                    *)
(***************************************************************************)
EXTENDS Sequences, FiniteSets, Integers

CONSTANT Jobs

VARIABLES
    line,       \* jobs handed in and not yet taken, oldest first
    serving,    \* jobs being processed
    answered,   \* jobs whose result channel received a result and was closed
    refused,    \* jobs whose result channel received an error and was closed
    failed      \* the process died

jsVars == <<line, serving, answered, refused, failed>>

Waiting == {line[i] : i \in 1..Len(line)}

JSInit ==
    /\ line = <<>>
    /\ serving = {}
    /\ answered = {}
    /\ refused = {}
    /\ failed = FALSE

HandIn(j) ==
    /\ ~failed
    /\ j \notin Waiting \cup serving \cup answered \cup refused
    /\ line' = Append(line, j)
    /\ UNCHANGED <<serving, answered, refused, failed>>

Refuse(j) ==
    /\ ~failed
    /\ j \notin Waiting \cup serving \cup answered \cup refused
    /\ refused' = refused \cup {j}
    /\ UNCHANGED <<line, serving, answered, failed>>

Serve ==
    /\ ~failed
    /\ line # <<>>
    /\ line' = Tail(line)
    /\ serving' = serving \cup {Head(line)}
    /\ UNCHANGED <<answered, refused, failed>>

Answer(j) ==
    /\ ~failed
    /\ j \in serving
    /\ serving' = serving \ {j}
    /\ answered' = answered \cup {j}
    /\ UNCHANGED <<line, refused, failed>>

\* The service closes: the first k jobs of the line are kept, the rest refused.
CutOff(k) ==
    /\ ~failed
    /\ line' = SubSeq(line, 1, k)
    /\ refused' = refused \cup {line[i] : i \in (k + 1)..Len(line)}
    /\ UNCHANGED <<serving, answered, failed>>

Fail ==
    /\ ~failed
    /\ failed' = TRUE
    /\ UNCHANGED <<line, serving, answered, refused>>

JSNext ==
    \/ \E j \in Jobs : HandIn(j) \/ Refuse(j) \/ Answer(j)
    \/ \E k \in 0..Len(line) : CutOff(k)
    \/ Serve
    \/ Fail

\* No fairness: a job may be served for ever.
JobService == JSInit /\ [][JSNext]_jsVars

===============================================================================
