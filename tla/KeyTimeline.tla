------------------------------ MODULE KeyTimeline ------------------------------
(***************************************************************************)
(* What the on-chain key registry promises a verifier: a timeline that     *)
(* names the issuer's key, or no key, at every instant.  The issuer may    *)
(* choose the key from now on, as often as it likes; the past is fixed.    *)
(***************************************************************************)
EXTENDS Integers

CONSTANTS
    Keys, NoKey,
    Instants     \* the instants a verifier asks about

VARIABLES
    keyAt,   \* instant -> key
    clock

timelineVars == <<keyAt, clock>>

TimelineInit ==
    /\ clock \in Nat
    /\ \E k \in Keys : keyAt = [t \in Instants |-> IF t < clock THEN NoKey ELSE k]

Choose(k) ==
    /\ keyAt' = [t \in Instants |-> IF t < clock THEN keyAt[t] ELSE k]
    /\ UNCHANGED clock

Pass ==
    /\ clock' \in Nat
    /\ clock' > clock
    /\ UNCHANGED keyAt

TimelineNext == Pass \/ \E k \in Keys \cup {NoKey} : Choose(k)

Timeline == TimelineInit /\ [][TimelineNext]_timelineVars

===============================================================================
