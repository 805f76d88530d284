----------------------------- MODULE Settlement -----------------------------
(***************************************************************************)
(* What the delivery lifecycle promises of a message, without claims,       *)
(* retries, controls, probes, backoff or cancellation: it is admitted to a  *)
(* turn, the turn decides it or lets it go, and a decision is owed to the   *)
(* platform until the platform shows it or the message is taken for         *)
(* deleted.  Delivery implements this specification.                        *)
(***************************************************************************)
EXTENDS Naturals

CONSTANT Msgs

VARIABLES
    platform,   \* what the platform shows of each message
    owed,       \* the decision each message still owes the platform
    admitted,   \* the messages of the turn that may run a handler
    succeeded,  \* messages some turn decided as processed
    lost        \* messages taken for deleted while they existed

vars == <<platform, owed, admitted, succeeded, lost>>

Verdicts == {"processed", "failed"}

SettlementTypeOK ==
    /\ platform \in [Msgs -> {"open", "gone"} \cup Verdicts]
    /\ owed \in [Msgs -> {"none"} \cup Verdicts]
    /\ admitted \subseteq Msgs
    /\ succeeded \subseteq Msgs
    /\ lost \subseteq Msgs

Init ==
    /\ platform = [m \in Msgs |-> "open"]
    /\ owed = [m \in Msgs |-> "none"]
    /\ admitted = {} /\ succeeded = {} /\ lost = {}

\* Nothing was decided of m, or what was is known to be forgotten.
Undecided(m) == owed[m] = "none" /\ m \notin succeeded \ lost

\* The platform opens an attempt for m.
Opens(m) ==
    /\ Undecided(m) /\ platform[m] \in {"open", "failed"}
    /\ platform' = [platform EXCEPT ![m] = "open"]

Open(m) == Opens(m) /\ UNCHANGED <<owed, admitted, succeeded, lost>>

\* Undecided messages whose attempts are open enter a turn, with the opening of the last.
Admit(ms) ==
    /\ admitted = {} /\ ms # {}
    /\ UNCHANGED platform \/ \E m \in ms : Opens(m)
    /\ \A m \in ms : Undecided(m) /\ platform'[m] \in {"open", "gone"}
    /\ admitted' = ms
    /\ UNCHANGED <<owed, succeeded, lost>>

\* The turn decides all of its messages at once.
Decide(verdict) ==
    /\ admitted # {}
    /\ owed' = [m \in Msgs |-> IF m \in admitted THEN verdict ELSE owed[m]]
    /\ succeeded' = IF verdict = "processed" THEN succeeded \cup admitted ELSE succeeded
    /\ admitted' = {}
    /\ UNCHANGED <<platform, lost>>

\* The turn ends without a decision.
LetGo ==
    /\ admitted' = {}
    /\ UNCHANGED <<platform, owed, succeeded, lost>>

\* The decision reaches the platform, and the answer may be lost.
Land(m, heard) ==
    /\ owed[m] # "none" /\ platform[m] = "open"
    /\ platform' = [platform EXCEPT ![m] = owed[m]]
    /\ owed' = IF heard THEN [owed EXCEPT ![m] = "none"] ELSE owed
    /\ UNCHANGED <<admitted, succeeded, lost>>

\* The message is taken for deleted.
Retire(m) ==
    /\ owed[m] # "none"
    /\ owed' = [owed EXCEPT ![m] = "none"]
    /\ lost' = IF platform[m] = "gone" THEN lost ELSE lost \cup {m}
    /\ UNCHANGED <<platform, admitted, succeeded>>

Delete(m) ==
    /\ platform' = [platform EXCEPT ![m] = "gone"]
    /\ UNCHANGED <<owed, admitted, succeeded, lost>>

Next ==
    \/ \E ms \in SUBSET Msgs : Admit(ms)
    \/ \E verdict \in Verdicts : Decide(verdict)
    \/ LetGo
    \/ \E m \in Msgs : \/ Open(m) \/ Retire(m) \/ Delete(m)
                       \/ \E heard \in BOOLEAN : Land(m, heard)

Spec == Init /\ [][Next]_vars

-----------------------------------------------------------------------------
\* A success is owed or shown until the message is deleted or taken for deleted, and it
\* is never shown, owed or admitted as anything else.
Kept ==
    \A m \in succeeded \ lost :
        /\ owed[m] = "processed" \/ platform[m] \in {"processed", "gone"}
        /\ owed[m] # "failed" /\ platform[m] # "failed" /\ m \notin admitted
=============================================================================
