--------------------------- MODULE DeliveryProof ---------------------------
(***************************************************************************)
(* Proofs about Delivery, for every set of messages, retry budget and       *)
(* bound, batching or not.  IInv is inductive: Ledger relates what the      *)
(* claim registry and the platform say of a message, TurnFits what the      *)
(* suspended delivery coroutine may still rely on when it resumes, and      *)
(* AttemptInv where every charged attempt stands.  The last part shows that *)
(* Delivery implements Settlement: of each action only what PlatformMap,    *)
(* OwedMap, AdmittedMap and the two histories show of it matters, and IInv  *)
(* supplies the guards of the abstract action.                              *)
(***************************************************************************)
EXTENDS Delivery, FiniteSetTheorems, TLAPS

-----------------------------------------------------------------------------
(* Values *)

\* What TypeOK says of the fields of the turn.
LEMMA TurnFields ==
    ASSUME NEW t \in Turns
    PROVE  /\ t.pc \in Steps
           /\ t.members \subseteq Msgs
           /\ t.control \in BOOLEAN
           /\ t.stale \in BOOLEAN
           /\ t.originals \subseteq Msgs
           /\ t.charged \subseteq Msgs
           /\ t.phase \in {"none", "preparing", "admitted", "settled"}
           /\ t.intent \in Intents
           /\ t.kind \in Kinds
           /\ t.terminating \in BOOLEAN
           /\ t.timedOut \in BOOLEAN
           /\ t.observed \in BOOLEAN
           /\ t.consumed \in BOOLEAN
           /\ t.todo \subseteq Msgs
           /\ t.cur \subseteq Msgs
BY SMT DEF Turns

\* No attempt: the turn between two deliveries is a turn.
LEMMA NoTurnTyped == NoTurn \in Turns
BY SMT DEF NoTurn, Turns, Steps, Intents, Kinds

LEMMA NoWriteTyped == NoWrite \in Writes
BY SMT DEF NoWrite, Writes, Intents

\* Discarding charges that were made leaves the attempt counts natural.
LEMMA DiscardedTyped ==
    ASSUME NEW base \in [Msgs -> Nat], NEW ms, \A m \in ms : base[m] > 0
    PROVE  Discarded(base, ms) \in [Msgs -> Nat]
BY SMT DEF Discarded

LEMMA ChargedTyped ==
    ASSUME attempts \in [Msgs -> Nat], NEW ms
    PROVE  /\ Charged(ms) \in [Msgs -> Nat]
           /\ \A m \in ms \cap Msgs : Charged(ms)[m] > 0
BY SMT DEF Charged

\* A stored intent is a well-formed settlement.
LEMMA RecordedTyped ==
    ASSUME pending \in [Msgs -> Writes], NEW ms, NEW intent \in Intents,
           NEW count \in [Msgs -> Nat]
    PROVE  Recorded(ms, intent, count) \in [Msgs -> Writes]
<1>1. ASSUME NEW m \in Msgs
      PROVE [status |-> intent, parked |-> FALSE,
             retry |-> intent = "failed" /\ Replays /\ count[m] < MaxRetries] \in Writes
      BY Zenon DEF Writes
<1> QED BY <1>1, SMT DEF Recorded

-----------------------------------------------------------------------------
(* The end of an attempt *)

\* The effect of End that the invariant needs.
Ended ==
    /\ turn' = NoTurn
    /\ inflight' = {}
    /\ retained' \subseteq retained
    /\ attempts' \in [Msgs -> Nat]

LEMMA EndEffect ==
    ASSUME inflight = turn.members, NEW outcome, NEW base \in [Msgs -> Nat], NEW charged,
           \A m \in charged : base[m] > 0, End(outcome, base, charged)
    PROVE  Ended
<1>1. attempts' \in [Msgs -> Nat] BY DiscardedTyped, SMT DEF End
<1>2. retained' \subseteq retained BY SMT DEF End
<1> QED BY <1>1, <1>2, SMT DEF End, Ended

LEMMA FinishEffect ==
    ASSUME IInv, NEW outcome, Finish(outcome)
    PROVE  Ended
<1>1. attempts \in [Msgs -> Nat] BY DEF IInv, TypeOK
<1>2. inflight = turn.members /\ \A m \in turn.charged : attempts[m] > 0
      BY DEF IInv, TurnFits
<1> QED BY <1>1, <1>2, EndEffect, Zenon DEF Finish

\* Once the attempt is over the coroutine relies on nothing.
LEMMA EndedFits ==
    ASSUME Ended
    PROVE  TurnFits'
BY SMT DEF Ended, TurnFits, NoTurn, Undecided

\* A message keeps its place in the ledger when nothing about it changes but
\* that it is no longer retained, or remembered as completed too.
LEMMA LedgerKept ==
    ASSUME NEW m \in Msgs, Ledger(m), pending'[m] = pending[m], status'[m] = status[m],
           done' = done, misread' = misread, completed \subseteq completed',
           retained' \subseteq retained
    PROVE  Ledger(m)'
BY SMT DEF Ledger

-----------------------------------------------------------------------------
(* The scheduler's steps *)

\* Members of an undecided turn owe nothing and are undecided: a message with
\* its PROCESSED intent stored is runnable only if it was deleted, and then it
\* is no longer retained, so Dispatch does not offer it.
LEMMA RunnableUndecided ==
    ASSUME TypeOK, NEW m \in Msgs, Ledger(m), Runnable(m),
           m \in retained \/ status[m] # "gone"
    PROVE  pending[m] = NoWrite /\ m \notin done \ misread
BY SMT DEF Runnable, Unsettled, Ledger, NoWrite

LEMMA DispatchStep ==
    ASSUME IInv, NEW ms \in SUBSET Msgs, NEW control \in BOOLEAN, Dispatch(ms, control)
    PROVE  IInv'
<1> USE DEF room, history, tracker
<1>0. TypeOK /\ (\A m \in Msgs : Ledger(m)) /\ TurnFits BY DEF IInv
<1>1. turn.pc = "idle" /\ alive BY DEF Dispatch
<1>2. inflight = {} BY <1>0, <1>1, SMT DEF TurnFits, NoTurn
<1>3. /\ turn'.pc = "begin" /\ turn'.members = ms /\ turn'.originals = {}
      /\ turn'.charged = {} /\ turn'.phase = "none"
      BY SMT DEF Dispatch, NoTurn
<1>4. turn' \in Turns
      BY NoTurnTyped, Zenon DEF Dispatch, Turns, Steps
<1>5. controls' \in 0..MaxControls
      BY <1>0, BoundsAssumption, SMT DEF Dispatch, TypeOK
<1>6. TypeOK' BY <1>0, <1>4, <1>5, SMT DEF Dispatch, TypeOK
<1>7. \A m \in Msgs : Ledger(m)'
      BY <1>0, LedgerKept, SMT DEF Dispatch
<1>8. \A m \in ms : pending'[m] = NoWrite /\ m \notin done' \ misread'
      BY <1>0, RunnableUndecided, Zenon DEF Dispatch
<1>9. TurnFits'
      BY <1>1, <1>2, <1>3, <1>8, SMT DEF TurnFits, Dispatch, Undecided
<1> QED BY <1>6, <1>7, <1>9 DEF IInv

LEMMA RetrySettlementStep ==
    ASSUME IInv, NEW m \in Msgs, RetrySettlement(m)
    PROVE  IInv'
<1> USE DEF room, history, tracker, registry
<1>0. TypeOK /\ (\A n \in Msgs : Ledger(n)) /\ TurnFits BY DEF IInv
<1>1. turn.pc = "idle" /\ alive BY DEF RetrySettlement
<1>2. inflight = {} BY <1>0, <1>1, SMT DEF TurnFits, NoTurn
<1>3. /\ turn'.pc = "settle" /\ turn'.members = {} /\ turn'.originals = {m}
      /\ turn'.charged = {} /\ turn'.phase = "none" /\ turn'.todo = {m}
      BY SMT DEF RetrySettlement, NoTurn
<1>4. turn' \in Turns
      BY NoTurnTyped, Zenon DEF RetrySettlement, Turns, Steps
<1>6. TypeOK' BY <1>0, <1>4, SMT DEF RetrySettlement, TypeOK
<1>7. \A n \in Msgs : Ledger(n)'
      BY <1>0, LedgerKept, SMT DEF RetrySettlement
<1>9. TurnFits'
      BY <1>1, <1>2, <1>3, SMT DEF TurnFits, RetrySettlement, Undecided, OwesWrite
<1> QED BY <1>6, <1>7, <1>9 DEF IInv

-----------------------------------------------------------------------------
(* The delivery coroutine up to admission *)

LEMMA BeginDeliveryStep ==
    ASSUME IInv, BeginDelivery
    PROVE  IInv'
<1> USE DEF room, history
<1>0. TypeOK /\ (\A m \in Msgs : Ledger(m)) /\ TurnFits BY DEF IInv
<1>1. CASE turn.stale
  <2>1. Ended BY <1>1, FinishEffect, Zenon DEF BeginDelivery
  <2>2. TypeOK' BY <1>0, <2>1, NoTurnTyped, SMT DEF BeginDelivery, TypeOK, Ended
  <2>3. \A m \in Msgs : Ledger(m)'
        BY <1>0, <2>1, LedgerKept, SMT DEF BeginDelivery, Ended
  <2> QED BY <2>1, <2>2, <2>3, EndedFits DEF IInv
<1>2. CASE ~turn.stale
  <2>0. turn.pc = "begin" /\ turn \in Turns BY <1>0 DEF BeginDelivery, TypeOK
  <2>1. turn' = [turn EXCEPT !.pc = "prepare", !.phase = "preparing",
                             !.originals = turn.members]
        BY <1>2 DEF BeginDelivery
  <2>2. /\ turn'.pc = "prepare" /\ turn'.members = turn.members
        /\ turn'.originals = turn.members /\ turn'.charged = turn.charged
        /\ turn'.phase = "preparing"
        BY <2>0, <2>1, SMT DEF Turns
  <2>3. turn' \in Turns BY <2>0, <2>1, TurnFields, Zenon DEF Turns, Steps
  <2>4. TypeOK' BY <1>0, <1>2, <2>3, SMT DEF BeginDelivery, TypeOK
  <2>5. \A m \in Msgs : Ledger(m)'
        BY <1>0, <1>2, LedgerKept, SMT DEF BeginDelivery
  <2>6. TurnFits'
        BY <1>0, <1>2, <2>0, <2>2, SMT DEF TurnFits, BeginDelivery, Undecided
  <2> QED BY <2>4, <2>5, <2>6 DEF IInv
<1> QED BY <1>1, <1>2

LEMMA BeginDeferredStep ==
    ASSUME IInv, BeginDeferred
    PROVE  IInv'
<1> USE DEF room, history
<1>0. TypeOK /\ (\A m \in Msgs : Ledger(m)) /\ TurnFits BY DEF IInv
<1>1. Ended BY FinishEffect, Zenon DEF BeginDeferred
<1>2. TypeOK' BY <1>0, <1>1, NoTurnTyped, SMT DEF BeginDeferred, TypeOK, Ended
<1>3. \A m \in Msgs : Ledger(m)'
      BY <1>0, <1>1, LedgerKept, SMT DEF BeginDeferred, Ended
<1> QED BY <1>1, <1>2, <1>3, EndedFits DEF IInv

LEMMA PrepareStep ==
    ASSUME IInv, Prepare
    PROVE  IInv'
<1> USE DEF room, history
<1>0. TypeOK /\ (\A m \in Msgs : Ledger(m)) /\ TurnFits BY DEF IInv
<1> DEFINE owed == {m \in turn.originals : Unsettled(m)}
           over == IF turn.control THEN {} ELSE Exceeded(owed)
           base == IF turn.control THEN attempts ELSE Charged(owed)
           kept == owed \ over
           charges == IF turn.control THEN {} ELSE kept
<1>1. turn.pc = "prepare" /\ turn \in Turns BY <1>0 DEF Prepare, TypeOK
<1>2. turn.originals \subseteq turn.members /\ turn.originals \subseteq Msgs
      BY <1>0, <1>1, TurnFields, SMT DEF TurnFits, Undecided
<1>3. owed \subseteq turn.originals /\ kept \subseteq owed /\ charges \subseteq owed
      BY SMT
<1>4. over \subseteq Msgs BY <1>2, <1>3, SMT DEF Exceeded
<1>5. base \in [Msgs -> Nat] /\ \A m \in charges : base[m] > 0
  <2>1. CASE turn.control BY <2>1, <1>0, SMT DEF TypeOK
  <2>2. CASE ~turn.control
    <3> HIDE DEF owed
    <3>1. attempts \in [Msgs -> Nat] BY <1>0 DEF TypeOK
    <3> QED BY <2>2, <3>1, <1>2, <1>3, ChargedTyped, SMT
  <2> QED BY <2>1, <2>2
<1>6. /\ exhausted' = exhausted \cup over
      /\ UNCHANGED <<status, pending, completed, room, backoff, faults, controls,
                     rejoins, history>>
      BY Zenon DEF Prepare
<1>7. \/ End(IF kept = {} THEN "advanced" ELSE Unadmitted, base, charges)
      \/ /\ attempts' = base
         /\ turn' = [turn EXCEPT !.pc = "confirm", !.originals = kept,
                                 !.charged = charges, !.todo = kept]
         /\ UNCHANGED <<inflight, retained>>
      BY Zenon DEF Prepare
<1> HIDE DEF owed, over, base, kept, charges
<1>8. CASE End(IF kept = {} THEN "advanced" ELSE Unadmitted, base, charges)
  <2>1. inflight = turn.members BY <1>0 DEF TurnFits
  <2>2. Ended BY <1>5, <1>8, <2>1, EndEffect, Zenon
  <2>3. TypeOK' BY <1>0, <1>4, <1>6, <2>2, NoTurnTyped, SMT DEF TypeOK, Ended
  <2>4. \A m \in Msgs : Ledger(m)' BY <1>0, <1>6, <2>2, LedgerKept, SMT DEF Ended
  <2> QED BY <2>2, <2>3, <2>4, EndedFits DEF IInv
<1>9. CASE /\ attempts' = base
           /\ turn' = [turn EXCEPT !.pc = "confirm", !.originals = kept,
                                   !.charged = charges, !.todo = kept]
           /\ UNCHANGED <<inflight, retained>>
  <2>1. /\ turn'.pc = "confirm" /\ turn'.members = turn.members
        /\ turn'.originals = kept /\ turn'.charged = charges /\ turn'.todo = kept
        /\ turn'.phase = turn.phase
        BY <1>1, <1>9, SMT DEF Turns
  <2>2. kept \subseteq Msgs /\ charges \subseteq Msgs BY <1>2, <1>3
  <2>3. turn' \in Turns BY <1>1, <1>9, <2>2, Zenon DEF Turns, Steps
  <2>4. TypeOK' BY <1>0, <1>4, <1>5, <1>6, <1>9, <2>3, SMT DEF TypeOK
  <2>5. \A m \in Msgs : Ledger(m)' BY <1>0, <1>6, <1>9, LedgerKept, SMT
  <2>6. TurnFits'
        BY <1>0, <1>1, <1>2, <1>3, <1>5, <1>6, <1>9, <2>1, SMT DEF TurnFits, Undecided
  <2> QED BY <2>4, <2>5, <2>6 DEF IInv
<1> QED BY <1>7, <1>8, <1>9

-----------------------------------------------------------------------------
(* The processing writes *)

\* An answer to a processing write leaves the status or opens the attempt.
LEMMA ProcessingAnswer ==
    ASSUME TypeOK, NEW m \in Msgs, NEW result, NEW left,
           Answer(m, "processing", result, left)
    PROVE  /\ left = "processing" \/ left = status[m]
           /\ result = "accepted" => left = "processing"
           /\ faults' \in 0..MaxFaults
BY BoundsAssumption, SMT DEF Answer, Lands, TypeOK

LEMMA ProbeTyped ==
    ASSUME TypeOK, NEW readable, Probe(readable)
    PROVE  faults' \in 0..MaxFaults
BY BoundsAssumption, SMT DEF Probe, TypeOK

\* What a step of the delivery coroutine owes the invariant besides the ledger.
Resumed ==
    /\ turn' \in Turns
    /\ TurnFits'
    /\ inflight' \subseteq Msgs
    /\ retained' \subseteq retained
    /\ attempts' \in [Msgs -> Nat]

LEMMA EndedResumed ==
    ASSUME Ended
    PROVE  Resumed
BY EndedFits, NoTurnTyped, SMT DEF Ended, Resumed

\* confirm_processing goes on, ends the attempt or admits the scope.
LEMMA ConfirmNextResumes ==
    ASSUME IInv, turn.pc \in {"confirm", "absent"},
           NEW originals, NEW todo,
           originals \subseteq turn.originals, todo \subseteq originals,
           \A m \in originals \ todo : status'[m] \in {"processing", "gone"},
           pending' = pending, done' = done, misread' = misread, alive' = alive,
           ConfirmNext(originals, todo)
    PROVE  Resumed /\ signal' \in Kinds
<1>0. TypeOK /\ TurnFits /\ turn \in Turns /\ signal \in Kinds BY DEF IInv, TypeOK
<1>1. turn.originals \subseteq Msgs /\ turn.members \subseteq Msgs BY <1>0, TurnFields
<1>2. CASE /\ todo # {}
           /\ turn' = [turn EXCEPT !.pc = "confirm", !.originals = originals,
                                   !.todo = todo, !.cur = {}]
           /\ UNCHANGED <<inflight, attempts, retained, signal>>
  <2>1. /\ turn'.pc = "confirm" /\ turn'.members = turn.members
        /\ turn'.originals = originals /\ turn'.charged = turn.charged
        /\ turn'.todo = todo /\ turn'.phase = turn.phase
        BY <1>0, <1>2, SMT DEF Turns
  <2>2. originals \subseteq Msgs /\ todo \subseteq Msgs BY <1>1
  <2>3. turn' \in Turns BY <1>0, <1>2, <2>2, Zenon DEF Turns, Steps
  <2>4. TurnFits' BY <1>0, <1>2, <2>1, SMT DEF TurnFits, Undecided
  <2> QED BY <1>0, <1>1, <1>2, <2>3, <2>4, SMT DEF Resumed, TypeOK
<1>3. CASE \E outcome \in {"absent", "declined"} : Finish(outcome) /\ UNCHANGED signal
  <2>1. Ended BY <1>3, FinishEffect, Zenon
  <2> QED BY <1>0, <1>3, <2>1, EndedResumed
<1>4. CASE /\ turn' = [turn EXCEPT !.pc = "context", !.originals = originals,
                                   !.todo = {}, !.cur = {}, !.phase = "admitted"]
           /\ todo = {}
           /\ signal' = "none"
           /\ UNCHANGED <<inflight, attempts, retained>>
  <2>1. /\ turn'.pc = "context" /\ turn'.members = turn.members
        /\ turn'.originals = originals /\ turn'.charged = turn.charged
        /\ turn'.todo = {} /\ turn'.phase = "admitted"
        BY <1>0, <1>4, SMT DEF Turns
  <2>2. originals \subseteq Msgs BY <1>1
  <2>3. turn' \in Turns BY <1>0, <1>4, <2>2, Zenon DEF Turns, Steps
  <2>4. TurnFits' BY <1>0, <1>4, <2>1, SMT DEF TurnFits, Undecided
  <2> QED BY <1>0, <1>1, <1>4, <2>3, <2>4, SMT DEF Resumed, TypeOK, Kinds
<1> QED BY <1>2, <1>3, <1>4, Zenon DEF ConfirmNext

LEMMA ConfirmProcessingStep ==
    ASSUME IInv, NEW m \in Msgs, ConfirmProcessing(m)
    PROVE  IInv'
<1> USE DEF room
<1>0. /\ TypeOK /\ (\A n \in Msgs : Ledger(n)) /\ TurnFits
      /\ turn \in Turns /\ signal \in Kinds
      BY DEF IInv, TypeOK
<1>1. /\ turn.pc = "confirm" /\ m \in turn.todo
      /\ UNCHANGED <<pending, completed, exhausted, room, backoff, controls,
                     rejoins, done, failures, misread>>
      BY DEF ConfirmProcessing
<1>2. PICK result \in Results, left \in Statuses :
        /\ Answer(m, "processing", result, left)
        /\ status' = [status EXCEPT ![m] = left]
        /\ \/ /\ turn' = [turn EXCEPT !.pc = "absent", !.cur = {m}]
              /\ UNCHANGED <<inflight, attempts, retained, signal>>
           \/ result = "accepted" /\ ConfirmNext(turn.originals, turn.todo \ {m})
           \/ Finish(Unadmitted) /\ UNCHANGED signal
      BY Zenon DEF ConfirmProcessing
<1>3. /\ left = "processing" \/ left = status[m]
      /\ result = "accepted" => left = "processing"
      /\ faults' \in 0..MaxFaults
      BY <1>0, <1>2, ProcessingAnswer
<1>4. /\ status' \in [Msgs -> Statuses]
      /\ status'[m] = left
      /\ \A n \in Msgs \ {m} : status'[n] = status[n]
      BY <1>0, <1>2, SMT DEF TypeOK
<1>5. turn.todo \subseteq turn.originals /\ turn.originals \subseteq Msgs
      BY <1>0, <1>1, TurnFields, SMT DEF TurnFits
<1>6. Resumed /\ signal' \in Kinds
  <2>1. CASE /\ turn' = [turn EXCEPT !.pc = "absent", !.cur = {m}]
             /\ UNCHANGED <<inflight, attempts, retained, signal>>
    <3>1. /\ turn'.pc = "absent" /\ turn'.members = turn.members
          /\ turn'.originals = turn.originals /\ turn'.charged = turn.charged
          /\ turn'.todo = turn.todo /\ turn'.phase = turn.phase /\ turn'.cur = {m}
          BY <1>0, <2>1, SMT DEF Turns
    <3>2. turn' \in Turns BY <1>0, <2>1, Zenon DEF Turns, Steps
    <3>3. TurnFits'
          BY <1>0, <1>1, <1>4, <1>5, <2>1, <3>1, SMT DEF TurnFits, Undecided
    <3> QED BY <1>0, <2>1, <3>2, <3>3, SMT DEF Resumed, TypeOK
  <2>2. CASE result = "accepted" /\ ConfirmNext(turn.originals, turn.todo \ {m})
    <3>1. \A n \in turn.originals \ (turn.todo \ {m}) : status'[n] \in {"processing", "gone"}
          BY <1>0, <1>1, <1>3, <1>4, <1>5, <2>2, SMT DEF TurnFits
    <3> DEFINE rest == turn.todo \ {m}
    <3>2. rest \subseteq turn.originals BY <1>5
    <3> HIDE DEF rest
    <3> QED BY <1>1, <2>2, <3>1, <3>2, ConfirmNextResumes, Zenon DEF rest
  <2>3. CASE Finish(Unadmitted) /\ UNCHANGED signal
        BY <1>0, <2>3, FinishEffect, EndedResumed
  <2> QED BY <1>2, <2>1, <2>2, <2>3
<1>7. TypeOK' BY <1>0, <1>1, <1>3, <1>4, <1>6, SMT DEF TypeOK, Resumed
<1>8. ASSUME NEW n \in Msgs PROVE Ledger(n)'
  <2>1. CASE n # m BY <1>0, <1>1, <1>4, <1>6, <2>1, LedgerKept, SMT DEF Resumed
  <2>2. CASE n = m
    <3>1. pending[m] = NoWrite /\ m \notin done \ misread
          BY <1>0, <1>1, <1>5, SMT DEF TurnFits, Undecided
    <3> QED BY <1>0, <1>1, <1>3, <1>4, <2>2, <3>1, SMT DEF Ledger
  <2> QED BY <2>1, <2>2
<1> QED BY <1>6, <1>7, <1>8 DEF IInv, Resumed

LEMMA ConfirmProbeStep ==
    ASSUME IInv, ConfirmProbe
    PROVE  IInv'
<1> USE DEF room
<1>0. /\ TypeOK /\ (\A n \in Msgs : Ledger(n)) /\ TurnFits
      /\ turn \in Turns /\ signal \in Kinds
      BY DEF IInv, TypeOK
<1>1. /\ turn.pc = "absent"
      /\ UNCHANGED <<status, pending, completed, exhausted, room, backoff, controls,
                     rejoins, done, failures, misread>>
      BY DEF ConfirmProbe
<1>2. PICK readable \in BOOLEAN :
        /\ Probe(readable)
        /\ \/ ConfirmNext(turn.originals \ turn.cur, turn.todo \ turn.cur)
           \/ Finish(Unadmitted) /\ UNCHANGED signal
      BY Zenon DEF ConfirmProbe
<1>3. faults' \in 0..MaxFaults BY <1>0, <1>2, ProbeTyped
<1>4. Resumed /\ signal' \in Kinds
  <2>1. CASE ConfirmNext(turn.originals \ turn.cur, turn.todo \ turn.cur)
    <3> DEFINE originals == turn.originals \ turn.cur
               todo == turn.todo \ turn.cur
    <3>1. /\ originals \subseteq turn.originals /\ todo \subseteq originals
          /\ \A n \in originals \ todo : status'[n] \in {"processing", "gone"}
          BY <1>0, <1>1, SMT DEF TurnFits
    <3> HIDE DEF originals, todo
    <3> QED BY <1>1, <2>1, <3>1, ConfirmNextResumes, Zenon DEF originals, todo
  <2>2. CASE Finish(Unadmitted) /\ UNCHANGED signal
        BY <1>0, <2>2, FinishEffect, EndedResumed
  <2> QED BY <1>2, <2>1, <2>2
<1>5. TypeOK' BY <1>0, <1>1, <1>3, <1>4, SMT DEF TypeOK, Resumed
<1>6. \A n \in Msgs : Ledger(n)' BY <1>0, <1>1, <1>4, LedgerKept, SMT DEF Resumed
<1> QED BY <1>4, <1>5, <1>6 DEF IInv, Resumed

-----------------------------------------------------------------------------
(* The admitted turn *)

LEMMA TerminalIntentTyped ==
    ASSUME NEW t
    PROVE  TerminalIntent(t) \in Intents
BY SMT DEF TerminalIntent, Intents

\* What a stored intent does to each pending settlement.
LEMMA RecordedValue ==
    ASSUME NEW ms, NEW intent, NEW count, NEW n \in Msgs
    PROVE  /\ n \notin ms \/ intent = "none" => Recorded(ms, intent, count)[n] = pending[n]
           /\ n \in ms /\ intent # "none" => Recorded(ms, intent, count)[n].status = intent
BY SMT DEF Recorded

\* Storing the intent of an admitted turn settles only originals that owed
\* nothing, were undecided and were shown as processing.
LEMMA StoreIntentStep ==
    ASSUME IInv, turn.pc \in {"context", "running"}, StoreIntent("resolve"),
           UNCHANGED <<status, completed, room, backoff, faults, controls, rejoins,
                       signal, misread>>
    PROVE  IInv'
<1> USE DEF room
<1>0. TypeOK /\ (\A n \in Msgs : Ledger(n)) /\ TurnFits /\ turn \in Turns BY DEF IInv, TypeOK
<1> DEFINE intent == TerminalIntent(turn)
           charges == turn.control /\ intent = "failed"
           count == IF charges THEN Charged(turn.originals) ELSE attempts
<1>1. intent \in Intents BY TerminalIntentTyped
<1>2. /\ turn.originals \subseteq Msgs /\ turn.originals \subseteq turn.members
      /\ \A n \in turn.originals : /\ pending[n] = NoWrite
                                   /\ n \notin done \ misread
                                   /\ status[n] \in {"processing", "gone"}
      BY <1>0, TurnFields, SMT DEF TurnFits, Undecided
<1>3. /\ count \in [Msgs -> Nat]
      /\ \A n \in Msgs : count[n] >= attempts[n]
  <2> HIDE DEF intent
  <2>1. attempts \in [Msgs -> Nat] BY <1>0 DEF TypeOK
  <2>2. /\ Charged(turn.originals) \in [Msgs -> Nat]
        /\ \A n \in Msgs : Charged(turn.originals)[n] >= attempts[n]
        BY <2>1, ChargedTyped, SMT DEF Charged
  <2> QED BY <2>1, <2>2, SMT
<1>4. /\ turn' = [turn EXCEPT !.pc = "resolve", !.intent = intent, !.phase = "settled",
                              !.todo = IF intent = "none" THEN {} ELSE turn.originals]
      /\ attempts' = count
      /\ exhausted' = IF charges THEN exhausted \cup Exceeded(turn.originals)
                                 ELSE exhausted
      /\ pending' = Recorded(turn.originals, intent, count)
      /\ done' = IF intent = "processed" THEN done \cup turn.originals ELSE done
      /\ failures' = [m \in Msgs |-> IF m \in turn.originals /\ intent = "failed"
                                     THEN failures[m] + 1 ELSE failures[m]]
      /\ UNCHANGED <<inflight, retained>>
      BY Zenon DEF StoreIntent
<1> HIDE DEF intent, charges, count
<1>5. /\ turn'.pc = "resolve" /\ turn'.members = turn.members
      /\ turn'.originals = turn.originals /\ turn'.charged = turn.charged
      /\ turn'.phase = "settled"
      BY <1>0, <1>4, SMT DEF Turns
<1>6. turn' \in Turns
  <2> DEFINE todo == IF intent = "none" THEN {} ELSE turn.originals
  <2>1. todo \in SUBSET Msgs BY <1>2
  <2>2. turn' = [turn EXCEPT !.pc = "resolve", !.intent = intent, !.phase = "settled",
                             !.todo = todo]
        BY <1>4
  <2> HIDE DEF todo
  <2> QED BY <1>0, <1>1, <2>1, <2>2, Zenon DEF Turns, Steps
<1>7. pending' \in [Msgs -> Writes]
      BY <1>0, <1>1, <1>3, <1>4, RecordedTyped, Zenon DEF TypeOK
<1>8. /\ exhausted' \subseteq Msgs /\ done' \subseteq Msgs
      /\ failures' \in [Msgs -> Nat]
      BY <1>0, <1>2, <1>4, SMT DEF TypeOK, Exceeded
<1>9. TypeOK' BY <1>0, <1>3, <1>4, <1>6, <1>7, <1>8, SMT DEF TypeOK
<1>10. ASSUME NEW n \in Msgs PROVE Ledger(n)'
  <2>1. CASE n \notin turn.originals \/ intent = "none"
    <3>1. pending'[n] = pending[n] BY <1>4, <2>1, RecordedValue
    <3>2. n \in done' <=> n \in done BY <1>4, <2>1, SMT
    <3> QED BY <1>0, <1>4, <3>1, <3>2, SMT DEF Ledger
  <2>2. CASE n \in turn.originals /\ intent # "none"
    <3>1. pending'[n].status = intent BY <1>4, <2>2, RecordedValue
    <3> QED BY <1>1, <1>2, <1>4, <2>2, <3>1, SMT DEF Ledger, Intents, NoWrite
  <2> QED BY <2>1, <2>2
<1>11. TurnFits'
  <2>1. \A n \in turn'.charged : attempts'[n] > 0
        BY <1>0, <1>3, <1>4, <1>5, TurnFields, SMT DEF TurnFits, TypeOK
  <2> QED BY <1>0, <1>4, <1>5, <2>1, SMT DEF TurnFits, Undecided
<1> QED BY <1>9, <1>10, <1>11 DEF IInv

LEMMA ExecuteDeliveryStep ==
    ASSUME IInv, ExecuteDelivery
    PROVE  IInv'
<1> USE DEF room
<1>0. TypeOK /\ (\A n \in Msgs : Ledger(n)) /\ TurnFits /\ turn \in Turns BY DEF IInv, TypeOK
<1>1. /\ turn.pc = "context"
      /\ UNCHANGED <<status, completed, room, backoff, faults, controls, rejoins,
                     signal, misread>>
      BY DEF ExecuteDelivery
<1>2. CASE StoreIntent("resolve") BY <1>1, <1>2, StoreIntentStep
<1>3. CASE /\ UNCHANGED <<pending, exhausted, done, failures>>
           /\ Finish(Unadmitted)
  <2>1. Ended BY <1>3, FinishEffect
  <2>2. TypeOK' BY <1>0, <1>1, <1>3, <2>1, NoTurnTyped, SMT DEF TypeOK, Ended
  <2>3. \A m \in Msgs : Ledger(m)' BY <1>0, <1>1, <1>3, <2>1, LedgerKept, SMT DEF Ended
  <2> QED BY <2>1, <2>2, <2>3, EndedFits DEF IInv
<1>4. CASE /\ turn' = [turn EXCEPT !.pc = "running", !.handler = "running"]
           /\ UNCHANGED <<pending, inflight, attempts, exhausted, retained, done,
                          failures>>
  <2>1. /\ turn'.pc = "running" /\ turn'.members = turn.members
        /\ turn'.originals = turn.originals /\ turn'.charged = turn.charged
        /\ turn'.phase = turn.phase /\ turn'.todo = turn.todo
        BY <1>0, <1>4, SMT DEF Turns
  <2>2. turn' \in Turns BY <1>0, <1>4, Zenon DEF Turns, Steps
  <2>3. TypeOK' BY <1>0, <1>1, <1>4, <2>2, SMT DEF TypeOK
  <2>4. \A m \in Msgs : Ledger(m)' BY <1>0, <1>1, <1>4, LedgerKept, SMT
  <2>5. TurnFits' BY <1>0, <1>1, <1>4, <2>1, SMT DEF TurnFits, Undecided
  <2> QED BY <2>3, <2>4, <2>5 DEF IInv
<1> QED BY <1>2, <1>3, <1>4, Zenon DEF ExecuteDelivery

LEMMA SelectIntentStep ==
    ASSUME IInv, SelectIntent
    PROVE  IInv'
BY StoreIntentStep, Zenon DEF SelectIntent

\* A step that leaves everything alone but flags of the turn, the fault and
\* control counts and the latest signal.
LEMMA FlagsStep ==
    ASSUME IInv, turn' \in Turns, turn'.pc = turn.pc, turn'.members = turn.members,
           turn'.originals = turn.originals, turn'.charged = turn.charged,
           turn'.phase = turn.phase, turn'.todo = turn.todo, turn'.cur = turn.cur,
           turn.pc = "idle" => turn' = turn,
           faults' \in 0..MaxFaults, controls' \in 0..MaxControls, signal' \in Kinds,
           stopped' \in BOOLEAN, observer' \in BOOLEAN, backoff' \subseteq Msgs,
           UNCHANGED <<status, pending, inflight, completed, attempts, exhausted,
                       retained, alive, closing, rejoins, done, failures, misread>>
    PROVE  IInv'
<1>0. TypeOK /\ (\A n \in Msgs : Ledger(n)) /\ TurnFits BY DEF IInv
<1>1. TypeOK' BY <1>0, SMT DEF TypeOK
<1>2. \A m \in Msgs : Ledger(m)' BY <1>0, LedgerKept, SMT
<1>3. TurnFits' BY <1>0, SMT DEF TurnFits
<1> QED BY <1>1, <1>2, <1>3 DEF IInv

LEMMA HandlerEndsStep ==
    ASSUME IInv, NEW result \in {"ok", "error", "refused", "stopped", "cancelled"},
           HandlerEnds(result)
    PROVE  IInv'
<1> USE DEF room, history, registry, tracker
<1>0. TypeOK /\ turn \in Turns BY DEF IInv, TypeOK
<1>1. PICK consumed \in BOOLEAN :
        turn' = [turn EXCEPT !.handler = result, !.consumed = consumed]
      BY Zenon DEF HandlerEnds
<1>2. turn' \in Turns BY <1>0, <1>1, Zenon DEF Turns
<1>3. /\ turn'.pc = turn.pc /\ turn'.members = turn.members
      /\ turn'.originals = turn.originals /\ turn'.charged = turn.charged
      /\ turn'.phase = turn.phase /\ turn'.todo = turn.todo /\ turn'.cur = turn.cur
      BY <1>0, <1>1, SMT DEF Turns
<1>4. faults' \in 0..MaxFaults BY <1>0, BoundsAssumption, SMT DEF HandlerEnds, TypeOK
<1>5. turn.pc # "idle" BY DEF HandlerEnds
<1>6. /\ controls' \in 0..MaxControls /\ signal' \in Kinds /\ stopped' \in BOOLEAN
      /\ observer' \in BOOLEAN /\ backoff' \subseteq Msgs
      BY <1>0, SMT DEF HandlerEnds, TypeOK
<1> QED BY <1>2, <1>3, <1>4, <1>5, <1>6, FlagsStep, SMT DEF HandlerEnds

LEMMA CycleTimeoutStep ==
    ASSUME IInv, CycleTimeout
    PROVE  IInv'
<1> USE DEF room, history, registry, tracker
<1>0. TypeOK /\ turn \in Turns BY DEF IInv, TypeOK
<1>1. turn' = [turn EXCEPT !.timedOut = TRUE, !.terminating = TRUE] BY DEF CycleTimeout
<1>2. turn' \in Turns BY <1>0, <1>1, Zenon DEF Turns
<1>3. /\ turn'.pc = turn.pc /\ turn'.members = turn.members
      /\ turn'.originals = turn.originals /\ turn'.charged = turn.charged
      /\ turn'.phase = turn.phase /\ turn'.todo = turn.todo /\ turn'.cur = turn.cur
      BY <1>0, <1>1, SMT DEF Turns
<1>5. turn.pc # "idle" BY DEF CycleTimeout
<1>6. /\ controls' \in 0..MaxControls /\ signal' \in Kinds /\ stopped' \in BOOLEAN
      /\ observer' \in BOOLEAN /\ backoff' \subseteq Msgs /\ faults' \in 0..MaxFaults
      BY <1>0, SMT DEF CycleTimeout, TypeOK
<1> QED BY <1>2, <1>3, <1>5, <1>6, FlagsStep, SMT DEF CycleTimeout

LEMMA ResolveStep ==
    ASSUME IInv, Resolve
    PROVE  IInv'
<1> USE DEF room, history
<1>0. TypeOK /\ (\A n \in Msgs : Ledger(n)) /\ TurnFits /\ turn \in Turns BY DEF IInv, TypeOK
<1> DEFINE writes == {m \in turn.todo : pending[m] # NoWrite}
<1>1. /\ turn.pc = "resolve"
      /\ UNCHANGED <<status, pending, completed, exhausted, room, backoff, faults,
                     controls, rejoins, history>>
      BY DEF Resolve
<1>2. \/ \E outcome : Finish(outcome)
      \/ /\ turn' = [turn EXCEPT !.pc = "settle", !.todo = writes]
         /\ UNCHANGED <<inflight, attempts, retained>>
      BY Zenon DEF Resolve
<1>3. CASE \E outcome : Finish(outcome)
  <2>1. Ended BY <1>3, FinishEffect
  <2>2. TypeOK' BY <1>0, <1>1, <2>1, NoTurnTyped, SMT DEF TypeOK, Ended
  <2>3. \A m \in Msgs : Ledger(m)' BY <1>0, <1>1, <2>1, LedgerKept, SMT DEF Ended
  <2> QED BY <2>1, <2>2, <2>3, EndedFits DEF IInv
<1>4. CASE /\ turn' = [turn EXCEPT !.pc = "settle", !.todo = writes]
           /\ UNCHANGED <<inflight, attempts, retained>>
  <2>1. writes \in SUBSET Msgs BY <1>0, TurnFields
  <2>2. \A m \in writes : pending[m] # NoWrite OBVIOUS
  <2> HIDE DEF writes
  <2>3. /\ turn'.pc = "settle" /\ turn'.members = turn.members
        /\ turn'.charged = turn.charged
        /\ turn'.phase = turn.phase /\ turn'.todo = writes
        BY <1>0, <1>4, SMT DEF Turns
  <2>4. turn' \in Turns BY <1>0, <1>4, <2>1, Zenon DEF Turns, Steps
  <2>5. TypeOK' BY <1>0, <1>1, <1>4, <2>4, SMT DEF TypeOK
  <2>6. \A m \in Msgs : Ledger(m)' BY <1>0, <1>1, <1>4, LedgerKept, SMT
  <2>7. TurnFits' BY <1>0, <1>1, <1>4, <2>2, <2>3, SMT DEF TurnFits, Undecided
  <2> QED BY <2>5, <2>6, <2>7 DEF IInv
<1> QED BY <1>2, <1>3, <1>4

-----------------------------------------------------------------------------
(* The terminal writes *)

\* A pending settlement carries the status it is to write.
LEMMA OwedStatus ==
    ASSUME TypeOK, NEW m \in Msgs, Ledger(m), pending[m] # NoWrite
    PROVE  pending[m].status \in {"processed", "failed"}
BY SMT DEF TypeOK, Ledger, Writes, Intents

\* An answer to a terminal write leaves the status or shows the write.
LEMMA TerminalAnswer ==
    ASSUME TypeOK, NEW m \in Msgs, NEW write \in {"processed", "failed"},
           NEW result, NEW left, Answer(m, write, result, left)
    PROVE  /\ left = write \/ left = status[m]
           /\ result = "accepted" => left = write
           /\ result \in {"rejected", "stopped", "not_found"} => left = status[m]
           /\ faults' \in 0..MaxFaults
BY BoundsAssumption, SMT DEF Answer, Lands, TypeOK

\* Parking and unparking a settlement keep what it is to write.
LEMMA ParkingKeeps ==
    ASSUME NEW w \in Writes, NEW b \in BOOLEAN
    PROVE  /\ [w EXCEPT !.parked = b] \in Writes
           /\ [w EXCEPT !.parked = b].status = w.status
           /\ [w EXCEPT !.parked = b].retry = w.retry
<1>1. [w EXCEPT !.parked = b] \in Writes BY Zenon DEF Writes
<1>2. /\ [w EXCEPT !.parked = b].status = w.status
      /\ [w EXCEPT !.parked = b].retry = w.retry
      BY SMT DEF Writes
<1> QED BY <1>1, <1>2

LEMMA NotParked ==
    ASSUME NEW w \in Writes, w.parked = FALSE
    PROVE  [w EXCEPT !.parked = FALSE] = w
BY SMT DEF Writes

LEMMA ParkedEffect ==
    ASSUME TypeOK, NEW m \in Msgs, Parked(m)
    PROVE  /\ pending' \in [Msgs -> Writes]
           /\ pending'[m].status = pending[m].status
           /\ pending'[m].retry = pending[m].retry
           /\ \A n \in Msgs \ {m} : pending'[n] = pending[n]
           /\ UNCHANGED <<completed, exhausted, backoff>>
<1>1. pending \in [Msgs -> Writes] /\ pending[m] \in Writes BY DEF TypeOK
<1> DEFINE parked == [pending[m] EXCEPT !.parked = TRUE]
<1>2. /\ parked \in Writes
      /\ parked.status = pending[m].status
      /\ parked.retry = pending[m].retry
      BY <1>1, ParkingKeeps
<1>3. pending' = [pending EXCEPT ![m] = parked] BY DEF Parked
<1>4. UNCHANGED <<completed, exhausted, backoff>> BY DEF Parked
<1> HIDE DEF parked
<1> QED BY <1>1, <1>2, <1>3, <1>4, SMT

LEMMA ConfirmedEffect ==
    ASSUME TypeOK, NEW m \in Msgs, Confirmed(m)
    PROVE  /\ pending' \in [Msgs -> Writes]
           /\ pending'[m] = NoWrite
           /\ \A n \in Msgs \ {m} : pending'[n] = pending[n]
           /\ completed \subseteq completed' /\ completed' \subseteq Msgs
           /\ pending[m].status = "processed" => m \in completed'
           /\ exhausted' \subseteq Msgs /\ backoff' \subseteq Msgs
BY NoWriteTyped, SMT DEF TypeOK, Confirmed

\* settle's loop goes on with writes that are still owed, or ends the attempt.
LEMMA SettleNextResumes ==
    ASSUME IInv, turn.pc \in {"settle", "gone"}, NEW todo, todo \subseteq Msgs,
           \A m \in todo : pending'[m] # NoWrite, alive' = alive, SettleNext(todo)
    PROVE  Resumed
<1>0. TypeOK /\ TurnFits /\ turn \in Turns BY DEF IInv, TypeOK
<1>1. CASE todo = {}
  <2>1. PICK outcome : Finish(outcome) BY <1>1 DEF SettleNext
  <2> QED BY <2>1, FinishEffect, EndedResumed
<1>2. CASE todo # {}
  <2>0. /\ turn' = [turn EXCEPT !.pc = "settle", !.todo = todo, !.cur = {}]
        /\ UNCHANGED <<inflight, attempts, retained>>
        BY <1>2 DEF SettleNext
  <2>1. /\ turn'.pc = "settle" /\ turn'.members = turn.members
        /\ turn'.charged = turn.charged /\ turn'.phase = turn.phase /\ turn'.todo = todo
        BY <1>0, <2>0, SMT DEF Turns
  <2>2. turn' \in Turns BY <1>0, <2>0, Zenon DEF Turns, Steps
  <2>3. TurnFits' BY <1>0, <2>0, <2>1, SMT DEF TurnFits, Undecided
  <2> QED BY <1>0, <2>0, <2>2, <2>3, SMT DEF Resumed, TypeOK
<1> QED BY <1>1, <1>2

LEMMA WriteSettlementStep ==
    ASSUME IInv, NEW m \in Msgs, WriteSettlement(m)
    PROVE  IInv'
<1> USE DEF room, history
<1>0. TypeOK /\ (\A n \in Msgs : Ledger(n)) /\ TurnFits /\ turn \in Turns BY DEF IInv, TypeOK
<1>1. /\ turn.pc = "settle" /\ m \in turn.todo
      /\ UNCHANGED <<room, controls, rejoins, history>>
      BY DEF WriteSettlement
<1>2. turn.todo \subseteq Msgs /\ \A n \in turn.todo : pending[n] # NoWrite
      BY <1>0, <1>1, TurnFields, SMT DEF TurnFits
<1>3. pending[m].status \in {"processed", "failed"} BY <1>0, <1>1, <1>2, OwedStatus
<1> DEFINE rest == turn.todo \ {m}
<1>4. PICK result \in Results, left \in Statuses :
        /\ Answer(m, pending[m].status, result, left)
        /\ status' = [status EXCEPT ![m] = left]
        /\ \/ result = "accepted" /\ Confirmed(m) /\ SettleNext(rest)
           \/ result = "rejected" /\ Parked(m) /\ SettleNext(rest)
           \/ /\ result = "unconfirmed" /\ backoff' = backoff \cup {m}
              /\ UNCHANGED <<pending, completed, exhausted>>
              /\ SettleNext(rest)
           \/ /\ result = "stopped"
              /\ UNCHANGED <<pending, completed, exhausted, backoff>>
              /\ SettleNext({})
           \/ /\ result = "not_found"
              /\ turn' = [turn EXCEPT !.pc = "gone", !.cur = {m}]
              /\ UNCHANGED <<pending, inflight, completed, tracker, retained, backoff>>
  <2>1. PICK result \in Results, left \in Statuses :
          /\ Answer(m, pending[m].status, result, left)
          /\ status' = [status EXCEPT ![m] = left]
          /\ CASE result = "accepted" -> Confirmed(m) /\ SettleNext(turn.todo \ {m})
               [] result = "rejected" -> Parked(m) /\ SettleNext(turn.todo \ {m})
               [] result = "unconfirmed" ->
                    /\ backoff' = backoff \cup {m}
                    /\ UNCHANGED <<pending, completed, exhausted>>
                    /\ SettleNext(turn.todo \ {m})
               [] result = "stopped" ->
                    /\ UNCHANGED <<pending, completed, exhausted, backoff>>
                    /\ SettleNext({})
               [] result = "not_found" ->
                    /\ turn' = [turn EXCEPT !.pc = "gone", !.cur = {m}]
                    /\ UNCHANGED <<pending, inflight, completed, tracker, retained,
                                   backoff>>
        BY Zenon DEF WriteSettlement
  <2>2. \/ result = "accepted" \/ result = "rejected" \/ result = "unconfirmed"
        \/ result = "stopped" \/ result = "not_found"
        BY SMT DEF Results
  <2> QED BY <2>1, <2>2, Zenon
<1>5. /\ left = pending[m].status \/ left = status[m]
      /\ result = "accepted" => left = pending[m].status
      /\ result \in {"rejected", "stopped", "not_found"} => left = status[m]
      /\ faults' \in 0..MaxFaults
      BY <1>0, <1>3, <1>4, TerminalAnswer
<1>6. /\ status' \in [Msgs -> Statuses]
      /\ status'[m] = left
      /\ \A n \in Msgs \ {m} : status'[n] = status[n]
      BY <1>0, <1>4, SMT DEF TypeOK
<1>7. rest \subseteq Msgs /\ m \notin rest /\ \A n \in rest : pending[n] # NoWrite
      BY <1>2
<1> HIDE DEF rest
<1>8. /\ pending' \in [Msgs -> Writes]
      /\ \A n \in Msgs \ {m} : pending'[n] = pending[n]
      /\ completed \subseteq completed' /\ completed' \subseteq Msgs
      /\ exhausted' \subseteq Msgs /\ backoff' \subseteq Msgs
      /\ Resumed
      /\ \/ /\ pending'[m].status = pending[m].status
         \/ /\ left = pending[m].status /\ pending'[m] = NoWrite
            /\ pending[m].status = "processed" => m \in completed'
  <2>1. CASE result = "accepted" /\ Confirmed(m) /\ SettleNext(rest)
    <3>1. /\ pending' \in [Msgs -> Writes]
          /\ pending'[m] = NoWrite
          /\ \A n \in Msgs \ {m} : pending'[n] = pending[n]
          /\ completed \subseteq completed' /\ completed' \subseteq Msgs
          /\ pending[m].status = "processed" => m \in completed'
          /\ exhausted' \subseteq Msgs /\ backoff' \subseteq Msgs
          BY <1>0, <2>1, ConfirmedEffect
    <3>2. \A n \in rest : pending'[n] # NoWrite BY <1>7, <3>1
    <3>3. Resumed BY <1>1, <1>7, <2>1, <3>2, SettleNextResumes, Zenon
    <3> QED BY <1>5, <2>1, <3>1, <3>3
  <2>2. CASE result = "rejected" /\ Parked(m) /\ SettleNext(rest)
    <3>1. /\ pending' \in [Msgs -> Writes]
          /\ pending'[m].status = pending[m].status
          /\ \A n \in Msgs \ {m} : pending'[n] = pending[n]
          /\ UNCHANGED <<completed, exhausted, backoff>>
          BY <1>0, <2>2, ParkedEffect
    <3>2. \A n \in rest : pending'[n] # NoWrite BY <1>7, <3>1
    <3>3. Resumed BY <1>1, <1>7, <2>2, <3>2, SettleNextResumes, Zenon
    <3> QED BY <1>0, <3>1, <3>3, SMT DEF TypeOK
  <2>3. CASE /\ result = "unconfirmed" /\ backoff' = backoff \cup {m}
             /\ UNCHANGED <<pending, completed, exhausted>>
             /\ SettleNext(rest)
    <3>1. Resumed BY <1>1, <1>7, <2>3, SettleNextResumes, Zenon
    <3> QED BY <1>0, <2>3, <3>1, SMT DEF TypeOK
  <2>4. CASE /\ result = "stopped"
             /\ UNCHANGED <<pending, completed, exhausted, backoff>>
             /\ SettleNext({})
    <3>1. Resumed BY <1>1, <2>4, SettleNextResumes, Zenon
    <3> QED BY <1>0, <2>4, <3>1, SMT DEF TypeOK
  <2>5. CASE /\ result = "not_found"
             /\ turn' = [turn EXCEPT !.pc = "gone", !.cur = {m}]
             /\ UNCHANGED <<pending, inflight, completed, tracker, retained, backoff>>
    <3>1. /\ turn'.pc = "gone" /\ turn'.members = turn.members
          /\ turn'.charged = turn.charged /\ turn'.phase = turn.phase
          /\ turn'.todo = turn.todo /\ turn'.cur = {m}
          BY <1>0, <2>5, SMT DEF Turns
    <3>2. turn' \in Turns BY <1>0, <2>5, Zenon DEF Turns, Steps
    <3>3. TurnFits'
          BY <1>0, <1>1, <1>2, <2>5, <3>1, SMT DEF TurnFits, Undecided, tracker
    <3> QED BY <1>0, <2>5, <3>2, <3>3, SMT DEF Resumed, TypeOK, tracker
  <2> QED BY <1>4, <2>1, <2>2, <2>3, <2>4, <2>5
<1>9. TypeOK' BY <1>0, <1>1, <1>5, <1>6, <1>8, SMT DEF TypeOK, Resumed
<1>10. ASSUME NEW n \in Msgs PROVE Ledger(n)'
  <2>1. CASE n # m BY <1>0, <1>1, <1>6, <1>8, <2>1, LedgerKept, SMT DEF Resumed
  <2>2. CASE n = m
    <3>1. Ledger(m) BY <1>0
    <3>2. /\ UNCHANGED <<done, misread>> /\ retained' \subseteq retained
          BY <1>1, <1>8 DEF Resumed
    <3>3. CASE pending'[m].status = pending[m].status
          BY <1>3, <1>5, <1>6, <1>8, <2>2, <3>1, <3>2, <3>3, SMT DEF Ledger, NoWrite
    <3>4. CASE /\ left = pending[m].status /\ pending'[m] = NoWrite
               /\ pending[m].status = "processed" => m \in completed'
          BY <1>3, <1>6, <2>2, <3>1, <3>2, <3>4, SMT DEF Ledger, NoWrite
    <3> QED BY <1>8, <3>3, <3>4
  <2> QED BY <2>1, <2>2
<1> QED BY <1>8, <1>9, <1>10 DEF IInv, Resumed

LEMMA SettleProbeStep ==
    ASSUME IInv, NEW m \in Msgs, SettleProbe(m)
    PROVE  IInv'
<1> USE DEF room
<1>0. TypeOK /\ (\A n \in Msgs : Ledger(n)) /\ TurnFits /\ turn \in Turns BY DEF IInv, TypeOK
<1>1. /\ turn.pc = "gone" /\ m \in turn.cur
      /\ UNCHANGED <<status, room, controls, rejoins, done, failures, signal>>
      BY DEF SettleProbe
<1>2. /\ turn.todo \subseteq Msgs /\ m \in turn.todo
      /\ \A n \in turn.todo : pending[n] # NoWrite
      BY <1>0, <1>1, TurnFields, SMT DEF TurnFits
<1>3. pending[m].status \in {"processed", "failed"} BY <1>0, <1>2, OwedStatus
<1> DEFINE rest == turn.todo \ {m}
<1>4. PICK readable \in BOOLEAN :
        /\ Probe(readable)
        /\ \/ /\ pending' = [pending EXCEPT ![m] = NoWrite]
              /\ completed' = completed \cup {m}
              /\ backoff' = backoff \ {m}
              /\ misread' = IF status[m] = "gone" THEN misread ELSE misread \cup {m}
              /\ UNCHANGED exhausted
           \/ Parked(m) /\ UNCHANGED misread
        /\ SettleNext(rest)
      BY Zenon DEF SettleProbe
<1>5. faults' \in 0..MaxFaults BY <1>0, <1>4, ProbeTyped
<1>6. /\ pending' \in [Msgs -> Writes]
      /\ \A n \in Msgs \ {m} : pending'[n] = pending[n]
      /\ completed \subseteq completed' /\ completed' \subseteq Msgs
      /\ exhausted' \subseteq Msgs /\ backoff' \subseteq Msgs /\ misread' \subseteq Msgs
      /\ \A n \in Msgs \ {m} : n \in misread' <=> n \in misread
      /\ \/ pending'[m].status = pending[m].status /\ misread' = misread
         \/ /\ pending'[m] = NoWrite /\ m \in completed'
            /\ misread \subseteq misread'
            /\ status[m] = "gone" \/ m \in misread'
  <2>1. CASE Parked(m) /\ UNCHANGED misread
        BY <1>0, <2>1, ParkedEffect, SMT DEF TypeOK
  <2>2. CASE /\ pending' = [pending EXCEPT ![m] = NoWrite]
             /\ completed' = completed \cup {m}
             /\ backoff' = backoff \ {m}
             /\ misread' = IF status[m] = "gone" THEN misread ELSE misread \cup {m}
             /\ UNCHANGED exhausted
        BY <1>0, <2>2, NoWriteTyped, SMT DEF TypeOK
  <2> QED BY <1>4, <2>1, <2>2
<1>7. rest \subseteq Msgs /\ \A n \in rest : pending'[n] # NoWrite BY <1>2, <1>6
<1> HIDE DEF rest
<1>8. Resumed BY <1>1, <1>4, <1>7, SettleNextResumes, Zenon
<1>9. TypeOK' BY <1>0, <1>1, <1>5, <1>6, <1>8, SMT DEF TypeOK, Resumed
<1>10. ASSUME NEW n \in Msgs PROVE Ledger(n)'
  <2>1. retained' \subseteq retained BY <1>8 DEF Resumed
  <2>2. CASE n # m BY <1>0, <1>1, <1>6, <2>1, <2>2, SMT DEF Ledger
  <2>3. CASE n = m
    <3>1. Ledger(m) BY <1>0
    <3>2. CASE pending'[m].status = pending[m].status /\ misread' = misread
          BY <1>1, <1>3, <2>3, <3>1, <3>2, SMT DEF Ledger, NoWrite
    <3>3. CASE /\ pending'[m] = NoWrite /\ m \in completed'
               /\ misread \subseteq misread'
               /\ status[m] = "gone" \/ m \in misread'
          BY <1>1, <2>3, <3>1, <3>3, SMT DEF Ledger, NoWrite
    <3> QED BY <1>6, <3>2, <3>3
  <2> QED BY <2>2, <2>3
<1> QED BY <1>8, <1>9, <1>10 DEF IInv, Resumed

-----------------------------------------------------------------------------
(* What happens around an attempt *)

LEMMA SignalledEffect ==
    ASSUME IInv, NEW kind \in Kinds, Signalled(kind)
    PROVE  /\ turn' \in Turns
           /\ turn'.pc = turn.pc /\ turn'.members = turn.members
           /\ turn'.originals = turn.originals /\ turn'.charged = turn.charged
           /\ turn'.phase = turn.phase /\ turn'.todo = turn.todo /\ turn'.cur = turn.cur
           /\ turn.pc = "idle" => turn' = turn
           /\ controls' \in 0..MaxControls /\ signal' \in Kinds
<1>0. TypeOK /\ turn \in Turns BY DEF IInv, TypeOK
<1>1. controls' \in 0..MaxControls /\ signal' \in Kinds
      BY <1>0, BoundsAssumption, SMT DEF Signalled, TypeOK
<1>2. CASE turn.pc = "idle"
  <2>1. turn' = turn BY <1>2, Zenon DEF Signalled
  <2> QED BY <1>0, <1>1, <2>1
<1>3. CASE turn.pc # "idle"
  <2> DEFINE running == turn.phase = "admitted"
             k == IF running THEN kind ELSE turn.kind
             term == running \/ turn.terminating
  <2>1. k \in Kinds /\ term \in BOOLEAN BY <1>0, TurnFields
  <2>2. turn' = [turn EXCEPT !.stale = TRUE, !.kind = k, !.terminating = term]
        BY <1>3, Zenon DEF Signalled
  <2> HIDE DEF k, term
  <2>3. turn' \in Turns BY <1>0, <2>1, <2>2, Zenon DEF Turns
  <2>4. /\ turn'.pc = turn.pc /\ turn'.members = turn.members
        /\ turn'.originals = turn.originals /\ turn'.charged = turn.charged
        /\ turn'.phase = turn.phase /\ turn'.todo = turn.todo /\ turn'.cur = turn.cur
        BY <1>0, <2>2, SMT DEF Turns
  <2> QED BY <1>1, <1>3, <2>3, <2>4
<1> QED BY <1>2, <1>3

LEMMA InterruptStep ==
    ASSUME IInv, Interrupt
    PROVE  IInv'
<1> USE DEF room, registry, tracker
<1>1. Signalled("interrupt") /\ "interrupt" \in Kinds BY DEF Interrupt, Kinds
<1>2. /\ faults' \in 0..MaxFaults /\ stopped' \in BOOLEAN
      /\ observer' \in BOOLEAN /\ backoff' \subseteq Msgs
      BY SMT DEF Interrupt, IInv, TypeOK
<1> QED BY <1>1, <1>2, SignalledEffect, FlagsStep, SMT DEF Interrupt

LEMMA StopRoomStep ==
    ASSUME IInv, StopRoom
    PROVE  IInv'
<1> USE DEF registry, tracker
<1>1. Signalled("stop") /\ "stop" \in Kinds BY DEF StopRoom, Kinds
<1>2. /\ faults' \in 0..MaxFaults /\ stopped' \in BOOLEAN
      /\ observer' \in BOOLEAN /\ backoff' \subseteq Msgs
      BY SMT DEF StopRoom, IInv, TypeOK
<1> QED BY <1>1, <1>2, SignalledEffect, FlagsStep, SMT DEF StopRoom

LEMMA ResumeRoomStep ==
    ASSUME IInv, ResumeRoom
    PROVE  IInv'
<1> USE DEF registry, tracker, history
<1>0. TypeOK /\ turn \in Turns BY DEF IInv, TypeOK
<1>1. /\ faults' \in 0..MaxFaults /\ signal' \in Kinds
      /\ backoff' \subseteq Msgs /\ controls' \in 0..MaxControls
      BY <1>0, BoundsAssumption, SMT DEF ResumeRoom, TypeOK
<1>b. stopped' \in BOOLEAN /\ observer' \in BOOLEAN
      BY <1>0, Zenon DEF ResumeRoom, TypeOK
<1>2. /\ turn' \in Turns
      /\ turn'.pc = turn.pc /\ turn'.members = turn.members
      /\ turn'.originals = turn.originals /\ turn'.charged = turn.charged
      /\ turn'.phase = turn.phase /\ turn'.todo = turn.todo /\ turn'.cur = turn.cur
      /\ turn.pc = "idle" => turn' = turn
  <2>1. CASE turn.pc = "idle"
    <3>1. turn' = turn BY <2>1, Zenon DEF ResumeRoom
    <3> QED BY <1>0, <3>1
  <2>2. CASE turn.pc # "idle"
    <3>1. turn' = [turn EXCEPT !.stale = TRUE] BY <2>2, Zenon DEF ResumeRoom
    <3>2. turn' \in Turns BY <1>0, <3>1, Zenon DEF Turns
    <3>3. /\ turn'.pc = turn.pc /\ turn'.members = turn.members
          /\ turn'.originals = turn.originals /\ turn'.charged = turn.charged
          /\ turn'.phase = turn.phase /\ turn'.todo = turn.todo /\ turn'.cur = turn.cur
          BY <1>0, <3>1, SMT DEF Turns
    <3> QED BY <2>2, <3>2, <3>3
  <2> QED BY <2>1, <2>2
<1> QED BY <1>1, <1>b, <1>2, FlagsStep, SMT DEF ResumeRoom

LEMMA ObservePlatformStopStep ==
    ASSUME IInv, ObservePlatformStop
    PROVE  IInv'
<1> USE DEF registry, tracker
<1>0. TypeOK /\ turn \in Turns BY DEF IInv, TypeOK
<1> DEFINE k == IF turn.kind = "none" THEN "stop" ELSE turn.kind
<1>1. k \in Kinds BY <1>0, TurnFields, SMT DEF Kinds
<1>2. turn' = [turn EXCEPT !.kind = k, !.terminating = TRUE, !.observed = TRUE]
      BY Zenon DEF ObservePlatformStop
<1> HIDE DEF k
<1>3. turn' \in Turns BY <1>0, <1>1, <1>2, Zenon DEF Turns
<1>4. /\ turn'.pc = turn.pc /\ turn'.members = turn.members
      /\ turn'.originals = turn.originals /\ turn'.charged = turn.charged
      /\ turn'.phase = turn.phase /\ turn'.todo = turn.todo /\ turn'.cur = turn.cur
      BY <1>0, <1>2, SMT DEF Turns
<1>5. turn.pc # "idle" BY DEF ObservePlatformStop
<1>6. observer' \in BOOLEAN BY Zenon DEF ObservePlatformStop
<1>7. /\ faults' \in 0..MaxFaults /\ stopped' \in BOOLEAN /\ signal' \in Kinds
      /\ backoff' \subseteq Msgs /\ controls' \in 0..MaxControls
      BY <1>0, BoundsAssumption, SMT DEF ObservePlatformStop, TypeOK, Kinds
<1> QED BY <1>3, <1>4, <1>5, <1>6, <1>7, FlagsStep, SMT DEF ObservePlatformStop

LEMMA ObserverEndsStep ==
    ASSUME IInv, ObserverEnds
    PROVE  IInv'
<1> USE DEF registry, tracker, history
<1>1. /\ turn' = turn /\ turn' \in Turns /\ faults' \in 0..MaxFaults
      /\ signal' \in Kinds /\ backoff' \subseteq Msgs /\ controls' \in 0..MaxControls
      BY SMT DEF ObserverEnds, IInv, TypeOK
<1>b. stopped' \in BOOLEAN /\ observer' \in BOOLEAN
      BY Zenon DEF ObserverEnds, IInv, TypeOK
<1> QED BY <1>1, <1>b, FlagsStep, SMT DEF ObserverEnds

LEMMA LiftWriteBackoffStep ==
    ASSUME IInv, LiftWriteBackoff
    PROVE  IInv'
<1> USE DEF registry, tracker, history, room
<1>1. /\ turn' = turn /\ turn' \in Turns /\ faults' \in 0..MaxFaults
      /\ stopped' \in BOOLEAN /\ signal' \in Kinds /\ observer' \in BOOLEAN
      /\ backoff' \subseteq Msgs /\ controls' \in 0..MaxControls
      BY SMT DEF LiftWriteBackoff, IInv, TypeOK
<1> QED BY <1>1, FlagsStep, SMT DEF LiftWriteBackoff

\* Lifting the parking of every write keeps each write and adds none.
LEMMA UnparkedEffect ==
    ASSUME TypeOK, \A m \in Msgs : Ledger(m)
    PROVE  /\ Unparked \in [Msgs -> Writes]
           /\ \A m \in Msgs : /\ Unparked[m].status = pending[m].status
                              /\ Unparked[m].retry = pending[m].retry
                              /\ Unparked[m] = NoWrite <=> pending[m] = NoWrite
<1> DEFINE lifted(m) == [pending[m] EXCEPT !.parked = FALSE]
<1>1. pending \in [Msgs -> Writes] BY DEF TypeOK
<1>2. ASSUME NEW m \in Msgs
      PROVE  /\ lifted(m) \in Writes
             /\ lifted(m).status = pending[m].status
             /\ lifted(m).retry = pending[m].retry
             /\ lifted(m) = NoWrite <=> pending[m] = NoWrite
  <2>1. pending[m] \in Writes BY <1>1
  <2>2. /\ lifted(m) \in Writes
        /\ lifted(m).status = pending[m].status
        /\ lifted(m).retry = pending[m].retry
        BY <2>1, ParkingKeeps
  <2>3. CASE pending[m] = NoWrite
    <3>1. pending[m].parked = FALSE BY <2>3 DEF NoWrite
    <3>2. lifted(m) = pending[m] BY <2>1, <3>1, NotParked
    <3> HIDE DEF lifted
    <3> QED BY <2>2, <2>3, <3>2
  <2>4. CASE pending[m] # NoWrite
    <3>1. pending[m].status # "none" BY <2>4 DEF Ledger
    <3>2. lifted(m).status # "none" BY <2>2, <3>1
    <3>3. NoWrite.status = "none" BY DEF NoWrite
    <3> HIDE DEF lifted
    <3> QED BY <2>2, <2>4, <3>2, <3>3
  <2> QED BY <2>2, <2>3, <2>4
<1>3. Unparked = [m \in Msgs |-> lifted(m)] BY DEF Unparked
<1> HIDE DEF lifted
<1> QED BY <1>2, <1>3, SMT

LEMMA ReconnectedStep ==
    ASSUME IInv, Reconnected
    PROVE  IInv'
<1> USE DEF tracker, history, room
<1>0. TypeOK /\ (\A n \in Msgs : Ledger(n)) /\ TurnFits /\ turn \in Turns BY DEF IInv, TypeOK
<1>1. /\ pending' \in [Msgs -> Writes]
      /\ \A m \in Msgs : /\ pending'[m].status = pending[m].status
                         /\ pending'[m] = NoWrite <=> pending[m] = NoWrite
      BY <1>0, UnparkedEffect, Zenon DEF Reconnected
<1>2. controls' \in 0..MaxControls BY <1>0, BoundsAssumption, SMT DEF Reconnected, TypeOK
<1>3. TypeOK' BY <1>0, <1>1, <1>2, SMT DEF Reconnected, TypeOK
<1>4. ASSUME NEW m \in Msgs PROVE Ledger(m)' BY <1>0, <1>1, SMT DEF Reconnected, Ledger
<1>5. TurnFits'
  <2>1. turn.members \subseteq Msgs /\ turn.todo \subseteq Msgs BY <1>0, TurnFields
  <2> QED BY <1>0, <1>1, <2>1, SMT DEF Reconnected, TurnFits
<1> QED BY <1>3, <1>4, <1>5 DEF IInv

LEMMA DeleteStep ==
    ASSUME IInv, NEW m \in Msgs, Delete(m)
    PROVE  IInv'
<1> USE DEF tracker, history, room, registry
<1>0. TypeOK /\ (\A n \in Msgs : Ledger(n)) /\ TurnFits /\ turn \in Turns BY DEF IInv, TypeOK
<1>1. /\ status' \in [Msgs -> Statuses] /\ status'[m] = "gone"
      /\ \A n \in Msgs \ {m} : status'[n] = status[n]
      BY <1>0, SMT DEF Delete, TypeOK, Statuses
<1>2. faults' \in 0..MaxFaults BY <1>0, BoundsAssumption, SMT DEF Delete, TypeOK
<1>3. TypeOK' BY <1>0, <1>1, <1>2, SMT DEF Delete, TypeOK
<1>4. ASSUME NEW n \in Msgs PROVE Ledger(n)' BY <1>0, <1>1, SMT DEF Delete, Ledger
<1>5. TurnFits'
  <2>1. turn.originals \subseteq Msgs BY <1>0, TurnFields
  <2> QED BY <1>0, <1>1, <2>1, SMT DEF Delete, TurnFits
<1> QED BY <1>3, <1>4, <1>5 DEF IInv

LEMMA CloseStep ==
    ASSUME IInv, Close
    PROVE  IInv'
<1> USE DEF tracker, history, registry
<1>0. TypeOK /\ (\A n \in Msgs : Ledger(n)) /\ TurnFits BY DEF IInv
<1>1. TypeOK' BY <1>0, SMT DEF Close, TypeOK
<1>2. \A m \in Msgs : Ledger(m)' BY <1>0, LedgerKept, SMT DEF Close
<1>3. TurnFits' BY <1>0, SMT DEF Close, TurnFits
<1> QED BY <1>1, <1>2, <1>3 DEF IInv

\* The cancellation unwinds the attempt at whatever await it is in; a write
\* that landed unseen is one the ledger still owes or one the turn confirms.
LEMMA CancelledStep ==
    ASSUME IInv, Cancelled
    PROVE  IInv'
<1> USE DEF history
<1>0. TypeOK /\ (\A n \in Msgs : Ledger(n)) /\ TurnFits /\ turn \in Turns BY DEF IInv, TypeOK
<1>1. /\ alive' = FALSE
      /\ UNCHANGED <<pending, completed, exhausted, closing, stopped, observer,
                     backoff, faults, controls, rejoins, history>>
      BY DEF Cancelled
<1>b. /\ alive' \in BOOLEAN /\ closing' \in BOOLEAN /\ stopped' \in BOOLEAN
      /\ observer' \in BOOLEAN
      BY <1>0, <1>1, Zenon DEF TypeOK
<1>2. Resumed
  <2>1. CASE turn.pc = "idle"
    <3>1. UNCHANGED <<inflight, attempts, retained, turn>> BY <2>1 DEF Cancelled
    <3>2. turn = NoTurn BY <1>0, <2>1 DEF TurnFits
    <3>3. TurnFits' BY <1>0, <3>1, <3>2, SMT DEF TurnFits, NoTurn, Undecided
    <3> QED BY <1>0, <3>1, <3>3, SMT DEF Resumed, TypeOK
  <2>2. CASE turn.pc # "idle"
    <3>1. Finish("cancelled") BY <2>2 DEF Cancelled
    <3> QED BY <3>1, FinishEffect, EndedResumed
  <2> QED BY <2>1, <2>2
<1>3. CASE UNCHANGED status
  <2>1. TypeOK' BY <1>0, <1>1, <1>b, <1>2, <1>3, SMT DEF TypeOK, Resumed
  <2>2. \A m \in Msgs : Ledger(m)' BY <1>0, <1>1, <1>2, <1>3, LedgerKept, SMT DEF Resumed
  <2> QED BY <1>2, <2>1, <2>2 DEF IInv, Resumed
<1>4. ASSUME NEW m \in turn.todo, NEW write,
             \/ turn.pc = "confirm" /\ write = "processing"
             \/ turn.pc = "settle" /\ write = pending[m].status,
             status' = [status EXCEPT ![m] = write]
      PROVE IInv'
  <2>1. m \in Msgs BY <1>0, TurnFields
  <2>2. CASE turn.pc = "confirm" /\ write = "processing"
    <3>1. pending[m] = NoWrite /\ m \notin done \ misread
          BY <1>0, <2>2, SMT DEF TurnFits, Undecided
    <3>2. /\ status' \in [Msgs -> Statuses] /\ status'[m] = "processing"
          /\ \A n \in Msgs \ {m} : status'[n] = status[n]
          BY <1>0, <1>4, <2>1, <2>2, SMT DEF TypeOK, Statuses
    <3>3. TypeOK' BY <1>0, <1>1, <1>b, <1>2, <3>2, SMT DEF TypeOK, Resumed
    <3>4. ASSUME NEW n \in Msgs PROVE Ledger(n)'
          BY <1>0, <1>1, <1>2, <3>1, <3>2, SMT DEF Ledger, Resumed, NoWrite
    <3> QED BY <1>2, <3>3, <3>4 DEF IInv, Resumed
  <2>3. CASE turn.pc = "settle" /\ write = pending[m].status
    <3>1. pending[m].status \in {"processed", "failed"}
          BY <1>0, <2>1, <2>3, OwedStatus, SMT DEF TurnFits
    <3>2. /\ status' \in [Msgs -> Statuses] /\ status'[m] = pending[m].status
          /\ \A n \in Msgs \ {m} : status'[n] = status[n]
          BY <1>0, <1>4, <2>1, <2>3, <3>1, SMT DEF TypeOK, Statuses
    <3>3. TypeOK' BY <1>0, <1>1, <1>b, <1>2, <3>2, SMT DEF TypeOK, Resumed
    <3>4. ASSUME NEW n \in Msgs PROVE Ledger(n)'
          BY <1>0, <1>1, <1>2, <3>1, <3>2, SMT DEF Ledger, Resumed, NoWrite
    <3> QED BY <1>2, <3>3, <3>4 DEF IInv, Resumed
  <2> QED BY <1>4, <2>2, <2>3
<1>5. \/ UNCHANGED status
      \/ \E m \in turn.todo :
           LET write == IF turn.pc = "confirm" THEN "processing" ELSE pending[m].status
           IN /\ turn.pc \in {"confirm", "settle"}
              /\ status' = [status EXCEPT ![m] = write]
      BY Zenon DEF Cancelled
<1>6. CASE \E m \in turn.todo :
             LET write == IF turn.pc = "confirm" THEN "processing" ELSE pending[m].status
             IN /\ turn.pc \in {"confirm", "settle"}
                /\ status' = [status EXCEPT ![m] = write]
  <2>1. PICK m \in turn.todo :
          /\ turn.pc \in {"confirm", "settle"}
          /\ status' = [status EXCEPT ![m] =
                          IF turn.pc = "confirm" THEN "processing" ELSE pending[m].status]
        BY <1>6
  <2>2. CASE turn.pc = "confirm"
    <3>1. status' = [status EXCEPT ![m] = "processing"] BY <2>1, <2>2
    <3> QED BY <1>4, <2>2, <3>1
  <2>3. CASE turn.pc = "settle"
    <3>1. status' = [status EXCEPT ![m] = pending[m].status] BY <2>1, <2>3
    <3> QED BY <1>4, <2>3, <3>1
  <2> QED BY <2>1, <2>2, <2>3
<1> QED BY <1>3, <1>5, <1>6

\* The new execution retains nothing, so a decision the completions no longer
\* remember is still never offered.
LEMMA RejoinStep ==
    ASSUME IInv, Rejoin
    PROVE  IInv'
<1>0. TypeOK /\ (\A n \in Msgs : Ledger(n)) /\ TurnFits /\ turn \in Turns BY DEF IInv, TypeOK
<1>1. /\ pending' \in [Msgs -> Writes]
      /\ \A m \in Msgs : /\ pending'[m].status = pending[m].status
                         /\ pending'[m] = NoWrite <=> pending[m] = NoWrite
      BY <1>0, UnparkedEffect, Zenon DEF Rejoin
<1>2. /\ rejoins' \in 0..MaxRejoins /\ attempts' \in [Msgs -> Nat]
      /\ failures' \in [Msgs -> Nat]
      BY <1>0, BoundsAssumption, SMT DEF Rejoin, TypeOK
<1>b. /\ alive' \in BOOLEAN /\ closing' \in BOOLEAN /\ stopped' \in BOOLEAN
      /\ observer' \in BOOLEAN
      BY Zenon DEF Rejoin
<1>3. TypeOK' BY <1>0, <1>1, <1>b, <1>2, SMT DEF Rejoin, TypeOK
<1>4. ASSUME NEW m \in Msgs PROVE Ledger(m)' BY <1>0, <1>1, SMT DEF Rejoin, Ledger
<1>5. turn' = NoTurn /\ inflight' = {}
      BY <1>0, SMT DEF Rejoin, TurnFits, NoTurn
<1>6. TurnFits' BY <1>5, SMT DEF TurnFits, NoTurn, Undecided
<1> QED BY <1>3, <1>4, <1>6 DEF IInv

-----------------------------------------------------------------------------
(* The invariant is inductive *)

LEMMA InitIInv ==
    ASSUME Init
    PROVE  IInv
<1>1. TypeOK
  <2>1. /\ alive \in BOOLEAN /\ closing \in BOOLEAN /\ stopped \in BOOLEAN
        /\ observer \in BOOLEAN
        BY Zenon DEF Init
  <2> QED BY <2>1, NoTurnTyped, NoWriteTyped, BoundsAssumption, SMT
          DEF Init, TypeOK, Statuses, Kinds
<1>2. ASSUME NEW m \in Msgs PROVE Ledger(m) BY SMT DEF Init, Ledger, NoWrite
<1>3. TurnFits BY SMT DEF Init, TurnFits, NoTurn, Undecided
<1> QED BY <1>1, <1>2, <1>3 DEF IInv

LEMMA NextIInv ==
    ASSUME IInv, [Next]_vars
    PROVE  IInv'
<1>1. CASE Attempt
      BY <1>1, BeginDeliveryStep, BeginDeferredStep, PrepareStep, ConfirmProbeStep,
         ExecuteDeliveryStep, SelectIntentStep, ResolveStep, ConfirmProcessingStep,
         WriteSettlementStep, SettleProbeStep, Zenon DEF Attempt
<1>2. CASE Handler BY <1>2, HandlerEndsStep, Zenon DEF Handler
<1>3. CASE Scheduler BY <1>3, DispatchStep, RetrySettlementStep, Zenon DEF Scheduler
<1>4. CASE Environment
      BY <1>4, InterruptStep, StopRoomStep, ResumeRoomStep, ObservePlatformStopStep,
         ObserverEndsStep, CycleTimeoutStep, LiftWriteBackoffStep, ReconnectedStep,
         CloseStep, CancelledStep, RejoinStep, DeleteStep, Zenon DEF Environment
<1>5. CASE UNCHANGED vars
  <2>1. TypeOK /\ (\A m \in Msgs : Ledger(m)) /\ TurnFits BY DEF IInv
  <2>2. TypeOK' BY <1>5, <2>1 DEF TypeOK, vars
  <2>3. \A m \in Msgs : Ledger(m)' BY <1>5, <2>1 DEF Ledger, vars
  <2>4. TurnFits' BY <1>5, <2>1 DEF TurnFits, vars
  <2> QED BY <2>2, <2>3, <2>4 DEF IInv
<1> QED BY <1>1, <1>2, <1>3, <1>4, <1>5 DEF Next

\* Every reachable state of a delivery satisfies the invariant: the ledger and
\* the platform agree on each message, and whatever the awaits of the delivery
\* coroutine let in between, what it relies on when it resumes still holds.
THEOREM DeliveryInvariant == Spec => []IInv
<1>1. Init => IInv BY InitIInv
<1>2. IInv /\ [Next]_vars => IInv' BY NextIInv
<1> QED BY <1>1, <1>2, PTL DEF Spec

\* The lifecycle, the claim registry and the retry tracker stay well typed; in
\* particular no discard of a charge takes an attempt count below zero.
THEOREM DeliveryTyped == Spec => []TypeOK
<1>1. IInv => TypeOK BY DEF IInv
<1> QED BY <1>1, DeliveryInvariant, PTL

\* The platform never shows a disposition the turn did not decide.
THEOREM StatusHonest == Spec => []HonestStatus
<1>1. IInv => HonestStatus BY DEF IInv, Ledger, HonestStatus
<1> QED BY <1>1, DeliveryInvariant, PTL

\* A stored PROCESSED intent is never lost, and no claim outlives its attempt.
THEOREM DecisionsKept == Spec => []DecisionKept
<1>1. IInv => DecisionKept
      BY DEF IInv, Ledger, TurnFits, TypeOK, DecisionKept
<1> QED BY <1>1, DeliveryInvariant, PTL

-----------------------------------------------------------------------------
(* What a step may never do *)

\* Only the start of an admitted turn takes the handler from "none" to
\* "running".
Quiet ==
    \/ turn'.handler = turn.handler \/ turn'.handler = "none"
    \/ turn.handler = "running" \/ turn.pc = "context"

LEMMA FinishQuiet ==
    ASSUME NEW outcome, NEW base, NEW charged, End(outcome, base, charged)
    PROVE  Quiet
BY SMT DEF End, NoTurn, Quiet

LEMMA ConfirmNextQuiet ==
    ASSUME turn \in Turns, NEW originals, NEW todo, ConfirmNext(originals, todo)
    PROVE  Quiet
<1>1. CASE \E outcome : Finish(outcome) BY <1>1, FinishQuiet DEF Finish
<1>2. CASE turn' = [turn EXCEPT !.pc = "confirm", !.originals = originals,
                                !.todo = todo, !.cur = {}]
      BY <1>2, SMT DEF Turns, Quiet
<1>3. CASE turn' = [turn EXCEPT !.pc = "context", !.originals = originals,
                                !.todo = {}, !.cur = {}, !.phase = "admitted"]
      BY <1>3, SMT DEF Turns, Quiet
<1> QED BY <1>1, <1>2, <1>3, Zenon DEF ConfirmNext

LEMMA SettleNextQuiet ==
    ASSUME turn \in Turns, NEW todo, SettleNext(todo)
    PROVE  Quiet
<1>1. CASE todo = {}
  <2>1. PICK outcome : Finish(outcome) BY <1>1 DEF SettleNext
  <2> QED BY <2>1, FinishQuiet DEF Finish
<1>2. CASE todo # {}
  <2>1. turn' = [turn EXCEPT !.pc = "settle", !.todo = todo, !.cur = {}]
        BY <1>2 DEF SettleNext
  <2> QED BY <2>1, SMT DEF Turns, Quiet
<1> QED BY <1>1, <1>2

LEMMA StoreIntentQuiet ==
    ASSUME turn \in Turns, StoreIntent("resolve")
    PROVE  Quiet
<1>1. PICK intent, todo :
        turn' = [turn EXCEPT !.pc = "resolve", !.intent = intent, !.phase = "settled",
                             !.todo = todo]
      BY Zenon DEF StoreIntent
<1> QED BY <1>1, SMT DEF Turns, Quiet

LEMMA AttemptQuiet ==
    ASSUME turn \in Turns, Attempt
    PROVE  Quiet
<1>1. CASE BeginDelivery
  <2>1. CASE Finish(Unadmitted) BY <2>1, FinishQuiet DEF Finish
  <2>2. CASE turn' = [turn EXCEPT !.pc = "prepare", !.phase = "preparing",
                                  !.originals = turn.members]
        BY <2>2, SMT DEF Turns, Quiet
  <2> QED BY <1>1, <2>1, <2>2, Zenon DEF BeginDelivery
<1>2. CASE BeginDeferred BY <1>2, FinishQuiet DEF BeginDeferred, Finish
<1>3. CASE Prepare
  <2>1. CASE \E outcome, base, charged : End(outcome, base, charged) BY <2>1, FinishQuiet
  <2>2. CASE \E kept, charges : turn' = [turn EXCEPT !.pc = "confirm", !.originals = kept,
                                           !.charged = charges, !.todo = kept]
        BY <2>2, SMT DEF Turns, Quiet
  <2> QED BY <1>3, <2>1, <2>2, Zenon DEF Prepare
<1>4. CASE ConfirmProbe
  <2>1. CASE Finish(Unadmitted) BY <2>1, FinishQuiet DEF Finish
  <2> QED BY <1>4, <2>1, ConfirmNextQuiet, Zenon DEF ConfirmProbe
<1>5. CASE ExecuteDelivery BY <1>5 DEF ExecuteDelivery, Quiet
<1>6. CASE SelectIntent BY <1>6, StoreIntentQuiet DEF SelectIntent
<1>7. CASE Resolve
  <2>1. CASE \E outcome : Finish(outcome) BY <2>1, FinishQuiet DEF Finish
  <2>2. CASE \E writes : turn' = [turn EXCEPT !.pc = "settle", !.todo = writes]
        BY <2>2, SMT DEF Turns, Quiet
  <2> QED BY <1>7, <2>1, <2>2, Zenon DEF Resolve
<1>8. ASSUME NEW m \in Msgs, ConfirmProcessing(m) PROVE Quiet
  <2>1. CASE Finish(Unadmitted) BY <2>1, FinishQuiet DEF Finish
  <2>2. CASE turn' = [turn EXCEPT !.pc = "absent", !.cur = {m}]
        BY <2>2, SMT DEF Turns, Quiet
  <2> QED BY <1>8, <2>1, <2>2, ConfirmNextQuiet, Zenon DEF ConfirmProcessing
<1>9. ASSUME NEW m \in Msgs, WriteSettlement(m) PROVE Quiet
  <2>1. CASE turn' = [turn EXCEPT !.pc = "gone", !.cur = {m}]
        BY <2>1, SMT DEF Turns, Quiet
  <2>2. CASE \E todo : SettleNext(todo) BY <2>2, SettleNextQuiet
  <2>3. ASSUME NEW result \in Results
        PROVE \/ result = "accepted" \/ result = "rejected" \/ result = "unconfirmed"
              \/ result = "stopped" \/ result = "not_found"
        BY <2>3, SMT DEF Results
  <2> QED BY <1>9, <2>1, <2>2, <2>3, Zenon DEF WriteSettlement
<1>10. ASSUME NEW m \in Msgs, SettleProbe(m) PROVE Quiet
       BY <1>10, SettleNextQuiet, Zenon DEF SettleProbe
<1> QED BY <1>1, <1>2, <1>3, <1>4, <1>5, <1>6, <1>7, <1>8, <1>9, <1>10, Zenon DEF Attempt

LEMMA SignalledQuiet ==
    ASSUME turn \in Turns, NEW kind, Signalled(kind)
    PROVE  Quiet
<1>1. CASE turn' = turn BY <1>1 DEF Quiet
<1>2. CASE \E k, t : turn' = [turn EXCEPT !.stale = TRUE, !.kind = k, !.terminating = t]
      BY <1>2, SMT DEF Turns, Quiet
<1> QED BY <1>1, <1>2, Zenon DEF Signalled

LEMMA EnvironmentQuiet ==
    ASSUME turn \in Turns, Environment
    PROVE  Quiet
<1>1. CASE Interrupt BY <1>1, SignalledQuiet DEF Interrupt
<1>2. CASE StopRoom BY <1>2, SignalledQuiet DEF StopRoom
<1>3. CASE ResumeRoom
  <2>1. CASE turn' = turn BY <2>1 DEF Quiet
  <2>2. CASE turn' = [turn EXCEPT !.stale = TRUE] BY <2>2, SMT DEF Turns, Quiet
  <2> QED BY <1>3, <2>1, <2>2, Zenon DEF ResumeRoom
<1>4. CASE ObservePlatformStop BY <1>4 DEF ObservePlatformStop, Quiet
<1>5. CASE CycleTimeout BY <1>5 DEF CycleTimeout, Quiet
<1>6. CASE Cancelled
  <2>1. CASE turn' = turn BY <2>1 DEF Quiet
  <2>2. CASE Finish("cancelled") BY <2>2, FinishQuiet DEF Finish
  <2> QED BY <1>6, <2>1, <2>2 DEF Cancelled
<1>7. CASE ObserverEnds \/ LiftWriteBackoff \/ Reconnected \/ Close \/ Rejoin
           \/ \E m \in Msgs : Delete(m)
  <2>1. turn' = turn
        BY <1>7, Zenon DEF ObserverEnds, LiftWriteBackoff, Reconnected, Close, Rejoin, Delete
  <2> QED BY <2>1 DEF Quiet
<1> QED BY <1>1, <1>2, <1>3, <1>4, <1>5, <1>6, <1>7, Zenon DEF Environment

\* A handler never runs for a message whose PROCESSED intent was stored, unless
\* is_gone retired the write of a message that still exists: not after a lost
\* acknowledgement, a cancellation, a parked write, a reconnect or a rejoin.
THEOREM NoReplay == Spec => NoReplayAfterSuccess
<1>1. ASSUME IInv, [Next]_vars, turn.handler = "none", turn'.handler = "running"
      PROVE  turn.originals \cap done \subseteq misread
  <2>1. turn \in Turns /\ TurnFits BY <1>1 DEF IInv, TypeOK
  <2>2. Quiet
    <3>1. CASE Attempt BY <2>1, <3>1, AttemptQuiet
    <3>2. CASE Handler BY <3>2 DEF Handler, HandlerEnds, Quiet
    <3>3. CASE Scheduler
      <4>1. CASE \E ms, control : turn' = [NoTurn EXCEPT !.pc = "begin", !.members = ms,
                                                        !.control = control]
            BY <4>1, SMT DEF NoTurn, Quiet
      <4>2. CASE \E m : turn' = [NoTurn EXCEPT !.pc = "settle", !.originals = {m},
                                               !.todo = {m}]
            BY <4>2, SMT DEF NoTurn, Quiet
      <4> QED BY <3>3, <4>1, <4>2, Zenon DEF Scheduler, Dispatch, RetrySettlement
    <3>4. CASE Environment BY <2>1, <3>4, EnvironmentQuiet
    <3>5. CASE UNCHANGED vars BY <3>5 DEF vars, Quiet
    <3> QED BY <1>1, <3>1, <3>2, <3>3, <3>4, <3>5 DEF Next
  <2>3. turn.pc = "context" BY <1>1, <2>2 DEF Quiet
  <2> QED BY <2>1, <2>3, SMT DEF TurnFits, Undecided
<1>2. IInv /\ [Next]_vars
        => [turn.handler = "none" /\ turn'.handler = "running"
              => turn.originals \cap done \subseteq misread]_vars
      BY <1>1
<1> QED BY <1>2, DeliveryInvariant, PTL DEF Spec, NoReplayAfterSuccess

\* What a step may do to the pending settlement of one message.
Frozen(m) ==
    pending[m] # NoWrite /\ pending'[m] # NoWrite
        => /\ pending'[m].status = pending[m].status
           /\ pending'[m].retry = pending[m].retry

LEMMA StoreIntentFrozen ==
    ASSUME IInv, turn.pc \in {"context", "running"}, StoreIntent("resolve"), NEW m \in Msgs
    PROVE  Frozen(m)
<1>1. PICK intent, count : pending' = Recorded(turn.originals, intent, count)
      BY Zenon DEF StoreIntent
<1>2. CASE m \in turn.originals
      BY <1>2, SMT DEF IInv, TurnFits, Undecided, Frozen
<1>3. CASE m \notin turn.originals
  <2>1. pending'[m] = pending[m] BY <1>1, <1>3, RecordedValue
  <2> QED BY <2>1 DEF Frozen
<1> QED BY <1>2, <1>3

\* Retiring a write drops it; parking it keeps what it is to write.
LEMMA RetiredFrozen ==
    ASSUME TypeOK, NEW n \in Msgs, NEW m \in Msgs,
           pending' = [pending EXCEPT ![n] = NoWrite] \/ Parked(n)
    PROVE  Frozen(m)
<1>1. CASE pending' = [pending EXCEPT ![n] = NoWrite]
      BY <1>1, SMT DEF TypeOK, Frozen
<1>2. CASE Parked(n) BY <1>2, ParkedEffect, SMT DEF Frozen
<1> QED BY <1>1, <1>2

LEMMA NextFrozen ==
    ASSUME IInv, [Next]_vars, NEW m \in Msgs
    PROVE  Frozen(m)
<1> USE DEF registry
<1>0. TypeOK /\ \A n \in Msgs : Ledger(n) BY DEF IInv
<1>1. CASE pending' = pending BY <1>1 DEF Frozen
<1>2. CASE Attempt
  <2>1. CASE ExecuteDelivery BY <1>1, <2>1, StoreIntentFrozen, Zenon DEF ExecuteDelivery
  <2>2. CASE SelectIntent BY <2>2, StoreIntentFrozen, Zenon DEF SelectIntent
  <2>3. ASSUME NEW n \in Msgs, WriteSettlement(n) PROVE Frozen(m)
    <3>1. CASE Parked(n) \/ pending' = [pending EXCEPT ![n] = NoWrite]
          BY <1>0, <3>1, RetiredFrozen
    <3>2. ASSUME NEW result \in Results
          PROVE \/ result = "accepted" \/ result = "rejected" \/ result = "unconfirmed"
                \/ result = "stopped" \/ result = "not_found"
          BY <3>2, SMT DEF Results
    <3> QED BY <1>1, <2>3, <3>1, <3>2, Zenon DEF WriteSettlement, Confirmed
  <2>4. ASSUME NEW n \in Msgs, SettleProbe(n) PROVE Frozen(m)
        BY <1>0, <2>4, RetiredFrozen, Zenon DEF SettleProbe
  <2>5. CASE BeginDelivery \/ BeginDeferred \/ Prepare \/ ConfirmProbe \/ Resolve
             \/ \E n \in Msgs : ConfirmProcessing(n)
        BY <1>1, <2>5, Zenon DEF BeginDelivery, BeginDeferred, Prepare, ConfirmProbe,
           Resolve, ConfirmProcessing
  <2> QED BY <1>2, <2>1, <2>2, <2>3, <2>4, <2>5, Zenon DEF Attempt
<1>3. CASE Handler BY <1>1, <1>3, Zenon DEF Handler, HandlerEnds
<1>4. CASE Scheduler BY <1>1, <1>4, Zenon DEF Scheduler, Dispatch, RetrySettlement
<1>5. CASE Environment
  <2>1. CASE Reconnected \/ Rejoin
    <3>1. pending' = Unparked BY <2>1, Zenon DEF Reconnected, Rejoin
    <3> QED BY <1>0, <3>1, UnparkedEffect, Zenon DEF Frozen
  <2>2. CASE \/ Interrupt \/ StopRoom \/ ResumeRoom \/ ObservePlatformStop
             \/ ObserverEnds \/ CycleTimeout \/ LiftWriteBackoff \/ Close \/ Cancelled
             \/ \E n \in Msgs : Delete(n)
        BY <1>1, <2>2, Zenon DEF Interrupt, StopRoom, ResumeRoom, ObservePlatformStop,
           ObserverEnds, CycleTimeout, LiftWriteBackoff, Close, Cancelled, Delete
  <2> QED BY <1>5, <2>1, <2>2, Zenon DEF Environment
<1>6. CASE UNCHANGED vars BY <1>1, <1>6 DEF vars
<1> QED BY <1>2, <1>3, <1>4, <1>5, <1>6 DEF Next

\* What a stored terminal intent says never changes until its write leaves the
\* ledger: no later turn, signal, reconnect, rejoin or retry rewrites it.
THEOREM IntentsFrozen == Spec => IntentFrozen
<1>1. IInv /\ [Next]_vars
        => [\A m \in Msgs : pending[m] # NoWrite /\ pending'[m] # NoWrite
              => /\ pending'[m].status = pending[m].status
                 /\ pending'[m].retry = pending[m].retry]_vars
      BY NextFrozen, Zenon DEF Frozen
<1> QED BY <1>1, DeliveryInvariant, PTL DEF Spec, IntentFrozen

-----------------------------------------------------------------------------
(* The retry budget and the latest control: AttemptInv is inductive beside  *)
(* IInv                                                                     *)

\* A step that stores no intent, and forgets no completion, no exhausted message and
\* no write without a continuation.
LedgerGrows ==
    /\ failures' = failures /\ done' = done
    /\ completed \subseteq completed' /\ exhausted \subseteq exhausted'
    /\ \A m \in Msgs : pending[m] # NoWrite /\ ~pending[m].retry =>
          \/ m \in completed' \cup exhausted'
          \/ pending'[m] # NoWrite /\ ~pending'[m].retry

LEMMA UnchangedGrows ==
    ASSUME UNCHANGED <<pending, completed, exhausted, done, failures>>
    PROVE  LedgerGrows
BY DEF LedgerGrows

LEMMA BudgetKept ==
    ASSUME LedgerGrows, NEW m \in Msgs, Budget(m), attempts'[m] = attempts[m],
           OpenCharge(m)' <=> OpenCharge(m)
    PROVE  Budget(m)'
<1>1. Spent(m) => Spent(m)' BY SMT DEF LedgerGrows, Spent
<1> HIDE DEF OpenCharge, Spent
<1> QED BY <1>1, SMT DEF LedgerGrows, Budget

\* A charge that is discarded leaves the failures.
LEMMA BudgetDiscarded ==
    ASSUME TypeOK, LedgerGrows, NEW m \in Msgs, Budget(m), attempts'[m] = attempts[m] - 1,
           OpenCharge(m) \/ m \in done, ~OpenCharge(m)'
    PROVE  Budget(m)'
<1>1. attempts[m] \in Nat /\ failures[m] \in Nat /\ MaxRetries \in Nat
  BY RetriesAssumption DEF TypeOK
<1> HIDE DEF OpenCharge, Spent
<1> QED BY <1>1, SMT DEF LedgerGrows, Budget

\* Between attempts nothing is charged and no control is held.
LEMMA NoTurnFits ==
    ASSUME turn' = NoTurn
    PROVE  ChargesFit' /\ SignalFits' /\ \A m \in Msgs : ~OpenCharge(m)'
<1>1. /\ turn'.pc = "idle" /\ turn'.members = {} /\ turn'.charged = {}
      /\ turn'.control = FALSE /\ turn'.intent = "none" /\ turn'.phase = "none"
  BY SMT DEF NoTurn
<1>2. ChargesFit' BY <1>1, SMT DEF ChargesFit, Undecided
<1>3. SignalFits' BY <1>1, SMT DEF SignalFits
<1> QED BY <1>1, <1>2, <1>3, SMT DEF OpenCharge

\* The end of an attempt discards the charges of one that decided nothing.
LEMMA FinishBudget ==
    ASSUME IInv, AttemptInv, LedgerGrows, NEW outcome, Finish(outcome)
    PROVE  AttemptInv'
<1>0. /\ TypeOK /\ turn \in Turns /\ ChargesFit /\ attempts \in [Msgs -> Nat]
      /\ turn.charged \subseteq Msgs /\ turn.intent \in Intents
  BY TurnFields DEF IInv, AttemptInv, TypeOK
<1>1. turn' = NoTurn BY DEF Finish, End
<1>2. ASSUME NEW m \in Msgs PROVE Budget(m)'
  <2>0. Budget(m) /\ ~OpenCharge(m)' BY <1>1, NoTurnFits DEF AttemptInv
  <2>1. CASE turn.intent = "none" \/ turn.kind = "interrupt"
    <3>1. attempts'[m] = IF m \in turn.charged THEN attempts[m] - 1 ELSE attempts[m]
      BY <2>1, SMT DEF Finish, End, Discarded
    <3>2. CASE m \in turn.charged
      <4>1. OpenCharge(m) \/ m \in done
        BY <1>0, <2>1, <3>2, SMT DEF ChargesFit, OpenCharge, Intents
      <4> QED BY <1>0, <2>0, <3>1, <3>2, <4>1, BudgetDiscarded
    <3>3. CASE m \notin turn.charged
      BY <2>0, <3>1, <3>3, BudgetKept DEF OpenCharge
    <3> QED BY <3>2, <3>3
  <2>2. CASE ~(turn.intent = "none" \/ turn.kind = "interrupt")
    <3>1. attempts'[m] = attempts[m] BY <2>2, SMT DEF Finish, End
    <3>2. ~OpenCharge(m) BY <2>2 DEF OpenCharge
    <3> QED BY <2>0, <3>1, <3>2, BudgetKept
  <2> QED BY <2>1, <2>2
<1> QED BY <1>1, <1>2, NoTurnFits DEF AttemptInv

\* A step inside an attempt that moves no charge and no intent.
LEMMA BudgetsKept ==
    ASSUME AttemptInv, LedgerGrows, attempts' = attempts, turn'.charged = turn.charged,
           turn'.intent = turn.intent
    PROVE  \A m \in Msgs : Budget(m)'
<1> SUFFICES ASSUME NEW m \in Msgs PROVE Budget(m)' OBVIOUS
<1>1. OpenCharge(m)' <=> OpenCharge(m) BY DEF OpenCharge
<1> QED BY <1>1, BudgetKept DEF AttemptInv

-----------------------------------------------------------------------------
(* ... through the scheduler's steps and up to admission *)

\* Without batching one message is offered at a time.
LEMMA OneOffered ==
    ASSUME NEW ms \in SUBSET Msgs, ~(Cardinality(ms) > 1)
    PROVE  \A a, b \in ms : a = b
<1> SUFFICES ASSUME NEW a \in ms, NEW b \in ms, a # b PROVE FALSE OBVIOUS
<1>1. IsFiniteSet(ms) BY MsgsAssumption, FS_Subset
<1>2. IsFiniteSet({a, b}) /\ Cardinality({a, b}) = 2
  <2>1. IsFiniteSet({a}) /\ Cardinality({a}) = 1 BY FS_Singleton
  <2>2. {a, b} = {a} \cup {b} /\ b \notin {a} OBVIOUS
  <2>3. /\ IsFiniteSet({a} \cup {b})
        /\ Cardinality({a} \cup {b}) = IF b \in {a} THEN Cardinality({a}) ELSE Cardinality({a}) + 1
    BY <2>1, FS_AddElement
  <2> QED BY <2>1, <2>2, <2>3
<1>3. Cardinality({a, b}) <= Cardinality(ms) BY <1>1, FS_Subset
<1>4. Cardinality(ms) \in Nat BY <1>1, FS_CardinalityType
<1> QED BY <1>2, <1>3, <1>4

LEMMA DispatchBudget ==
    ASSUME IInv, AttemptInv, NEW ms \in SUBSET Msgs, NEW control \in BOOLEAN,
           Dispatch(ms, control)
    PROVE  AttemptInv'
<1> USE DEF room, history, tracker
<1>1. turn = NoTurn /\ turn.charged = {} BY SMT DEF IInv, TurnFits, Dispatch, NoTurn
<1>2. /\ turn'.pc = "begin" /\ turn'.members = ms /\ turn'.originals = {}
      /\ turn'.charged = {} /\ turn'.phase = "none" /\ turn'.intent = "none"
      /\ turn'.kind = "none"
  BY SMT DEF Dispatch, NoTurn
<1>3. UNCHANGED <<pending, completed, exhausted, attempts, done, failures>>
  BY Zenon DEF Dispatch
<1>4. turn.intent = "none" BY <1>1, SMT DEF NoTurn
<1>5. \A m \in Msgs : Budget(m)'
  BY <1>1, <1>2, <1>3, <1>4, UnchangedGrows, BudgetsKept
<1>6. /\ ms \cap (completed \cup exhausted) = {}
      /\ ~Batching => \A a, b \in ms : a = b
  <2>1. \A m \in ms : m \notin completed \cup exhausted
    BY Zenon DEF Dispatch, Runnable, Unsettled
  <2>2. ~Batching => ~(Cardinality(ms) > 1) BY Zenon DEF Dispatch
  <2> QED BY <2>1, <2>2, OneOffered
<1>7. ChargesFit' BY <1>2, <1>3, <1>6, SMT DEF ChargesFit, Undecided
<1>8. SignalFits' BY <1>2, SMT DEF SignalFits
<1> QED BY <1>5, <1>7, <1>8 DEF AttemptInv

LEMMA RetrySettlementBudget ==
    ASSUME IInv, AttemptInv, NEW m \in Msgs, RetrySettlement(m)
    PROVE  AttemptInv'
<1> USE DEF room, history, tracker, registry
<1>1. turn = NoTurn /\ turn.charged = {} /\ turn.intent = "none"
  BY SMT DEF IInv, TurnFits, RetrySettlement, NoTurn
<1>2. /\ turn'.pc = "settle" /\ turn'.members = {} /\ turn'.control = FALSE
      /\ turn'.charged = {} /\ turn'.phase = "none" /\ turn'.intent = "none"
      /\ turn'.kind = "none"
  BY SMT DEF RetrySettlement, NoTurn
<1>3. UNCHANGED <<pending, completed, exhausted, attempts, done, failures>>
  BY Zenon DEF RetrySettlement
<1>4. \A n \in Msgs : Budget(n)' BY <1>1, <1>2, <1>3, UnchangedGrows, BudgetsKept
<1>5. ChargesFit' BY <1>2, SMT DEF ChargesFit, Undecided
<1>6. SignalFits' BY <1>2, SMT DEF SignalFits
<1> QED BY <1>4, <1>5, <1>6 DEF AttemptInv

LEMMA BeginBudget ==
    ASSUME IInv, AttemptInv, BeginDelivery \/ BeginDeferred
    PROVE  AttemptInv'
<1> USE DEF room, history
<1>0. /\ TypeOK /\ turn \in Turns /\ ChargesFit /\ SignalFits /\ TurnFits
      /\ turn.pc = "begin"
  BY DEF IInv, AttemptInv, TypeOK, BeginDelivery, BeginDeferred
<1>1. /\ UNCHANGED <<pending, completed, exhausted, done, failures>>
      /\ LedgerGrows
  BY UnchangedGrows, Zenon DEF BeginDelivery, BeginDeferred
<1>2. CASE \E outcome : Finish(outcome) BY <1>1, <1>2, FinishBudget
<1>3. CASE /\ turn' = [turn EXCEPT !.pc = "prepare", !.phase = "preparing",
                                   !.originals = turn.members]
           /\ UNCHANGED <<inflight, attempts, retained>>
  <2>1. /\ turn'.pc = "prepare" /\ turn'.members = turn.members
        /\ turn'.charged = turn.charged /\ turn'.intent = turn.intent
        /\ turn'.phase = "preparing" /\ turn'.control = turn.control
        /\ turn'.kind = turn.kind
    BY <1>0, <1>3, SMT DEF Turns
  <2>2. \A m \in Msgs : Budget(m)' BY <1>1, <1>3, <2>1, BudgetsKept
  <2>3. ChargesFit' BY <1>0, <1>1, <2>1, SMT DEF ChargesFit, Undecided
  <2>4. SignalFits' BY <1>0, <2>1, SMT DEF SignalFits
  <2> QED BY <2>2, <2>3, <2>4 DEF AttemptInv
<1> QED BY <1>2, <1>3, Zenon DEF BeginDelivery, BeginDeferred

\* No member of an undecided turn is without budget, so admission never exceeds it.
LEMMA BudgetLeft ==
    ASSUME IInv, AttemptInv, turn.pc \in Undecided, NEW m \in turn.members,
           m \notin turn.charged
    PROVE  attempts[m] \in Nat /\ attempts[m] + 1 <= MaxRetries
<1>1. m \in Msgs /\ attempts[m] \in Nat /\ MaxRetries \in Nat
  BY TurnFields, RetriesAssumption DEF IInv, TypeOK
<1>2. ~Spent(m)
  BY SMT DEF IInv, TurnFits, AttemptInv, ChargesFit, Spent, OpenCharge
<1>3. attempts[m] <= MaxRetries /\ (attempts[m] = MaxRetries => Spent(m))
  BY <1>1 DEF AttemptInv, Budget
<1> HIDE DEF Spent
<1> QED BY <1>1, <1>2, <1>3

LEMMA PrepareBudget ==
    ASSUME IInv, AttemptInv, Prepare
    PROVE  AttemptInv'
<1> USE DEF room, history
<1> DEFINE owed == {m \in turn.originals : Unsettled(m)}
           over == IF turn.control THEN {} ELSE Exceeded(owed)
           base == IF turn.control THEN attempts ELSE Charged(owed)
           kept == owed \ over
           charges == IF turn.control THEN {} ELSE kept
<1>0. /\ TypeOK /\ turn \in Turns /\ ChargesFit /\ SignalFits /\ TurnFits
      /\ turn.pc = "prepare" /\ turn.originals \subseteq turn.members
      /\ turn.members \subseteq Msgs /\ turn.charged = {} /\ turn.intent = "none"
      /\ turn.control \in BOOLEAN
  BY TurnFields, SMT DEF IInv, AttemptInv, TypeOK, Prepare, TurnFits, ChargesFit, Undecided
<1>1. owed \subseteq turn.originals /\ owed \subseteq Msgs BY <1>0
<1>2. \A m \in owed : attempts[m] \in Nat /\ attempts[m] + 1 <= MaxRetries
  BY <1>0, <1>1, BudgetLeft DEF Undecided
<1>3. over = {}
  <2> HIDE DEF owed
  <2> QED BY <1>2, RetriesAssumption, SMT DEF Exceeded
<1>4. /\ exhausted' = exhausted \cup over
      /\ UNCHANGED <<pending, completed, done, failures, signal>>
  BY Zenon DEF Prepare
<1>5. \/ End(IF kept = {} THEN "advanced" ELSE Unadmitted, base, charges)
      \/ /\ attempts' = base
         /\ turn' = [turn EXCEPT !.pc = "confirm", !.originals = kept,
                                 !.charged = charges, !.todo = kept]
  BY Zenon DEF Prepare
<1>6. kept = owed /\ charges = IF turn.control THEN {} ELSE owed BY <1>3
<1> HIDE DEF owed, over
<1>7. /\ base \in [Msgs -> Nat]
      /\ \A m \in Msgs : base[m] = IF m \in charges THEN attempts[m] + 1 ELSE attempts[m]
  BY <1>0, <1>1, <1>6, SMT DEF Charged, TypeOK
<1>8. charges \subseteq owed BY <1>6
<1> HIDE DEF base, kept, charges
<1>9. LedgerGrows BY <1>3, <1>4 DEF LedgerGrows
<1>10. CASE End(IF kept = {} THEN "advanced" ELSE Unadmitted, base, charges)
  <2>1. turn' = NoTurn /\ attempts' = Discarded(base, charges)
    BY <1>0, <1>10, Zenon DEF End
  <2>2. \A m \in Msgs : attempts'[m] = attempts[m]
    BY <1>0, <1>7, <2>1, SMT DEF Discarded, TypeOK
  <2>3. ASSUME NEW m \in Msgs PROVE Budget(m)'
    <3>1. ~OpenCharge(m) /\ ~OpenCharge(m)' BY <1>0, <2>1, NoTurnFits DEF OpenCharge
    <3> QED BY <1>9, <2>2, <3>1, BudgetKept DEF AttemptInv
  <2> QED BY <2>1, <2>3, NoTurnFits DEF AttemptInv
<1>11. CASE /\ attempts' = base
            /\ turn' = [turn EXCEPT !.pc = "confirm", !.originals = kept,
                                    !.charged = charges, !.todo = kept]
  <2>1. /\ turn'.pc = "confirm" /\ turn'.members = turn.members
        /\ turn'.originals = kept /\ turn'.charged = charges
        /\ turn'.intent = turn.intent /\ turn'.phase = turn.phase
        /\ turn'.control = turn.control /\ turn'.kind = turn.kind
    BY <1>0, <1>11, SMT DEF Turns
  <2>2. ASSUME NEW m \in Msgs PROVE Budget(m)'
    <3>0. ~OpenCharge(m) /\ Budget(m) BY <1>0 DEF OpenCharge, AttemptInv
    <3>1. CASE m \notin charges
      <4>1. ~OpenCharge(m)' BY <2>1, <3>1 DEF OpenCharge
      <4>2. attempts'[m] = attempts[m] BY <1>7, <1>11, <3>1
      <4> QED BY <1>9, <3>0, <4>1, <4>2, BudgetKept
    <3>2. CASE m \in charges
      <4>1. OpenCharge(m)' BY <1>0, <2>1, <3>2 DEF OpenCharge
      <4>2. /\ attempts'[m] = attempts[m] + 1 /\ attempts[m] \in Nat
            /\ attempts[m] + 1 <= MaxRetries
        BY <1>2, <1>7, <1>8, <1>11, <3>2
      <4>3. Spent(m)' BY <4>1 DEF Spent
      <4>4. failures'[m] = failures[m] /\ failures[m] \in Nat /\ done' = done
        BY <1>0, <1>4 DEF TypeOK
      <4> HIDE DEF OpenCharge, Spent
      <4> QED BY <3>0, <4>1, <4>2, <4>3, <4>4, SMT DEF Budget
    <3> QED BY <3>1, <3>2
  <2>3. ChargesFit'
    BY <1>0, <1>3, <1>4, <1>6, <2>1, SMT DEF ChargesFit, Undecided
  <2>4. SignalFits' BY <1>0, <2>1, SMT DEF SignalFits, TurnFits
  <2> QED BY <2>2, <2>3, <2>4 DEF AttemptInv
<1> QED BY <1>5, <1>10, <1>11

-----------------------------------------------------------------------------
(* ... through the processing writes and the admitted turn *)

\* confirm_processing drops a message only when it is the only one.
LEMMA ConfirmNextBudget ==
    ASSUME IInv, AttemptInv, turn.pc \in {"confirm", "absent"},
           NEW originals, NEW todo, originals \in {{}, turn.originals}, todo \subseteq originals,
           UNCHANGED <<pending, completed, exhausted, done, failures>>,
           ConfirmNext(originals, todo)
    PROVE  AttemptInv'
<1>0. /\ TypeOK /\ turn \in Turns /\ ChargesFit /\ SignalFits /\ TurnFits
      /\ LedgerGrows
  BY UnchangedGrows DEF IInv, AttemptInv, TypeOK
<1>1. CASE \E outcome : Finish(outcome) BY <1>0, <1>1, FinishBudget
<1>2. CASE /\ todo # {}
           /\ turn' = [turn EXCEPT !.pc = "confirm", !.originals = originals,
                                   !.todo = todo, !.cur = {}]
           /\ UNCHANGED <<inflight, attempts, retained, signal>>
  <2>0. originals = turn.originals BY <1>2
  <2>1. /\ turn'.pc = "confirm" /\ turn'.members = turn.members
        /\ turn'.originals = turn.originals /\ turn'.charged = turn.charged
        /\ turn'.intent = turn.intent /\ turn'.phase = turn.phase
        /\ turn'.control = turn.control /\ turn'.kind = turn.kind
    BY <1>0, <1>2, <2>0, SMT DEF Turns
  <2>2. \A m \in Msgs : Budget(m)' BY <1>0, <1>2, <2>1, BudgetsKept
  <2>3. ChargesFit' BY <1>0, <2>1, SMT DEF ChargesFit, Undecided
  <2>4. SignalFits' BY <1>0, <2>1, SMT DEF SignalFits, TurnFits
  <2> QED BY <2>2, <2>3, <2>4 DEF AttemptInv
<1>3. CASE /\ originals # {}
           /\ turn' = [turn EXCEPT !.pc = "context", !.originals = originals,
                                   !.todo = {}, !.cur = {}, !.phase = "admitted"]
           /\ signal' = "none"
           /\ UNCHANGED <<inflight, attempts, retained>>
  <2>0. originals = turn.originals BY <1>3
  <2>1. /\ turn'.pc = "context" /\ turn'.members = turn.members
        /\ turn'.originals = turn.originals /\ turn'.charged = turn.charged
        /\ turn'.intent = turn.intent /\ turn'.phase = "admitted"
        /\ turn'.control = turn.control /\ turn'.kind = turn.kind
    BY <1>0, <1>3, <2>0, SMT DEF Turns
  <2>2. \A m \in Msgs : Budget(m)' BY <1>0, <1>3, <2>1, BudgetsKept
  <2>3. ChargesFit' BY <1>0, <2>1, SMT DEF ChargesFit, Undecided
  <2>4. SignalFits' BY <1>0, <1>3, <2>1, SMT DEF SignalFits
  <2> QED BY <2>2, <2>3, <2>4 DEF AttemptInv
<1> QED BY <1>1, <1>2, <1>3, Zenon DEF ConfirmNext

LEMMA ConfirmProcessingBudget ==
    ASSUME IInv, AttemptInv, NEW m \in Msgs, ConfirmProcessing(m)
    PROVE  AttemptInv'
<1> USE DEF room
<1>0. /\ TypeOK /\ turn \in Turns /\ ChargesFit /\ SignalFits /\ TurnFits
      /\ turn.pc = "confirm" /\ m \in turn.todo
  BY DEF IInv, AttemptInv, TypeOK, ConfirmProcessing
<1>1. /\ UNCHANGED <<pending, completed, exhausted, done, failures>>
      /\ LedgerGrows
  BY UnchangedGrows, Zenon DEF ConfirmProcessing
<1>2. \/ /\ ~Batching
         /\ turn' = [turn EXCEPT !.pc = "absent", !.cur = {m}]
         /\ UNCHANGED <<inflight, attempts, retained, signal>>
      \/ ConfirmNext(turn.originals, turn.todo \ {m})
      \/ Finish(Unadmitted)
  BY Zenon DEF ConfirmProcessing
<1>3. CASE /\ ~Batching
           /\ turn' = [turn EXCEPT !.pc = "absent", !.cur = {m}]
           /\ UNCHANGED <<inflight, attempts, retained, signal>>
  <2>1. /\ turn'.pc = "absent" /\ turn'.members = turn.members
        /\ turn'.originals = turn.originals /\ turn'.charged = turn.charged
        /\ turn'.intent = turn.intent /\ turn'.phase = turn.phase
        /\ turn'.control = turn.control /\ turn'.kind = turn.kind
    BY <1>0, <1>3, SMT DEF Turns
  <2>2. \A n \in Msgs : Budget(n)' BY <1>1, <1>3, <2>1, BudgetsKept
  <2>3. ChargesFit' BY <1>0, <1>1, <1>3, <2>1, SMT DEF ChargesFit, Undecided
  <2>4. SignalFits' BY <1>0, <2>1, SMT DEF SignalFits, TurnFits
  <2> QED BY <2>2, <2>3, <2>4 DEF AttemptInv
<1>4. CASE ConfirmNext(turn.originals, turn.todo \ {m})
  <2> DEFINE rest == turn.todo \ {m}
  <2>1. rest \subseteq turn.originals BY <1>0 DEF TurnFits
  <2> HIDE DEF rest
  <2> QED BY <1>0, <1>1, <1>4, <2>1, ConfirmNextBudget DEF rest
<1>5. CASE Finish(Unadmitted) BY <1>1, <1>5, FinishBudget
<1> QED BY <1>2, <1>3, <1>4, <1>5

LEMMA ConfirmProbeBudget ==
    ASSUME IInv, AttemptInv, ConfirmProbe
    PROVE  AttemptInv'
<1> USE DEF room
<1>0. /\ TypeOK /\ turn \in Turns /\ ChargesFit /\ TurnFits /\ turn.pc = "absent"
  BY DEF IInv, AttemptInv, TypeOK, ConfirmProbe
<1>1. /\ UNCHANGED <<pending, completed, exhausted, done, failures>>
      /\ LedgerGrows
  BY UnchangedGrows, Zenon DEF ConfirmProbe
<1>2. CASE ConfirmNext(turn.originals \ turn.cur, turn.todo \ turn.cur)
  <2> DEFINE originals == turn.originals \ turn.cur
             todo == turn.todo \ turn.cur
  <2>1. /\ \A a, b \in turn.originals : a = b
        /\ turn.cur \subseteq turn.todo /\ turn.todo \subseteq turn.originals
    BY <1>0, SMT DEF ChargesFit, TurnFits, Undecided
  <2>2. originals \in {{}, turn.originals} /\ todo \subseteq originals
    <3>1. CASE turn.cur = {} BY <2>1, <3>1
    <3>2. CASE turn.cur # {}
      <4>1. originals = {} BY <2>1, <3>2
      <4> QED BY <2>1, <4>1
    <3> QED BY <3>1, <3>2
  <2> HIDE DEF originals, todo
  <2> QED BY <1>0, <1>1, <1>2, <2>2, ConfirmNextBudget DEF originals, todo
<1>3. CASE Finish(Unadmitted) BY <1>1, <1>3, FinishBudget
<1> QED BY <1>2, <1>3, Zenon DEF ConfirmProbe

\* The intent is decided by the latest kind first.
LEMMA IntentKind ==
    ASSUME NEW t
    PROVE  /\ t.kind = "stop" => TerminalIntent(t) = "none"
           /\ t.kind = "interrupt" => TerminalIntent(t) = "processed"
BY SMT DEF TerminalIntent

\* What is stored has no continuation once the budget is spent.
LEMMA RecordedFinal ==
    ASSUME NEW ms, NEW intent \in {"processed", "failed"}, NEW count \in [Msgs -> Nat],
           NEW n \in Msgs, n \in ms, count[n] = MaxRetries
    PROVE  Recorded(ms, intent, count)[n] # NoWrite /\ ~Recorded(ms, intent, count)[n].retry
<1>1. ~(count[n] < MaxRetries) BY RetriesAssumption
<1>2. Recorded(ms, intent, count)[n] =
        [status |-> intent, parked |-> FALSE,
         retry |-> intent = "failed" /\ Replays /\ count[n] < MaxRetries]
  BY SMT DEF Recorded
<1>3. Recorded(ms, intent, count)[n].status # NoWrite.status BY <1>2, SMT DEF NoWrite
<1>4. (intent = "failed" /\ Replays /\ count[n] < MaxRetries) = FALSE BY <1>1, Zenon
<1>5. Recorded(ms, intent, count)[n] = [status |-> intent, parked |-> FALSE, retry |-> FALSE]
  BY <1>2, <1>4, Zenon
<1>6. ~Recorded(ms, intent, count)[n].retry BY <1>5, SMT
<1> QED BY <1>3, <1>6

LEMMA StoreIntentBudget ==
    ASSUME IInv, AttemptInv, turn.pc \in {"context", "running"}, StoreIntent("resolve"),
           UNCHANGED <<status, completed, signal>>
    PROVE  AttemptInv'
<1> DEFINE intent == TerminalIntent(turn)
           charges == turn.control /\ intent = "failed"
           count == IF charges THEN Charged(turn.originals) ELSE attempts
<1>0. /\ TypeOK /\ turn \in Turns /\ ChargesFit /\ SignalFits /\ TurnFits
      /\ turn.originals \subseteq turn.members /\ turn.members \subseteq Msgs
      /\ turn.originals \subseteq Msgs /\ turn.intent = "none" /\ turn.phase = "admitted"
      /\ turn.control \in BOOLEAN /\ turn.charged \subseteq Msgs
  BY TurnFields, SMT DEF IInv, AttemptInv, TypeOK, TurnFits, ChargesFit, Undecided
<1>1. /\ intent \in Intents
      /\ turn.kind = "stop" => intent = "none"
      /\ turn.kind = "interrupt" => intent = "processed"
  BY TerminalIntentTyped, IntentKind
<1>2. /\ turn' = [turn EXCEPT !.pc = "resolve", !.intent = intent, !.phase = "settled",
                              !.todo = IF intent = "none" THEN {} ELSE turn.originals]
      /\ attempts' = count
      /\ exhausted' = IF charges THEN exhausted \cup Exceeded(turn.originals)
                                 ELSE exhausted
      /\ pending' = Recorded(turn.originals, intent, count)
      /\ done' = IF intent = "processed" THEN done \cup turn.originals ELSE done
      /\ failures' = [m \in Msgs |-> IF m \in turn.originals /\ intent = "failed"
                                     THEN failures[m] + 1 ELSE failures[m]]
  BY Zenon DEF StoreIntent
<1> HIDE DEF intent
<1>3. /\ count \in [Msgs -> Nat]
      /\ \A m \in Msgs : count[m] = IF charges /\ m \in turn.originals THEN attempts[m] + 1
                                    ELSE attempts[m]
  BY <1>0, SMT DEF Charged, TypeOK
<1> HIDE DEF charges, count
<1>4. /\ turn'.pc = "resolve" /\ turn'.members = turn.members
      /\ turn'.originals = turn.originals /\ turn'.charged = turn.charged
      /\ turn'.intent = intent /\ turn'.phase = "settled"
      /\ turn'.todo = IF intent = "none" THEN {} ELSE turn.originals
      /\ turn'.control = turn.control /\ turn'.kind = turn.kind
  BY <1>0, <1>2, SMT DEF Turns
<1>5. turn.control \/ turn.charged = turn.originals BY <1>0, SMT DEF ChargesFit
<1>6. turn.control => turn.charged = {} BY <1>0 DEF ChargesFit
<1>7. exhausted \subseteq exhausted' BY <1>2
<1>8. ASSUME NEW m \in Msgs PROVE Budget(m)'
  <2>0. /\ Budget(m) /\ attempts[m] \in Nat /\ failures[m] \in Nat /\ MaxRetries \in Nat
        /\ attempts'[m] = count[m]
        /\ failures'[m] = IF m \in turn.originals /\ intent = "failed"
                          THEN failures[m] + 1 ELSE failures[m]
    BY <1>0, <1>2, RetriesAssumption, SMT DEF AttemptInv, TypeOK
  <2>1. CASE intent = "none" \/ m \notin turn.originals
    <3>1. pending'[m] = pending[m] BY <1>2, <2>1, RecordedValue
    <3>2. attempts'[m] = attempts[m] /\ failures'[m] = failures[m]
      BY <1>3, <2>0, <2>1 DEF charges
    <3>3. m \in done' <=> m \in done BY <1>2, <2>1
    <3>4. OpenCharge(m)' <=> OpenCharge(m)
      BY <1>0, <1>4, <1>5, <1>6, <2>1 DEF OpenCharge
    <3>5. Spent(m) => Spent(m)' BY <1>7, <3>1, <3>4 DEF Spent
    <3> HIDE DEF OpenCharge, Spent
    <3> QED BY <2>0, <3>2, <3>3, <3>4, <3>5, SMT DEF Budget
  <2>2. CASE intent # "none" /\ m \in turn.originals
    <3>0. intent \in {"processed", "failed"} BY <1>1, <2>2 DEF Intents
    <3>1. ~OpenCharge(m)' BY <1>4, <2>2 DEF OpenCharge
    <3>2. m \in turn.charged <=> ~turn.control BY <1>5, <1>6, <2>2
    <3>3. OpenCharge(m) <=> ~turn.control BY <1>0, <3>2 DEF OpenCharge
    <3>4. turn.control => attempts[m] + 1 <= MaxRetries
      BY <1>0, <1>6, <2>2, BudgetLeft DEF Undecided
    <3>5. attempts'[m] <= MaxRetries
      BY <1>3, <2>0, <3>4, SMT DEF charges, Budget
    <3>6. attempts'[m] = MaxRetries => Spent(m)'
      <4>1. count[m] = MaxRetries => /\ Recorded(turn.originals, intent, count)[m] # NoWrite
                                     /\ ~Recorded(turn.originals, intent, count)[m].retry
        BY <1>3, <2>2, <3>0, RecordedFinal
      <4> QED BY <1>2, <2>0, <4>1, Zenon DEF Spent
    <3>7. m \in done' \/ intent = "failed" BY <1>2, <2>2, <3>0
    <3> HIDE DEF OpenCharge, Spent
    <3>8. m \notin done' => attempts'[m] = failures'[m] /\ failures'[m] \in Nat
      <4> SUFFICES ASSUME m \notin done' PROVE attempts'[m] = failures'[m] /\ failures'[m] \in Nat
        OBVIOUS
      <4>1. intent = "failed" /\ m \notin done BY <1>2, <3>7
      <4>2. attempts[m] = failures[m] + (IF OpenCharge(m) THEN 1 ELSE 0)
        BY <2>0, <4>1 DEF Budget
      <4>3. CASE turn.control BY <1>3, <2>0, <2>2, <3>3, <4>1, <4>2, <4>3 DEF charges
      <4>4. CASE ~turn.control BY <1>3, <2>0, <2>2, <3>3, <4>1, <4>2, <4>4 DEF charges
      <4> QED BY <4>3, <4>4
    <3> QED BY <3>1, <3>5, <3>6, <3>8, SMT DEF Budget
  <2> QED BY <2>1, <2>2
<1>9. ChargesFit'
  <2>1. intent = "processed" => turn.charged \subseteq done' BY <1>2, <1>5, <1>6
  <2>2. intent = "failed" => turn.kind # "interrupt" BY <1>1
  <2> QED BY <1>0, <1>4, <2>1, <2>2, SMT DEF ChargesFit, Undecided
<1>10. SignalFits'
  <2>1. turn.kind = "interrupt" => turn.originals \subseteq done' BY <1>1, <1>2
  <2>2. ASSUME turn.kind = "stop", NEW m \in turn.originals
        PROVE  pending'[m] = NoWrite /\ status'[m] \in {"processing", "gone"}
    <3>1. pending'[m] = pending[m] BY <1>0, <1>1, <1>2, <2>2, RecordedValue
    <3>2. pending[m] = NoWrite /\ status[m] \in {"processing", "gone"}
      BY <1>0, SMT DEF TurnFits, Undecided
    <3> QED BY <3>1, <3>2
  <2> QED BY <1>0, <1>1, <1>4, <2>1, <2>2, SMT DEF SignalFits
<1> QED BY <1>8, <1>9, <1>10 DEF AttemptInv

LEMMA ExecuteDeliveryBudget ==
    ASSUME IInv, AttemptInv, ExecuteDelivery \/ SelectIntent
    PROVE  AttemptInv'
<1> USE DEF room
<1>0. TypeOK /\ turn \in Turns /\ ChargesFit /\ SignalFits /\ TurnFits
  BY DEF IInv, AttemptInv, TypeOK
<1>1. CASE StoreIntent("resolve")
  <2>1. turn.pc \in {"context", "running"} /\ UNCHANGED <<status, completed, signal>>
    BY Zenon DEF ExecuteDelivery, SelectIntent
  <2> QED BY <1>1, <2>1, StoreIntentBudget
<1>2. CASE ExecuteDelivery /\ Finish(Unadmitted)
           /\ UNCHANGED <<pending, exhausted, done, failures>>
  <2>1. LedgerGrows BY <1>2, UnchangedGrows, Zenon DEF ExecuteDelivery
  <2> QED BY <1>2, <2>1, FinishBudget
<1>3. CASE /\ ExecuteDelivery
           /\ turn' = [turn EXCEPT !.pc = "running", !.handler = "running"]
           /\ UNCHANGED <<pending, inflight, attempts, exhausted, retained, done,
                          failures>>
  <2>1. /\ turn'.pc = "running" /\ turn'.members = turn.members
        /\ turn'.originals = turn.originals /\ turn'.charged = turn.charged
        /\ turn'.intent = turn.intent /\ turn'.phase = turn.phase
        /\ turn'.control = turn.control /\ turn'.kind = turn.kind
    BY <1>0, <1>3, SMT DEF Turns
  <2>2. turn.pc = "context" /\ UNCHANGED <<completed, signal>>
    BY <1>3, Zenon DEF ExecuteDelivery
  <2>3. LedgerGrows BY <1>3, <2>2, UnchangedGrows
  <2>4. \A n \in Msgs : Budget(n)' BY <1>3, <2>1, <2>3, BudgetsKept
  <2>5. ChargesFit' BY <1>0, <1>3, <2>1, <2>2, SMT DEF ChargesFit, Undecided
  <2>6. SignalFits' BY <1>0, <2>1, <2>2, SMT DEF SignalFits, TurnFits
  <2> QED BY <2>4, <2>5, <2>6 DEF AttemptInv
<1> QED BY <1>1, <1>2, <1>3, Zenon DEF ExecuteDelivery, SelectIntent

-----------------------------------------------------------------------------
(* ... through what happens around an attempt and its terminal writes *)

\* A step that only moves flags of the turn: a control reaches an admitted scope,
\* and writes and statuses an undecided turn relies on are kept.
LEMMA AttemptFlags ==
    ASSUME IInv, AttemptInv, LedgerGrows,
           UNCHANGED <<attempts, completed, exhausted>>,
           turn'.pc = turn.pc, turn'.members = turn.members,
           turn'.originals = turn.originals, turn'.charged = turn.charged,
           turn'.phase = turn.phase, turn'.todo = turn.todo,
           turn'.intent = turn.intent, turn'.control = turn.control,
           \/ turn'.kind = turn.kind /\ signal' = signal
           \/ turn.phase = "admitted" /\ signal' = turn'.kind,
           \A m \in Msgs : pending[m] = NoWrite => pending'[m] = NoWrite,
           \A m \in Msgs : status[m] \in {"processing", "gone"}
                            => status'[m] \in {"processing", "gone"}
    PROVE  AttemptInv'
<1>0. /\ TypeOK /\ turn \in Turns /\ ChargesFit /\ SignalFits /\ TurnFits
      /\ turn.originals \subseteq Msgs
  BY TurnFields DEF IInv, AttemptInv, TypeOK
<1>1. \A m \in Msgs : Budget(m)' BY BudgetsKept
<1>2. turn.phase = "admitted" => turn.pc \in {"context", "running"} /\ turn.intent = "none"
  BY <1>0, SMT DEF TurnFits, ChargesFit, Undecided
<1>3. done' = done BY DEF LedgerGrows
<1>4. ChargesFit' BY <1>0, <1>2, <1>3, SMT DEF ChargesFit
<1>5. SignalFits' BY <1>0, <1>2, <1>3, SMT DEF SignalFits
<1> QED BY <1>1, <1>4, <1>5 DEF AttemptInv

LEMMA HandlerEndsBudget ==
    ASSUME IInv, AttemptInv, NEW result, HandlerEnds(result)
    PROVE  AttemptInv'
<1> USE DEF room, history, registry, tracker
<1>0. turn \in Turns BY DEF IInv, TypeOK
<1>1. PICK consumed : turn' = [turn EXCEPT !.handler = result, !.consumed = consumed]
  BY Zenon DEF HandlerEnds
<1>2. UNCHANGED <<status, pending, completed, exhausted, attempts, done, failures, signal>>
  BY Zenon DEF HandlerEnds
<1>3. /\ turn'.pc = turn.pc /\ turn'.members = turn.members
      /\ turn'.originals = turn.originals /\ turn'.charged = turn.charged
      /\ turn'.phase = turn.phase /\ turn'.todo = turn.todo
      /\ turn'.intent = turn.intent /\ turn'.control = turn.control
      /\ turn'.kind = turn.kind
  BY <1>0, <1>1, SMT DEF Turns
<1> QED BY <1>2, <1>3, UnchangedGrows, AttemptFlags

LEMMA CycleTimeoutBudget ==
    ASSUME IInv, AttemptInv, CycleTimeout
    PROVE  AttemptInv'
<1> USE DEF room, history, registry, tracker
<1>0. turn \in Turns BY DEF IInv, TypeOK
<1>1. turn' = [turn EXCEPT !.timedOut = TRUE, !.terminating = TRUE] BY DEF CycleTimeout
<1>2. UNCHANGED <<status, pending, completed, exhausted, attempts, done, failures, signal>>
  BY Zenon DEF CycleTimeout
<1>3. /\ turn'.pc = turn.pc /\ turn'.members = turn.members
      /\ turn'.originals = turn.originals /\ turn'.charged = turn.charged
      /\ turn'.phase = turn.phase /\ turn'.todo = turn.todo
      /\ turn'.intent = turn.intent /\ turn'.control = turn.control
      /\ turn'.kind = turn.kind
  BY <1>0, <1>1, SMT DEF Turns
<1> QED BY <1>2, <1>3, UnchangedGrows, AttemptFlags

LEMMA SignalledBudget ==
    ASSUME IInv, AttemptInv, NEW kind, Signalled(kind),
           UNCHANGED <<status, pending, completed, exhausted, attempts, done, failures>>
    PROVE  AttemptInv'
<1>0. turn \in Turns /\ TurnFits BY DEF IInv, TypeOK
<1>1. CASE turn.pc = "idle"
  <2>1. turn' = turn /\ turn.phase # "admitted"
    BY <1>0, <1>1, Zenon DEF Signalled, TurnFits
  <2>2. signal' = signal BY <2>1, Zenon DEF Signalled
  <2> QED BY <2>1, <2>2, UnchangedGrows, AttemptFlags
<1>2. CASE turn.pc # "idle"
  <2> DEFINE k == IF turn.phase = "admitted" THEN kind ELSE turn.kind
             t == turn.phase = "admitted" \/ turn.terminating
  <2>1. turn' = [turn EXCEPT !.stale = TRUE, !.kind = k, !.terminating = t]
    BY <1>2, Zenon DEF Signalled
  <2>2. /\ k = IF turn.phase = "admitted" THEN kind ELSE turn.kind
        /\ signal' = IF turn.phase = "admitted" THEN kind ELSE signal
    BY Zenon DEF Signalled
  <2> HIDE DEF k, t
  <2>3. /\ turn'.pc = turn.pc /\ turn'.members = turn.members
        /\ turn'.originals = turn.originals /\ turn'.charged = turn.charged
        /\ turn'.phase = turn.phase /\ turn'.todo = turn.todo
        /\ turn'.intent = turn.intent /\ turn'.control = turn.control
        /\ turn'.kind = k
    BY <1>0, <2>1, SMT DEF Turns
  <2> QED BY <2>2, <2>3, UnchangedGrows, AttemptFlags
<1> QED BY <1>1, <1>2

LEMMA ObservePlatformStopBudget ==
    ASSUME IInv, AttemptInv, ObservePlatformStop
    PROVE  AttemptInv'
<1> USE DEF registry, tracker
<1>0. turn \in Turns /\ TurnFits /\ SignalFits BY DEF IInv, TypeOK, AttemptInv
<1>1. turn.phase = "admitted" /\ signal = turn.kind
  BY <1>0, SMT DEF TurnFits, SignalFits, ObservePlatformStop
<1> DEFINE k == IF turn.kind = "none" THEN "stop" ELSE turn.kind
<1>2. turn' = [turn EXCEPT !.kind = k, !.terminating = TRUE, !.observed = TRUE]
  BY Zenon DEF ObservePlatformStop
<1>3. signal' = k BY <1>1, Zenon DEF ObservePlatformStop
<1>4. UNCHANGED <<status, pending, completed, exhausted, attempts, done, failures>>
  BY Zenon DEF ObservePlatformStop
<1> HIDE DEF k
<1>5. /\ turn'.pc = turn.pc /\ turn'.members = turn.members
      /\ turn'.originals = turn.originals /\ turn'.charged = turn.charged
      /\ turn'.phase = turn.phase /\ turn'.todo = turn.todo
      /\ turn'.intent = turn.intent /\ turn'.control = turn.control
      /\ turn'.kind = k
  BY <1>0, <1>2, SMT DEF Turns
<1> QED BY <1>1, <1>3, <1>4, <1>5, UnchangedGrows, AttemptFlags

LEMMA ResumeRoomBudget ==
    ASSUME IInv, AttemptInv, ResumeRoom
    PROVE  AttemptInv'
<1> USE DEF registry, tracker, history
<1>0. turn \in Turns BY DEF IInv, TypeOK
<1>1. turn' = turn \/ turn' = [turn EXCEPT !.stale = TRUE] BY Zenon DEF ResumeRoom
<1>2. UNCHANGED <<status, pending, completed, exhausted, attempts, done, failures, signal>>
  BY Zenon DEF ResumeRoom
<1>3. /\ turn'.pc = turn.pc /\ turn'.members = turn.members
      /\ turn'.originals = turn.originals /\ turn'.charged = turn.charged
      /\ turn'.phase = turn.phase /\ turn'.todo = turn.todo
      /\ turn'.intent = turn.intent /\ turn'.control = turn.control
      /\ turn'.kind = turn.kind
  BY <1>0, <1>1, SMT DEF Turns
<1> QED BY <1>2, <1>3, UnchangedGrows, AttemptFlags

\* Steps that leave the turn alone.
LEMMA QuietEnvironmentBudget ==
    ASSUME IInv, AttemptInv, \/ ObserverEnds \/ LiftWriteBackoff \/ Reconnected \/ Close
                             \/ \E m \in Msgs : Delete(m)
    PROVE  AttemptInv'
<1> USE DEF room, registry, tracker, history
<1>0. TypeOK /\ \A m \in Msgs : Ledger(m) BY DEF IInv
<1>1. UNCHANGED <<turn, attempts, completed, exhausted, done, failures, signal>>
  BY Zenon DEF ObserverEnds, LiftWriteBackoff, Reconnected, Close, Delete
<1>2. pending' = pending \/ pending' = Unparked
  BY Zenon DEF ObserverEnds, LiftWriteBackoff, Reconnected, Close, Delete
<1>3. \A m \in Msgs : /\ pending'[m] = NoWrite <=> pending[m] = NoWrite
                      /\ pending'[m].retry = pending[m].retry
  BY <1>0, <1>2, UnparkedEffect
<1>4. \A m \in Msgs : status[m] \in {"processing", "gone"}
                        => status'[m] \in {"processing", "gone"}
  BY <1>0, SMT DEF ObserverEnds, LiftWriteBackoff, Reconnected, Close, Delete, TypeOK
<1>5. LedgerGrows BY <1>1, <1>3 DEF LedgerGrows
<1> QED BY <1>1, <1>3, <1>4, <1>5, AttemptFlags

LEMMA CancelledBudget ==
    ASSUME IInv, AttemptInv, Cancelled
    PROVE  AttemptInv'
<1> USE DEF history
<1>1. UNCHANGED <<pending, completed, exhausted, done, failures>> /\ LedgerGrows
  BY UnchangedGrows, Zenon DEF Cancelled
<1>2. CASE Finish("cancelled") BY <1>1, <1>2, FinishBudget
<1>3. CASE turn.pc = "idle" /\ UNCHANGED <<inflight, attempts, retained, turn>>
  <2>1. turn' = NoTurn BY <1>3 DEF IInv, TurnFits
  <2> QED BY <1>1, <1>3, <2>1, NoTurnFits, BudgetsKept DEF AttemptInv
<1> QED BY <1>2, <1>3, Zenon DEF Cancelled

LEMMA RejoinBudget ==
    ASSUME IInv, AttemptInv, Rejoin
    PROVE  AttemptInv'
<1>1. turn' = NoTurn BY Zenon DEF Rejoin, IInv, TurnFits
<1>2. ASSUME NEW m \in Msgs PROVE Budget(m)'
  <2>1. attempts'[m] = 0 /\ failures'[m] = 0 BY DEF Rejoin
  <2>2. ~OpenCharge(m)' BY <1>1, NoTurnFits
  <2> HIDE DEF OpenCharge, Spent
  <2> QED BY <2>1, <2>2, RetriesAssumption, SMT DEF Budget
<1> QED BY <1>1, <1>2, NoTurnFits DEF AttemptInv

\* The end of a step of settle: the attempt ends, or its loop goes on.
LEMMA SettleNextBudget ==
    ASSUME IInv, AttemptInv, turn.pc \in {"settle", "gone"}, LedgerGrows,
           NEW todo, SettleNext(todo), signal' = signal
    PROVE  AttemptInv'
<1>0. TypeOK /\ turn \in Turns /\ ChargesFit /\ SignalFits BY DEF IInv, AttemptInv, TypeOK
<1>1. CASE todo = {}
  <2>1. PICK outcome : Finish(outcome) BY <1>1 DEF SettleNext
  <2> QED BY <2>1, FinishBudget
<1>2. CASE todo # {}
  <2>0. /\ turn' = [turn EXCEPT !.pc = "settle", !.todo = todo, !.cur = {}]
        /\ attempts' = attempts
    BY <1>2 DEF SettleNext
  <2>1. /\ turn'.pc = "settle" /\ turn'.members = turn.members
        /\ turn'.originals = turn.originals /\ turn'.charged = turn.charged
        /\ turn'.intent = turn.intent /\ turn'.phase = turn.phase
        /\ turn'.control = turn.control /\ turn'.kind = turn.kind
    BY <1>0, <2>0, SMT DEF Turns
  <2>2. \A m \in Msgs : Budget(m)' BY <2>0, <2>1, BudgetsKept
  <2>3. done' = done BY DEF LedgerGrows
  <2>4. ChargesFit' BY <1>0, <2>1, <2>3, SMT DEF ChargesFit, Undecided
  <2>5. SignalFits' BY <1>0, <2>1, <2>3, SMT DEF SignalFits
  <2> QED BY <2>2, <2>4, <2>5 DEF AttemptInv
<1> QED BY <1>1, <1>2

LEMMA ConfirmedGrows ==
    ASSUME IInv, NEW m \in Msgs, pending[m] # NoWrite, Confirmed(m),
           UNCHANGED <<done, failures>>
    PROVE  LedgerGrows
<1>0. TypeOK /\ Ledger(m) BY DEF IInv
<1>1. pending[m].status \in {"processed", "failed"} BY <1>0, OwedStatus
<1>2. /\ completed \subseteq completed' /\ exhausted \subseteq exhausted'
      /\ ~pending[m].retry => m \in completed' \cup exhausted'
  BY <1>1, Zenon DEF Confirmed
<1>3. \A n \in Msgs \ {m} : pending'[n] = pending[n] BY <1>0, ConfirmedEffect
<1> QED BY <1>2, <1>3 DEF LedgerGrows

LEMMA ParkedGrows ==
    ASSUME IInv, NEW m \in Msgs, pending[m] # NoWrite, Parked(m), UNCHANGED <<done, failures>>
    PROVE  LedgerGrows
<1>0. TypeOK /\ Ledger(m) BY DEF IInv
<1>1. /\ pending'[m].status = pending[m].status /\ pending'[m].retry = pending[m].retry
      /\ \A n \in Msgs \ {m} : pending'[n] = pending[n]
      /\ UNCHANGED <<completed, exhausted>>
  BY <1>0, ParkedEffect
<1>2. pending[m].status # NoWrite.status BY <1>0, OwedStatus DEF NoWrite
<1>3. pending'[m] # NoWrite BY <1>1, <1>2
<1> QED BY <1>1, <1>3 DEF LedgerGrows

LEMMA WriteSettlementBudget ==
    ASSUME IInv, AttemptInv, NEW m \in Msgs, WriteSettlement(m)
    PROVE  AttemptInv'
<1> USE DEF history
<1>0. /\ TypeOK /\ turn \in Turns /\ ChargesFit /\ SignalFits /\ TurnFits
      /\ turn.pc = "settle" /\ m \in turn.todo
  BY DEF IInv, AttemptInv, TypeOK, WriteSettlement
<1>1. UNCHANGED <<done, failures, signal>> BY Zenon DEF WriteSettlement
<1>2. pending[m] # NoWrite BY <1>0, SMT DEF TurnFits
<1>3. \/ Confirmed(m) /\ SettleNext(turn.todo \ {m})
      \/ Parked(m) /\ SettleNext(turn.todo \ {m})
      \/ UNCHANGED <<pending, completed, exhausted>> /\ SettleNext(turn.todo \ {m})
      \/ UNCHANGED <<pending, completed, exhausted>> /\ SettleNext({})
      \/ /\ turn' = [turn EXCEPT !.pc = "gone", !.cur = {m}]
         /\ UNCHANGED <<pending, completed, tracker>>
  <2>1. ASSUME NEW result \in Results
        PROVE \/ result = "accepted" \/ result = "rejected" \/ result = "unconfirmed"
              \/ result = "stopped" \/ result = "not_found"
    BY <2>1, SMT DEF Results
  <2> QED BY <2>1, Zenon DEF WriteSettlement
<1>4. CASE (Confirmed(m) \/ Parked(m) \/ UNCHANGED <<pending, completed, exhausted>>)
           /\ \E todo : SettleNext(todo)
  <2>1. LedgerGrows BY <1>1, <1>2, <1>4, ConfirmedGrows, ParkedGrows, UnchangedGrows
  <2> QED BY <1>0, <1>1, <1>4, <2>1, SettleNextBudget
<1>5. CASE /\ turn' = [turn EXCEPT !.pc = "gone", !.cur = {m}]
           /\ UNCHANGED <<pending, completed, tracker>>
  <2>1. /\ turn'.pc = "gone" /\ turn'.members = turn.members
        /\ turn'.originals = turn.originals /\ turn'.charged = turn.charged
        /\ turn'.intent = turn.intent /\ turn'.phase = turn.phase
        /\ turn'.control = turn.control /\ turn'.kind = turn.kind
    BY <1>0, <1>5, SMT DEF Turns
  <2>2. \A n \in Msgs : Budget(n)'
    BY <1>1, <1>5, <2>1, UnchangedGrows, BudgetsKept DEF tracker
  <2>3. ChargesFit' BY <1>0, <1>1, <2>1, SMT DEF ChargesFit, Undecided
  <2>4. SignalFits' BY <1>0, <1>1, <2>1, SMT DEF SignalFits
  <2> QED BY <2>2, <2>3, <2>4 DEF AttemptInv
<1> QED BY <1>3, <1>4, <1>5

LEMMA SettleProbeBudget ==
    ASSUME IInv, AttemptInv, NEW m \in Msgs, SettleProbe(m)
    PROVE  AttemptInv'
<1>0. TypeOK /\ TurnFits /\ turn.pc = "gone" /\ m \in turn.cur
  BY DEF IInv, SettleProbe
<1>1. UNCHANGED <<done, failures, signal>> BY Zenon DEF SettleProbe
<1>2. pending[m] # NoWrite BY <1>0, SMT DEF TurnFits
<1>3. SettleNext(turn.todo \ {m}) BY Zenon DEF SettleProbe
<1>4. LedgerGrows
  <2>1. CASE Parked(m) BY <1>1, <1>2, <2>1, ParkedGrows
  <2>2. CASE /\ pending' = [pending EXCEPT ![m] = NoWrite]
             /\ completed' = completed \cup {m} /\ exhausted' = exhausted
    <3>1. \A n \in Msgs \ {m} : pending'[n] = pending[n] BY <1>0, <2>2, SMT DEF TypeOK
    <3> QED BY <1>1, <2>2, <3>1 DEF LedgerGrows
  <2> QED BY <2>1, <2>2, Zenon DEF SettleProbe
<1> QED BY <1>0, <1>1, <1>3, <1>4, SettleNextBudget

LEMMA ResolveBudget ==
    ASSUME IInv, AttemptInv, Resolve
    PROVE  AttemptInv'
<1> USE DEF room, history
<1>0. /\ TypeOK /\ turn \in Turns /\ ChargesFit /\ SignalFits /\ turn.pc = "resolve"
  BY DEF IInv, AttemptInv, TypeOK, Resolve
<1> DEFINE writes == {m \in turn.todo : pending[m] # NoWrite}
<1>1. UNCHANGED <<pending, completed, exhausted, done, failures, signal>> /\ LedgerGrows
  BY UnchangedGrows, Zenon DEF Resolve
<1>2. \/ \E outcome : Finish(outcome)
      \/ /\ writes # {} /\ attempts' = attempts
         /\ turn' = [turn EXCEPT !.pc = "settle", !.todo = writes]
  BY Zenon DEF Resolve
<1>3. CASE \E outcome : Finish(outcome) BY <1>1, <1>3, FinishBudget
<1>4. CASE /\ writes # {} /\ attempts' = attempts
           /\ turn' = [turn EXCEPT !.pc = "settle", !.todo = writes]
  <2>0. turn.todo # {} BY <1>4
  <2> HIDE DEF writes
  <2>1. /\ turn'.pc = "settle" /\ turn'.members = turn.members
        /\ turn'.originals = turn.originals /\ turn'.charged = turn.charged
        /\ turn'.intent = turn.intent /\ turn'.phase = turn.phase
        /\ turn'.control = turn.control /\ turn'.kind = turn.kind
    BY <1>0, <1>4, SMT DEF Turns
  <2>2. \A m \in Msgs : Budget(m)' BY <1>1, <1>4, <2>1, BudgetsKept
  <2>3. ChargesFit' BY <1>0, <1>1, <2>1, SMT DEF ChargesFit, Undecided
  <2>4. SignalFits' BY <1>0, <1>1, <2>0, <2>1, SMT DEF SignalFits
  <2> QED BY <2>2, <2>3, <2>4 DEF AttemptInv
<1> QED BY <1>2, <1>3, <1>4

LEMMA InitAttempt ==
    ASSUME Init
    PROVE  AttemptInv
<1>1. /\ turn.pc = "idle" /\ turn.members = {} /\ turn.charged = {}
      /\ turn.control = FALSE /\ turn.intent = "none" /\ turn.phase = "none"
  BY SMT DEF Init, NoTurn
<1>2. ChargesFit BY <1>1, SMT DEF ChargesFit, Undecided
<1>3. SignalFits BY <1>1, SMT DEF SignalFits
<1>4. ASSUME NEW m \in Msgs PROVE Budget(m)
  <2>1. attempts[m] = 0 /\ failures[m] = 0 /\ ~OpenCharge(m) BY <1>1 DEF Init, OpenCharge
  <2> HIDE DEF OpenCharge, Spent
  <2> QED BY <2>1, RetriesAssumption, SMT DEF Budget
<1> QED BY <1>2, <1>3, <1>4 DEF AttemptInv

LEMMA NextAttempt ==
    ASSUME IInv, AttemptInv, [Next]_vars
    PROVE  AttemptInv'
<1>1. CASE Attempt
  BY <1>1, BeginBudget, PrepareBudget, ConfirmProbeBudget, ExecuteDeliveryBudget,
     ResolveBudget, ConfirmProcessingBudget, WriteSettlementBudget, SettleProbeBudget,
     Zenon DEF Attempt
<1>2. CASE Handler BY <1>2, HandlerEndsBudget, Zenon DEF Handler
<1>3. CASE Scheduler BY <1>3, DispatchBudget, RetrySettlementBudget, Zenon DEF Scheduler
<1>4. CASE Environment
  <2>1. CASE Interrupt \/ StopRoom
    BY <2>1, SignalledBudget, Zenon DEF Interrupt, StopRoom, registry, tracker
  <2> QED BY <1>4, <2>1, ResumeRoomBudget, ObservePlatformStopBudget, CycleTimeoutBudget,
             QuietEnvironmentBudget, CancelledBudget, RejoinBudget, Zenon DEF Environment
<1>5. CASE UNCHANGED vars
  <2>1. UNCHANGED <<status, pending, completed, exhausted, attempts, done, failures,
                    turn, signal>>
    BY <1>5 DEF vars
  <2> QED BY <2>1, UnchangedGrows, AttemptFlags
<1> QED BY <1>1, <1>2, <1>3, <1>4, <1>5 DEF Next

\* Every reachable state of a delivery accounts for its charges and holds the latest
\* control that reached its scope.
THEOREM AttemptsInductive == Spec => []AttemptInv
<1>1. Init => AttemptInv BY InitAttempt
<1>2. IInv /\ AttemptInv /\ [Next]_vars => AttemptInv' BY NextAttempt
<1> QED BY <1>1, <1>2, DeliveryInvariant, PTL DEF Spec

\* Between attempts the retry tracker has charged a message with exactly its stored
\* failures, and never with more than the budget: for any budget, and whatever mix of
\* refusals, controls, lost answers and cancellations ended the attempts before.
THEOREM BudgetsExact == Spec => []BudgetExact
<1>1. ASSUME IInv, AttemptInv PROVE BudgetExact
  <2>1. \A m \in Msgs : attempts[m] <= MaxRetries BY <1>1 DEF AttemptInv, Budget
  <2>2. ASSUME NEW m \in Msgs \ done, turn.pc = "idle" PROVE attempts[m] = failures[m]
    <3>1. turn = NoTurn BY <1>1, <2>2 DEF IInv, TurnFits
    <3>2. ~OpenCharge(m) BY <3>1, SMT DEF OpenCharge, NoTurn
    <3>3. attempts[m] = failures[m] + 0 BY <1>1, <2>2, <3>2 DEF AttemptInv, Budget
    <3> QED BY <1>1, <3>3, SMT DEF IInv, TypeOK
  <2> QED BY <2>1, <2>2 DEF BudgetExact
<1> QED BY <1>1, DeliveryInvariant, AttemptsInductive, PTL

\* An admitted turn ends in a live room only without a control, and the end of a
\* resolved one touches neither ledger nor platform.
LEMMA EndsResolved ==
    ASSUME IInv, AttemptInv, [Next]_vars, turn'.pc = "idle", alive',
           turn.pc \in {"context", "running", "resolve"}
    PROVE  /\ turn.pc # "resolve" => turn.kind = "none"
           /\ turn.pc = "resolve" => UNCHANGED <<pending, status>>
<1> USE DEF room, history
<1>0. turn \in Turns /\ TurnFits BY DEF IInv, TypeOK
<1>1. CASE Attempt
  <2>1. CASE ExecuteDelivery
    <3>1. ~StoreIntent("resolve")
      <4> SUFFICES ASSUME StoreIntent("resolve") PROVE FALSE OBVIOUS
      <4>1. PICK intent, todo :
              turn' = [turn EXCEPT !.pc = "resolve", !.intent = intent,
                                   !.phase = "settled", !.todo = todo]
        BY Zenon DEF StoreIntent
      <4> QED BY <1>0, <4>1, SMT DEF Turns
    <3> QED BY <2>1, <3>1, Zenon DEF ExecuteDelivery
  <2>2. CASE SelectIntent
    <3>1. PICK intent, todo :
            turn' = [turn EXCEPT !.pc = "resolve", !.intent = intent,
                                 !.phase = "settled", !.todo = todo]
      BY <2>2, Zenon DEF SelectIntent, StoreIntent
    <3> QED BY <1>0, <3>1, SMT DEF Turns
  <2>3. CASE Resolve
    <3>1. turn.pc = "resolve" /\ UNCHANGED <<pending, status>> BY <2>3, Zenon DEF Resolve
    <3> QED BY <3>1
  <2>4. CASE \/ BeginDelivery \/ BeginDeferred \/ Prepare \/ ConfirmProbe
             \/ \E m \in Msgs : ConfirmProcessing(m) \/ WriteSettlement(m) \/ SettleProbe(m)
    <3>1. turn.pc \in {"begin", "prepare", "confirm", "absent", "settle", "gone"}
      BY <2>4, Zenon DEF BeginDelivery, BeginDeferred, Prepare, ConfirmProbe,
         ConfirmProcessing, WriteSettlement, SettleProbe
    <3> QED BY <3>1
  <2> QED BY <1>1, <2>1, <2>2, <2>3, <2>4, Zenon DEF Attempt
<1>2. CASE Handler
  <2>1. PICK result : HandlerEnds(result) BY <1>2, Zenon DEF Handler
  <2>2. PICK consumed : turn' = [turn EXCEPT !.handler = result, !.consumed = consumed]
    BY <2>1, Zenon DEF HandlerEnds
  <2> QED BY <1>0, <2>2, SMT DEF Turns
<1>3. CASE Scheduler BY <1>3, Zenon DEF Scheduler, Dispatch, RetrySettlement
<1>4. CASE Environment
  <2>1. CASE Interrupt \/ StopRoom
    <3>1. PICK kind \in Kinds : Signalled(kind) BY <2>1 DEF Interrupt, StopRoom, Kinds
    <3> QED BY <3>1, SignalledEffect
  <2>2. CASE ResumeRoom
    <3>1. turn' = turn \/ turn' = [turn EXCEPT !.stale = TRUE] BY <2>2, Zenon DEF ResumeRoom
    <3> QED BY <1>0, <3>1, SMT DEF Turns
  <2>3. CASE ObservePlatformStop
    <3>1. PICK k : turn' = [turn EXCEPT !.kind = k, !.terminating = TRUE, !.observed = TRUE]
      BY <2>3, Zenon DEF ObservePlatformStop
    <3> QED BY <1>0, <3>1, SMT DEF Turns
  <2>4. CASE CycleTimeout
    <3>1. turn' = [turn EXCEPT !.timedOut = TRUE, !.terminating = TRUE]
      BY <2>4 DEF CycleTimeout
    <3> QED BY <1>0, <3>1, SMT DEF Turns
  <2>5. CASE Cancelled BY <2>5 DEF Cancelled
  <2>6. CASE ObserverEnds \/ LiftWriteBackoff \/ Reconnected \/ Close \/ Rejoin
             \/ \E m \in Msgs : Delete(m)
    <3>1. turn' = turn
      BY <2>6, Zenon DEF ObserverEnds, LiftWriteBackoff, Reconnected, Close, Rejoin, Delete
    <3> QED BY <3>1
  <2> QED BY <1>4, <2>1, <2>2, <2>3, <2>4, <2>5, <2>6, Zenon DEF Environment
<1>5. CASE UNCHANGED vars BY <1>5 DEF vars
<1> QED BY <1>1, <1>2, <1>3, <1>4, <1>5 DEF Next

\* The latest STOP or INTERRUPT to reach an admitted turn decides it: an interrupted
\* message is consumed, a stopped one has no terminal write and stays actionable,
\* whichever handler result, timeout or platform stop raced with it.
THEOREM ControlsDecide == Spec => LatestControlDecides
<1>1. ASSUME IInv, AttemptInv, [Next]_vars, TurnEnds, alive',
             turn.phase \in {"admitted", "settled"}
      PROVE  /\ signal = "interrupt" => turn.originals \subseteq done
             /\ signal = "stop" =>
                  \A m \in turn.originals : /\ pending'[m] = NoWrite
                                            /\ status'[m] \in {"processing", "gone"}
  <2>0. /\ SignalFits /\ TurnFits /\ signal = turn.kind /\ turn'.pc = "idle"
        /\ turn \in Turns
    BY <1>1, SMT DEF AttemptInv, SignalFits, IInv, TurnEnds, TypeOK
  <2>1. CASE turn.phase = "admitted"
    <3>1. turn.pc \in {"context", "running"} BY <2>0, <2>1 DEF TurnFits
    <3>2. turn.kind = "none" BY <1>1, <2>0, <3>1, EndsResolved
    <3> QED BY <2>0, <3>2
  <2>2. CASE turn.phase = "settled"
    <3>1. signal = "interrupt" => turn.originals \subseteq done
      BY <2>0, <2>2 DEF SignalFits
    <3>2. ASSUME signal = "stop", NEW m \in turn.originals
          PROVE  pending'[m] = NoWrite /\ status'[m] \in {"processing", "gone"}
      <4>1. /\ turn.pc = "resolve" /\ pending[m] = NoWrite
            /\ status[m] \in {"processing", "gone"}
        BY <2>0, <2>2, <3>2 DEF SignalFits
      <4>2. UNCHANGED <<pending, status>> BY <1>1, <2>0, <4>1, EndsResolved
      <4> QED BY <4>1, <4>2
    <3> QED BY <3>1, <3>2
  <2> QED BY <1>1, <2>1, <2>2
<1>2. IInv /\ AttemptInv /\ [Next]_vars
        => [TurnEnds /\ alive' /\ turn.phase \in {"admitted", "settled"} =>
              /\ signal = "interrupt" => turn.originals \subseteq done
              /\ signal = "stop" =>
                  \A m \in turn.originals : /\ pending'[m] = NoWrite
                                            /\ status'[m] \in {"processing", "gone"}]_vars
  BY <1>1
<1> QED BY <1>2, DeliveryInvariant, AttemptsInductive, PTL DEF Spec, LatestControlDecides

-----------------------------------------------------------------------------
(* Delivery implements Settlement: the mapped state *)

Implements == [Settled!Next]_(Settled!vars)

\* A step that leaves the ledger alone and keeps or ends the turn.
LEMMA KeepsLedger ==
    ASSUME PlatformMap' = PlatformMap, OwedMap' = OwedMap, done' = done,
           misread' = misread, AdmittedMap' = AdmittedMap \/ AdmittedMap' = {}
    PROVE  Implements
<1>1. CASE AdmittedMap' = AdmittedMap BY <1>1 DEF Implements, Settled!vars
<1>2. CASE AdmittedMap' = {} BY <1>2 DEF Implements, Settled!Next, Settled!LetGo
<1> QED BY <1>1, <1>2

\* The same, stated of the variables of Delivery.
LEMMA LedgerSame ==
    ASSUME UNCHANGED <<status, pending, done, misread>>,
           AdmittedMap' = AdmittedMap \/ AdmittedMap' = {}
    PROVE  Implements
<1>1. PlatformMap' = PlatformMap /\ OwedMap' = OwedMap BY DEF PlatformMap, OwedMap
<1> QED BY <1>1, KeepsLedger

LEMMA StatusMapped ==
    ASSUME TypeOK, NEW m \in Msgs, NEW left, status' = [status EXCEPT ![m] = left]
    PROVE  PlatformMap' = [PlatformMap EXCEPT ![m] = Shown(left)]
<1>1. status'[m] = left /\ \A n \in Msgs \ {m} : status'[n] = status[n] BY DEF TypeOK
<1>2. PlatformMap' = [n \in Msgs |-> Shown(status'[n])] BY DEF PlatformMap
<1> DEFINE shown == [n \in Msgs |-> Shown(status[n])]
<1>3. \A n \in Msgs : Shown(status'[n]) = [shown EXCEPT ![m] = Shown(left)][n]
      BY <1>1
<1>4. PlatformMap' = [shown EXCEPT ![m] = Shown(left)] BY <1>2, <1>3
<1> QED BY <1>4 DEF PlatformMap

LEMMA StatusKept ==
    ASSUME TypeOK, NEW m \in Msgs, status' = [status EXCEPT ![m] = status[m]]
    PROVE  status' = status
BY SMT DEF TypeOK

\* Outside the context and the handler no message is admitted.
LEMMA NotAdmitted ==
    ASSUME IInv, turn.pc \notin {"context", "running"}
    PROVE  AdmittedMap = {} /\ turn.phase # "admitted"
BY SMT DEF IInv, TurnFits, AdmittedMap

LEMMA EndLetsGo ==
    ASSUME NEW outcome, NEW base, NEW charged, End(outcome, base, charged)
    PROVE  AdmittedMap' = {}
BY SMT DEF End, NoTurn, AdmittedMap

LEMMA FinishLetsGo ==
    ASSUME NEW outcome, Finish(outcome)
    PROVE  AdmittedMap' = {}
BY EndLetsGo DEF Finish

LEMMA SettleNextAdmits ==
    ASSUME IInv, turn.pc \in {"settle", "gone"}, NEW todo, SettleNext(todo)
    PROVE  AdmittedMap = {} /\ AdmittedMap' = {}
<1>1. AdmittedMap = {} /\ turn.phase # "admitted" BY NotAdmitted
<1>2. CASE todo = {}
  <2>1. PICK outcome : Finish(outcome) BY <1>2 DEF SettleNext
  <2> QED BY <1>1, <2>1, FinishLetsGo
<1>3. CASE todo # {}
  <2>1. turn' = [turn EXCEPT !.pc = "settle", !.todo = todo, !.cur = {}]
        BY <1>3 DEF SettleNext
  <2>2. turn'.phase = turn.phase BY <2>1, SMT DEF IInv, TypeOK, Turns
  <2> QED BY <1>1, <2>2 DEF AdmittedMap
<1> QED BY <1>2, <1>3

-----------------------------------------------------------------------------
(* Opening and admitting *)

\* A member of a turn that has decided nothing yet is undecided in the ledger.
LEMMA MembersUndecided ==
    ASSUME IInv, turn.pc \in Undecided, NEW m \in turn.originals
    PROVE  m \in Msgs /\ Settled!Undecided(m)
<1>1. turn \in Turns /\ TurnFits BY DEF IInv, TypeOK
<1>2. m \in turn.members /\ m \in Msgs BY <1>1, TurnFields DEF TurnFits
<1>3. pending[m] = NoWrite /\ m \notin done \ misread BY <1>1, <1>2 DEF TurnFits
<1>4. OwedMap[m] = "none" BY <1>2, <1>3, SMT DEF OwedMap, NoWrite
<1> QED BY <1>2, <1>3, <1>4 DEF Settled!Undecided

\* A processing write that lands opens an attempt.
LEMMA ProcessingOpens ==
    ASSUME IInv, turn.pc \in {"confirm", "absent"}, NEW m \in turn.originals,
           Lands(m, "processing"), status' = [status EXCEPT ![m] = "processing"]
    PROVE  Settled!Opens(m)
<1>1. TypeOK BY DEF IInv
<1>2. m \in Msgs /\ Settled!Undecided(m) BY MembersUndecided DEF Undecided
<1>3. PlatformMap[m] \in {"open", "failed"}
      BY <1>1, <1>2, SMT DEF PlatformMap, Shown, Lands, TypeOK, Statuses
<1>4. Shown("processing") = "open" BY DEF Shown
<1>5. PlatformMap' = [PlatformMap EXCEPT ![m] = "open"] BY <1>1, <1>2, <1>4, StatusMapped
<1> QED BY <1>2, <1>3, <1>5 DEF Settled!Opens

\* What an answer to a processing write shows: nothing, or an attempt that opens.
LEMMA ProcessingShows ==
    ASSUME IInv, turn.pc = "confirm", NEW m \in turn.originals, NEW result, NEW left,
           Answer(m, "processing", result, left), status' = [status EXCEPT ![m] = left]
    PROVE  PlatformMap' = PlatformMap \/ Settled!Opens(m)
<1>1. TypeOK /\ m \in Msgs BY MembersUndecided DEF IInv, Undecided
<1>2. CASE left = status[m]
  <2>1. status' = status BY <1>1, <1>2, StatusKept
  <2> QED BY <2>1 DEF PlatformMap
<1>3. CASE left # status[m]
  <2>1. left = "processing" /\ Lands(m, "processing") BY <1>3, SMT DEF Answer, Lands
  <2> QED BY <2>1, ProcessingOpens
<1> QED BY <1>2, <1>3

\* The end of confirm_processing: it goes on, ends, or admits what is left.
LEMMA ConfirmNextImplements ==
    ASSUME IInv, turn.pc \in {"confirm", "absent"}, NEW m \in turn.originals,
           NEW originals, NEW todo, originals \subseteq turn.originals,
           todo = {} => \A n \in originals : status'[n] \in {"processing", "gone"},
           PlatformMap' = PlatformMap \/ (Settled!Opens(m) /\ m \in originals),
           UNCHANGED <<pending, done, misread>>,
           ConfirmNext(originals, todo)
    PROVE  Implements
<1>0. TypeOK /\ turn \in Turns BY DEF IInv, TypeOK
<1>1. AdmittedMap = {} /\ turn.phase # "admitted" BY NotAdmitted
<1>2. OwedMap' = OwedMap BY DEF OwedMap
<1>3. m \in Msgs BY MembersUndecided DEF Undecided
<1>4. CASE AdmittedMap' = {}
  <2>1. CASE PlatformMap' = PlatformMap BY <1>2, <1>4, <2>1, KeepsLedger
  <2>2. CASE Settled!Opens(m)
    <3>1. Settled!Open(m) BY <1>1, <1>2, <1>4, <2>2 DEF Settled!Open
    <3> QED BY <1>3, <3>1 DEF Implements, Settled!Next
  <2> QED BY <2>1, <2>2
<1>5. CASE /\ todo = {} /\ originals # {}
           /\ turn' = [turn EXCEPT !.pc = "context", !.originals = originals,
                                   !.todo = {}, !.cur = {}, !.phase = "admitted"]
  <2>1. AdmittedMap' = originals BY <1>0, <1>5, SMT DEF Turns, AdmittedMap
  <2>2. \A n \in originals : n \in Msgs /\ Settled!Undecided(n)
        BY MembersUndecided DEF Undecided
  <2>3. \A n \in originals : PlatformMap'[n] \in {"open", "gone"}
        BY <1>5, <2>2, SMT DEF PlatformMap, Shown
  <2>4. Settled!Admit(originals)
        BY <1>1, <1>2, <1>5, <2>1, <2>2, <2>3 DEF Settled!Admit
  <2>5. originals \in SUBSET Msgs BY <2>2
  <2> QED BY <2>4, <2>5 DEF Implements, Settled!Next
<1>6. CASE \E outcome : Finish(outcome)
      BY <1>4, <1>6, FinishLetsGo
<1>7. CASE turn' = [turn EXCEPT !.pc = "confirm", !.originals = originals,
                                !.todo = todo, !.cur = {}]
  <2>1. turn'.phase = turn.phase BY <1>0, <1>7, SMT DEF Turns
  <2>2. AdmittedMap' = {} BY <1>1, <2>1 DEF AdmittedMap
  <2> QED BY <1>4, <2>2
<1> QED BY <1>5, <1>6, <1>7, Zenon DEF ConfirmNext

LEMMA ConfirmProcessingImplements ==
    ASSUME IInv, NEW m \in Msgs, ConfirmProcessing(m)
    PROVE  Implements
<1>0. TypeOK /\ TurnFits /\ turn \in Turns BY DEF IInv, TypeOK
<1>1. /\ turn.pc = "confirm" /\ m \in turn.todo
      /\ UNCHANGED <<pending, done, misread>>
      BY DEF ConfirmProcessing
<1>2. m \in turn.originals BY <1>0, <1>1 DEF TurnFits
<1>3. AdmittedMap = {} /\ turn.phase # "admitted" BY <1>1, NotAdmitted
<1>4. PICK result \in Results, left \in Statuses :
        /\ Answer(m, "processing", result, left)
        /\ status' = [status EXCEPT ![m] = left]
        /\ \/ turn' = [turn EXCEPT !.pc = "absent", !.cur = {m}]
           \/ result = "accepted" /\ ConfirmNext(turn.originals, turn.todo \ {m})
           \/ Finish(Unadmitted)
      BY Zenon DEF ConfirmProcessing
<1>5. PlatformMap' = PlatformMap \/ Settled!Opens(m)
      BY <1>1, <1>2, <1>4, ProcessingShows
<1>6. OwedMap' = OwedMap BY <1>1 DEF OwedMap
<1>7. CASE AdmittedMap' = {}
  <2>1. CASE PlatformMap' = PlatformMap BY <1>1, <1>6, <1>7, <2>1, KeepsLedger
  <2>2. CASE Settled!Opens(m)
    <3>1. Settled!Open(m) BY <1>1, <1>3, <1>6, <1>7, <2>2 DEF Settled!Open
    <3> QED BY <3>1 DEF Implements, Settled!Next
  <2> QED BY <1>5, <2>1, <2>2
<1>8. CASE turn' = [turn EXCEPT !.pc = "absent", !.cur = {m}]
  <2>1. turn'.phase = turn.phase BY <1>0, <1>8, SMT DEF Turns
  <2> QED BY <1>3, <1>7, <2>1 DEF AdmittedMap
<1>9. CASE Finish(Unadmitted) BY <1>7, <1>9, FinishLetsGo
<1>10. CASE result = "accepted" /\ ConfirmNext(turn.originals, turn.todo \ {m})
  <2>1. status'[m] = "processing" /\ \A n \in Msgs \ {m} : status'[n] = status[n]
    <3>1. left = "processing" BY <1>0, <1>4, <1>10, ProcessingAnswer
    <3> QED BY <1>0, <1>4, <3>1 DEF TypeOK
  <2>2. turn.originals \subseteq Msgs BY <1>0, TurnFields
  <2>3. turn.todo \ {m} = {} => \A n \in turn.originals : status'[n] \in {"processing", "gone"}
        BY <1>0, <1>1, <2>1, <2>2, SMT DEF TurnFits
  <2> QED BY <1>1, <1>2, <1>5, <1>10, <2>3, ConfirmNextImplements, Zenon
<1> QED BY <1>4, <1>8, <1>9, <1>10

LEMMA ConfirmProbeImplements ==
    ASSUME IInv, ConfirmProbe
    PROVE  Implements
<1>0. TypeOK /\ TurnFits /\ turn \in Turns BY DEF IInv, TypeOK
<1>1. turn.pc = "absent" /\ UNCHANGED <<status, pending, done, misread>>
      BY DEF ConfirmProbe
<1>2. \/ ConfirmNext(turn.originals \ turn.cur, turn.todo \ turn.cur)
      \/ Finish(Unadmitted)
      BY Zenon DEF ConfirmProbe
<1>3. CASE Finish(Unadmitted) BY <1>1, <1>3, FinishLetsGo, LedgerSame
<1>4. CASE ConfirmNext(turn.originals \ turn.cur, turn.todo \ turn.cur)
  <2>1. CASE turn.originals = {}
    <3>1. AdmittedMap = {} /\ turn.phase # "admitted" BY <1>1, NotAdmitted
    <3>2. CASE \E outcome : Finish(outcome) BY <1>1, <3>2, FinishLetsGo, LedgerSame
    <3>3. turn.todo = {} BY <1>0, <1>1, <2>1, SMT DEF TurnFits
    <3> QED BY <1>4, <2>1, <3>2, <3>3, Zenon DEF ConfirmNext
  <2>2. CASE turn.originals # {}
    <3>1. PICK m : m \in turn.originals BY <2>2
    <3>2. PlatformMap' = PlatformMap BY <1>1 DEF PlatformMap
    <3>3. turn.todo \ turn.cur = {} =>
            \A n \in turn.originals \ turn.cur : status'[n] \in {"processing", "gone"}
          BY <1>0, <1>1, SMT DEF TurnFits
    <3>4. turn.originals \ turn.cur \subseteq turn.originals OBVIOUS
    <3> QED BY <1>1, <1>4, <3>1, <3>2, <3>3, <3>4, ConfirmNextImplements, Zenon
  <2> QED BY <2>1, <2>2
<1> QED BY <1>2, <1>3, <1>4

-----------------------------------------------------------------------------
(* Deciding *)

\* A stored intent decides the admitted messages, none at all lets them go.
LEMMA StoreIntentImplements ==
    ASSUME IInv, turn.pc \in {"context", "running"}, StoreIntent("resolve"),
           UNCHANGED <<status, misread>>
    PROVE  Implements
<1>0. TypeOK /\ turn \in Turns /\ turn.phase = "admitted" BY DEF IInv, TypeOK, TurnFits
<1> DEFINE intent == TerminalIntent(turn)
<1>1. PICK todo, count :
        /\ turn' = [turn EXCEPT !.pc = "resolve", !.intent = intent, !.phase = "settled",
                                !.todo = todo]
        /\ pending' = Recorded(turn.originals, intent, count)
        /\ done' = IF intent = "processed" THEN done \cup turn.originals ELSE done
      BY Zenon DEF StoreIntent
<1>2. intent \in Intents BY TerminalIntentTyped
<1> HIDE DEF intent
<1>3. turn.originals \subseteq Msgs BY <1>0, TurnFields
<1>4. AdmittedMap = turn.originals BY <1>0 DEF AdmittedMap
<1>5. AdmittedMap' = {}
  <2>1. turn'.phase = "settled" BY <1>0, <1>1, SMT DEF Turns
  <2> QED BY <2>1 DEF AdmittedMap
<1>6. PlatformMap' = PlatformMap BY DEF PlatformMap
<1>7. OwedMap' = [n \in Msgs |-> IF n \in AdmittedMap /\ intent # "none"
                                  THEN intent ELSE OwedMap[n]]
  <2>1. ASSUME NEW n \in Msgs
        PROVE pending'[n].status = IF n \in AdmittedMap /\ intent # "none"
                                   THEN intent ELSE OwedMap[n]
        BY <1>1, <1>4, RecordedValue DEF OwedMap
  <2> QED BY <2>1 DEF OwedMap
<1>8. CASE intent = "none" \/ turn.originals = {}
  <2>1. OwedMap' = OwedMap
    <3>1. OwedMap' = [n \in Msgs |-> OwedMap[n]] BY <1>4, <1>7, <1>8
    <3> QED BY <3>1 DEF OwedMap
  <2>2. done' = done BY <1>1, <1>8
  <2> QED BY <1>5, <1>6, <2>1, <2>2, KeepsLedger
<1>9. CASE intent # "none" /\ turn.originals # {}
  <2>1. intent \in Settled!Verdicts BY <1>2, <1>9 DEF Intents, Settled!Verdicts
  <2>2. OwedMap' = [n \in Msgs |-> IF n \in AdmittedMap THEN intent ELSE OwedMap[n]]
        BY <1>7, <1>9
  <2>3. Settled!Decide(intent)
        BY <1>1, <1>4, <1>5, <1>6, <1>9, <2>2 DEF Settled!Decide
  <2> QED BY <2>1, <2>3 DEF Implements, Settled!Next
<1> QED BY <1>8, <1>9

LEMMA ExecuteDeliveryImplements ==
    ASSUME IInv, ExecuteDelivery
    PROVE  Implements
<1>0. turn \in Turns BY DEF IInv, TypeOK
<1>1. turn.pc = "context" /\ UNCHANGED <<status, misread>> BY DEF ExecuteDelivery
<1>2. CASE StoreIntent("resolve") BY <1>1, <1>2, StoreIntentImplements
<1>3. CASE Finish(Unadmitted) /\ UNCHANGED <<pending, done>>
      BY <1>1, <1>3, FinishLetsGo, LedgerSame
<1>4. CASE /\ turn' = [turn EXCEPT !.pc = "running", !.handler = "running"]
           /\ UNCHANGED <<pending, done>>
  <2>1. AdmittedMap' = AdmittedMap BY <1>0, <1>4, SMT DEF Turns, AdmittedMap
  <2> QED BY <1>1, <1>4, <2>1, LedgerSame
<1> QED BY <1>2, <1>3, <1>4, Zenon DEF ExecuteDelivery

LEMMA SelectIntentImplements ==
    ASSUME IInv, SelectIntent
    PROVE  Implements
BY StoreIntentImplements DEF SelectIntent

-----------------------------------------------------------------------------
(* Landing and retiring *)

\* A terminal write that lands shows what is owed, heard or not.
LEMMA TerminalLands ==
    ASSUME IInv, NEW m \in Msgs, pending[m] # NoWrite, Lands(m, pending[m].status),
           status' = [status EXCEPT ![m] = pending[m].status],
           NEW heard \in BOOLEAN,
           OwedMap' = IF heard THEN [OwedMap EXCEPT ![m] = "none"] ELSE OwedMap,
           AdmittedMap' = AdmittedMap, UNCHANGED <<done, misread>>
    PROVE  Implements
<1>0. TypeOK /\ Ledger(m) BY DEF IInv
<1>1. pending[m].status \in {"processed", "failed"} BY <1>0, OwedStatus
<1>2. status[m] = "processing" BY <1>1 DEF Lands
<1>3. OwedMap[m] = pending[m].status /\ PlatformMap[m] = "open"
      BY <1>2 DEF OwedMap, PlatformMap, Shown
<1>4. Shown(pending[m].status) = pending[m].status BY <1>1 DEF Shown
<1>5. PlatformMap' = [PlatformMap EXCEPT ![m] = OwedMap[m]]
  <2>1. PlatformMap' = [PlatformMap EXCEPT ![m] = Shown(pending[m].status)]
        BY <1>0, StatusMapped
  <2> QED BY <1>3, <1>4, <2>1, Zenon
<1>6. Settled!Land(m, heard) BY <1>1, <1>3, <1>5 DEF Settled!Land
<1> QED BY <1>6 DEF Implements, Settled!Next

LEMMA OwedDropped ==
    ASSUME TypeOK, NEW m \in Msgs, pending' = [pending EXCEPT ![m] = NoWrite]
    PROVE  OwedMap' = [OwedMap EXCEPT ![m] = "none"]
<1>1. pending'[m] = NoWrite /\ \A n \in Msgs \ {m} : pending'[n] = pending[n] BY DEF TypeOK
<1>2. OwedMap' = [n \in Msgs |-> pending'[n].status] BY DEF OwedMap
<1> DEFINE owes == [n \in Msgs |-> pending[n].status]
<1>3. \A n \in Msgs : pending'[n].status = [owes EXCEPT ![m] = "none"][n]
      BY <1>1 DEF NoWrite
<1>4. OwedMap' = [owes EXCEPT ![m] = "none"] BY <1>2, <1>3
<1> QED BY <1>4 DEF OwedMap

LEMMA OwedParked ==
    ASSUME TypeOK, NEW m \in Msgs, Parked(m)
    PROVE  OwedMap' = OwedMap
<1>1. \A n \in Msgs : pending'[n].status = pending[n].status BY ParkedEffect
<1> QED BY <1>1, Zenon DEF OwedMap

LEMMA WriteSettlementImplements ==
    ASSUME IInv, NEW m \in Msgs, WriteSettlement(m)
    PROVE  Implements
<1> USE DEF history
<1>0. TypeOK /\ TurnFits /\ Ledger(m) /\ turn \in Turns BY DEF IInv, TypeOK
<1>1. turn.pc = "settle" /\ m \in turn.todo /\ UNCHANGED <<done, misread>>
      BY DEF WriteSettlement
<1>2. pending[m] # NoWrite BY <1>0, <1>1 DEF TurnFits
<1>3. pending[m].status \in {"processed", "failed"} BY <1>0, <1>2, OwedStatus
<1>4. PICK result \in Results, left \in Statuses :
        /\ Answer(m, pending[m].status, result, left)
        /\ status' = [status EXCEPT ![m] = left]
        /\ \/ result = "accepted" /\ Confirmed(m) /\ \E todo : SettleNext(todo)
           \/ result = "rejected" /\ Parked(m) /\ \E todo : SettleNext(todo)
           \/ UNCHANGED pending /\ \E todo : SettleNext(todo)
           \/ UNCHANGED pending /\ turn' = [turn EXCEPT !.pc = "gone", !.cur = {m}]
  <2>1. ASSUME NEW result \in Results
        PROVE \/ result = "accepted" \/ result = "rejected" \/ result = "unconfirmed"
              \/ result = "stopped" \/ result = "not_found"
        BY <2>1, SMT DEF Results
  <2> QED BY <2>1, Zenon DEF WriteSettlement
<1>5. AdmittedMap = {} /\ AdmittedMap' = {}
  <2>1. CASE \E todo : SettleNext(todo) BY <1>1, <2>1, SettleNextAdmits
  <2>2. CASE turn' = [turn EXCEPT !.pc = "gone", !.cur = {m}]
    <3>1. AdmittedMap = {} /\ turn.phase # "admitted" BY <1>1, NotAdmitted
    <3>2. turn'.phase = turn.phase BY <1>0, <2>2, SMT DEF Turns
    <3> QED BY <3>1, <3>2 DEF AdmittedMap
  <2> QED BY <1>4, <2>1, <2>2
<1>6. CASE result = "accepted" /\ Confirmed(m)
  <2>1. left = pending[m].status /\ Lands(m, pending[m].status)
        BY <1>4, <1>6, SMT DEF Answer
  <2>2. OwedMap' = [OwedMap EXCEPT ![m] = "none"]
        BY <1>0, <1>6, OwedDropped DEF Confirmed
  <2>3. OwedMap' = IF TRUE THEN [OwedMap EXCEPT ![m] = "none"] ELSE OwedMap BY <2>2
  <2> QED BY <1>1, <1>2, <1>4, <1>5, <2>1, <2>3, TerminalLands
<1>7. CASE OwedMap' = OwedMap
  <2>1. CASE left = status[m]
    <3>1. status' = status BY <1>0, <1>4, <2>1, StatusKept
    <3>2. PlatformMap' = PlatformMap BY <3>1 DEF PlatformMap
    <3> QED BY <1>1, <1>5, <1>7, <3>2, KeepsLedger
  <2>2. CASE left # status[m]
    <3>1. left = pending[m].status /\ Lands(m, pending[m].status)
          BY <1>4, <2>2, SMT DEF Answer
    <3>2. OwedMap' = IF FALSE THEN [OwedMap EXCEPT ![m] = "none"] ELSE OwedMap BY <1>7
    <3> QED BY <1>1, <1>2, <1>4, <1>5, <3>1, <3>2, TerminalLands
  <2> QED BY <2>1, <2>2
<1>8. CASE Parked(m) BY <1>0, <1>7, <1>8, OwedParked
<1>9. CASE UNCHANGED pending BY <1>7, <1>9 DEF OwedMap
<1> QED BY <1>4, <1>6, <1>8, <1>9

LEMMA SettleProbeImplements ==
    ASSUME IInv, NEW m \in Msgs, SettleProbe(m)
    PROVE  Implements
<1>0. TypeOK /\ TurnFits /\ Ledger(m) BY DEF IInv
<1>1. turn.pc = "gone" /\ m \in turn.cur /\ UNCHANGED <<status, done>> BY DEF SettleProbe
<1>2. pending[m] # NoWrite BY <1>0, <1>1 DEF TurnFits
<1>3. pending[m].status \in {"processed", "failed"} BY <1>0, <1>2, OwedStatus
<1>4. AdmittedMap = {} /\ AdmittedMap' = {}
  <2>1. PICK todo : SettleNext(todo) BY Zenon DEF SettleProbe
  <2> QED BY <1>1, <2>1, SettleNextAdmits
<1>5. PlatformMap' = PlatformMap BY <1>1 DEF PlatformMap
<1>6. CASE Parked(m) /\ UNCHANGED misread
      BY <1>0, <1>1, <1>4, <1>5, <1>6, OwedParked, KeepsLedger
<1>7. CASE /\ pending' = [pending EXCEPT ![m] = NoWrite]
           /\ misread' = IF status[m] = "gone" THEN misread ELSE misread \cup {m}
  <2>1. OwedMap' = [OwedMap EXCEPT ![m] = "none"] BY <1>0, <1>7, OwedDropped
  <2>2. OwedMap[m] # "none" BY <1>3 DEF OwedMap
  <2>3. PlatformMap[m] = "gone" <=> status[m] = "gone" BY <1>0 DEF PlatformMap, Shown
  <2>4. Settled!Retire(m)
        BY <1>1, <1>4, <1>5, <1>7, <2>1, <2>2, <2>3 DEF Settled!Retire
  <2> QED BY <2>4 DEF Implements, Settled!Next
<1> QED BY <1>6, <1>7, Zenon DEF SettleProbe

-----------------------------------------------------------------------------
(* Steps that only begin, supervise or end an attempt *)

LEMMA AttemptImplements ==
    ASSUME IInv, Attempt
    PROVE  Implements
<1> USE DEF history
<1>0. turn \in Turns BY DEF IInv, TypeOK
<1>1. CASE BeginDelivery
  <2>1. UNCHANGED <<status, pending, done, misread>> BY <1>1 DEF BeginDelivery
  <2>2. CASE Finish(Unadmitted) BY <2>1, <2>2, FinishLetsGo, LedgerSame
  <2>3. CASE turn' = [turn EXCEPT !.pc = "prepare", !.phase = "preparing",
                                  !.originals = turn.members]
    <3>1. turn'.phase = "preparing" BY <1>0, <2>3, SMT DEF Turns
    <3> QED BY <2>1, <3>1, LedgerSame DEF AdmittedMap
  <2> QED BY <1>1, <2>2, <2>3, Zenon DEF BeginDelivery
<1>2. CASE BeginDeferred
  <2>1. UNCHANGED <<status, pending, done, misread>> BY <1>2 DEF BeginDeferred
  <2> QED BY <1>2, <2>1, FinishLetsGo, LedgerSame DEF BeginDeferred
<1>3. CASE Prepare
  <2>1. turn.pc = "prepare" /\ UNCHANGED <<status, pending, done, misread>>
        BY <1>3 DEF Prepare
  <2>2. CASE \E outcome, base, charged : End(outcome, base, charged)
        BY <2>1, <2>2, EndLetsGo, LedgerSame
  <2>3. CASE \E kept, charges : turn' = [turn EXCEPT !.pc = "confirm", !.originals = kept,
                                           !.charged = charges, !.todo = kept]
    <3>1. turn'.phase = turn.phase BY <1>0, <2>3, SMT DEF Turns
    <3>2. AdmittedMap' = {} BY <2>1, <3>1, NotAdmitted DEF AdmittedMap
    <3> QED BY <2>1, <3>2, LedgerSame
  <2> QED BY <1>3, <2>2, <2>3, Zenon DEF Prepare
<1>4. CASE Resolve
  <2>1. turn.pc = "resolve" /\ UNCHANGED <<status, pending, done, misread>>
        BY <1>4 DEF Resolve
  <2>2. CASE \E outcome : Finish(outcome) BY <2>1, <2>2, FinishLetsGo, LedgerSame
  <2>3. CASE \E writes : turn' = [turn EXCEPT !.pc = "settle", !.todo = writes]
    <3>1. turn'.phase = turn.phase BY <1>0, <2>3, SMT DEF Turns
    <3>2. AdmittedMap' = {} BY <2>1, <3>1, NotAdmitted DEF AdmittedMap
    <3> QED BY <2>1, <3>2, LedgerSame
  <2> QED BY <1>4, <2>2, <2>3, Zenon DEF Resolve
<1> QED BY <1>1, <1>2, <1>3, <1>4, ConfirmProbeImplements, ExecuteDeliveryImplements,
       SelectIntentImplements, ConfirmProcessingImplements, WriteSettlementImplements,
       SettleProbeImplements, Zenon DEF Attempt

\* A step that only sets flags of the turn keeps what is admitted.
LEMMA FlagsAdmit ==
    ASSUME turn \in Turns, turn'.phase = turn.phase, turn'.originals = turn.originals
    PROVE  AdmittedMap' = AdmittedMap
BY DEF AdmittedMap

LEMMA HandlerImplements ==
    ASSUME IInv, Handler
    PROVE  Implements
<1>0. turn \in Turns BY DEF IInv, TypeOK
<1>1. PICK result : HandlerEnds(result) BY Zenon DEF Handler
<1>2. UNCHANGED <<status, pending, done, misread>>
      BY <1>1 DEF HandlerEnds, registry, history
<1>3. PICK consumed : turn' = [turn EXCEPT !.handler = result, !.consumed = consumed]
      BY <1>1, Zenon DEF HandlerEnds
<1>4. turn'.phase = turn.phase /\ turn'.originals = turn.originals
      BY <1>0, <1>3, SMT DEF Turns
<1> QED BY <1>0, <1>2, <1>4, FlagsAdmit, LedgerSame

LEMMA SchedulerImplements ==
    ASSUME Scheduler
    PROVE  Implements
<1>1. UNCHANGED <<status, pending, done, misread>>
      BY Zenon DEF Scheduler, Dispatch, RetrySettlement, registry, history
<1>2. CASE \E ms, control : turn' = [NoTurn EXCEPT !.pc = "begin", !.members = ms,
                                                   !.control = control]
  <2>1. AdmittedMap' = {} BY <1>2, SMT DEF NoTurn, AdmittedMap
  <2> QED BY <1>1, <2>1, LedgerSame
<1>3. CASE \E m : turn' = [NoTurn EXCEPT !.pc = "settle", !.originals = {m}, !.todo = {m}]
  <2>1. AdmittedMap' = {} BY <1>3, SMT DEF NoTurn, AdmittedMap
  <2> QED BY <1>1, <2>1, LedgerSame
<1> QED BY <1>2, <1>3, Zenon DEF Scheduler, Dispatch, RetrySettlement

-----------------------------------------------------------------------------
(* What happens around an attempt *)

LEMMA SignalledAdmits ==
    ASSUME turn \in Turns, NEW kind, Signalled(kind)
    PROVE  AdmittedMap' = AdmittedMap
<1>1. CASE turn' = turn BY <1>1 DEF AdmittedMap
<1>2. CASE \E k, t : turn' = [turn EXCEPT !.stale = TRUE, !.kind = k, !.terminating = t]
  <2>1. turn'.phase = turn.phase /\ turn'.originals = turn.originals
        BY <1>2, SMT DEF Turns
  <2> QED BY <2>1, FlagsAdmit
<1> QED BY <1>1, <1>2, Zenon DEF Signalled

LEMMA DeleteImplements ==
    ASSUME IInv, NEW m \in Msgs, Delete(m)
    PROVE  Implements
<1>1. TypeOK /\ status' = [status EXCEPT ![m] = "gone"] BY DEF IInv, Delete
<1>2. UNCHANGED <<pending, turn, done, misread>> BY DEF Delete, registry, history
<1>3. Shown("gone") = "gone" BY DEF Shown
<1>4. PlatformMap' = [PlatformMap EXCEPT ![m] = "gone"] BY <1>1, <1>3, StatusMapped
<1>5. OwedMap' = OwedMap /\ AdmittedMap' = AdmittedMap BY <1>2 DEF OwedMap, AdmittedMap
<1>6. Settled!Delete(m) BY <1>2, <1>4, <1>5 DEF Settled!Delete
<1> QED BY <1>6 DEF Implements, Settled!Next

LEMMA CancelledImplements ==
    ASSUME IInv, Cancelled
    PROVE  Implements
<1> USE DEF history
<1>0. TypeOK /\ TurnFits /\ turn \in Turns BY DEF IInv, TypeOK
<1>1. UNCHANGED <<pending, done, misread>> BY DEF Cancelled
<1>2. AdmittedMap' = {}
  <2>1. CASE turn.pc = "idle"
    <3>1. turn' = turn BY <2>1 DEF Cancelled
    <3> QED BY <2>1, <3>1, NotAdmitted DEF AdmittedMap
  <2>2. CASE turn.pc # "idle" BY <2>2, FinishLetsGo DEF Cancelled
  <2> QED BY <2>1, <2>2
<1>3. OwedMap' = OwedMap BY <1>1 DEF OwedMap
<1>4. CASE status' = status BY <1>1, <1>2, <1>4, LedgerSame
<1>5. ASSUME NEW m \in turn.todo, turn.pc = "confirm", Lands(m, "processing"),
             status' = [status EXCEPT ![m] = "processing"]
      PROVE  Implements
  <2>1. m \in turn.originals BY <1>0, <1>5 DEF TurnFits
  <2>2. m \in Msgs BY <1>0, TurnFields
  <2>3. Settled!Opens(m) BY <1>5, <2>1, ProcessingOpens
  <2>4. AdmittedMap = {} BY <1>5, NotAdmitted
  <2>5. Settled!Open(m) BY <1>1, <1>2, <1>3, <2>3, <2>4 DEF Settled!Open
  <2> QED BY <2>2, <2>5 DEF Implements, Settled!Next
<1>6. ASSUME NEW m \in turn.todo, turn.pc = "settle", Lands(m, pending[m].status),
             status' = [status EXCEPT ![m] = pending[m].status]
      PROVE  Implements
  <2>1. m \in Msgs BY <1>0, TurnFields
  <2>2. pending[m] # NoWrite BY <1>0, <1>6 DEF TurnFits
  <2>3. AdmittedMap' = AdmittedMap BY <1>2, <1>6, NotAdmitted
  <2>4. OwedMap' = IF FALSE THEN [OwedMap EXCEPT ![m] = "none"] ELSE OwedMap BY <1>3
  <2> QED BY <1>1, <1>6, <2>1, <2>2, <2>3, <2>4, TerminalLands
<1>7. \/ status' = status
      \/ \E m \in turn.todo : /\ turn.pc = "confirm" /\ Lands(m, "processing")
                              /\ status' = [status EXCEPT ![m] = "processing"]
      \/ \E m \in turn.todo : /\ turn.pc = "settle" /\ Lands(m, pending[m].status)
                              /\ status' = [status EXCEPT ![m] = pending[m].status]
      BY DEF Cancelled
<1> QED BY <1>4, <1>5, <1>6, <1>7

LEMMA UnparkedImplements ==
    ASSUME IInv, pending' = Unparked, UNCHANGED <<status, turn, done, misread>>
    PROVE  Implements
<1>1. \A n \in Msgs : pending[n] \in Writes BY DEF IInv, TypeOK
<1>2. \A n \in Msgs : pending'[n].status = pending[n].status
      BY <1>1, ParkingKeeps DEF Unparked
<1>3. OwedMap' = OwedMap BY <1>2, Zenon DEF OwedMap
<1>4. PlatformMap' = PlatformMap /\ AdmittedMap' = AdmittedMap
      BY DEF PlatformMap, AdmittedMap
<1> QED BY <1>3, <1>4, KeepsLedger

LEMMA EnvironmentImplements ==
    ASSUME IInv, Environment
    PROVE  Implements
<1> USE DEF history, registry
<1>0. turn \in Turns BY DEF IInv, TypeOK
<1>1. CASE Interrupt \/ StopRoom
  <2>1. UNCHANGED <<status, pending, done, misread>> BY <1>1 DEF Interrupt, StopRoom
  <2>2. AdmittedMap' = AdmittedMap BY <1>0, <1>1, SignalledAdmits DEF Interrupt, StopRoom
  <2> QED BY <2>1, <2>2, LedgerSame
<1>2. CASE ResumeRoom
  <2>1. UNCHANGED <<status, pending, done, misread>> BY <1>2 DEF ResumeRoom
  <2>2. CASE turn' = turn BY <2>1, <2>2, LedgerSame DEF AdmittedMap
  <2>3. CASE turn' = [turn EXCEPT !.stale = TRUE]
    <3>1. turn'.phase = turn.phase /\ turn'.originals = turn.originals
          BY <1>0, <2>3, SMT DEF Turns
    <3> QED BY <1>0, <2>1, <3>1, FlagsAdmit, LedgerSame
  <2> QED BY <1>2, <2>2, <2>3 DEF ResumeRoom
<1>3. CASE ObservePlatformStop
  <2>1. UNCHANGED <<status, pending, done, misread>> BY <1>3 DEF ObservePlatformStop
  <2>2. PICK k : turn' = [turn EXCEPT !.kind = k, !.terminating = TRUE, !.observed = TRUE]
        BY <1>3, Zenon DEF ObservePlatformStop
  <2>3. turn'.phase = turn.phase /\ turn'.originals = turn.originals
        BY <1>0, <2>2, SMT DEF Turns
  <2> QED BY <1>0, <2>1, <2>3, FlagsAdmit, LedgerSame
<1>4. CASE CycleTimeout
  <2>1. /\ UNCHANGED <<status, pending, done, misread>>
        /\ turn' = [turn EXCEPT !.timedOut = TRUE, !.terminating = TRUE]
        BY <1>4 DEF CycleTimeout
  <2>2. turn'.phase = turn.phase /\ turn'.originals = turn.originals
        BY <1>0, <2>1, SMT DEF Turns
  <2> QED BY <1>0, <2>1, <2>2, FlagsAdmit, LedgerSame
<1>5. CASE ObserverEnds \/ LiftWriteBackoff \/ Close
  <2>1. UNCHANGED <<status, pending, turn, done, misread>>
        BY <1>5 DEF ObserverEnds, LiftWriteBackoff, Close
  <2> QED BY <2>1, LedgerSame DEF AdmittedMap
<1>6. CASE Reconnected \/ Rejoin
  <2>1. pending' = Unparked /\ UNCHANGED <<status, turn, done, misread>>
        BY <1>6 DEF Reconnected, Rejoin
  <2> QED BY <2>1, UnparkedImplements
<1> QED BY <1>1, <1>2, <1>3, <1>4, <1>5, <1>6, CancelledImplements, DeleteImplements, Zenon
       DEF Environment

-----------------------------------------------------------------------------
(* The theorem *)

LEMMA InitImplements ==
    ASSUME Init
    PROVE  Settled!Init
<1>1. PlatformMap = [m \in Msgs |-> "open"] BY DEF Init, PlatformMap, Shown
<1>2. OwedMap = [m \in Msgs |-> "none"] BY DEF Init, OwedMap, NoWrite
<1>3. AdmittedMap = {} BY DEF Init, NoTurn, AdmittedMap
<1> QED BY <1>1, <1>2, <1>3 DEF Init, Settled!Init

LEMMA NextImplements ==
    ASSUME IInv, [Next]_vars
    PROVE  Implements
<1>1. CASE UNCHANGED vars
  <2>1. UNCHANGED <<status, pending, turn, done, misread>> BY <1>1 DEF vars
  <2> QED BY <2>1, LedgerSame DEF AdmittedMap
<1> QED BY <1>1, AttemptImplements, HandlerImplements, SchedulerImplements,
       EnvironmentImplements DEF Next

\* The delivery lifecycle implements Settlement: whatever awaits, answers, controls,
\* reconnects, cancellations and rejoins do, each step opens, admits, decides, lands or
\* retires a message as the ledger allows, or changes nothing of it.
THEOREM DeliverySettles == Spec => ImplementsSettlement
<1>1. Init => Settled!Init BY InitImplements
<1>2. IInv /\ [Next]_vars => [Settled!Next]_(Settled!vars)
      BY NextImplements DEF Implements
<1> QED BY <1>1, <1>2, DeliveryInvariant, PTL DEF Spec, ImplementsSettlement, Settled!Spec

-----------------------------------------------------------------------------
(* What the ledger guarantees, and so Delivery.  Kept is not inductive alone: a decision
   lands on what the platform shows of an admitted message, so SInv adds what is known
   of those. *)

\* An admitted message owes nothing, is undecided and has an open attempt or is gone.
AdmittedFits ==
    \A m \in AdmittedMap : Settled!Undecided(m) /\ PlatformMap[m] \in {"open", "gone"}

SInv == Settled!SettlementTypeOK /\ Settled!Kept /\ AdmittedFits

LEMMA InitSInv == Settled!Init => SInv
BY DEF Settled!Init, SInv, Settled!SettlementTypeOK, Settled!Kept, AdmittedFits, Settled!Verdicts

LEMMA OpensKeeps ==
    ASSUME SInv, NEW m \in Msgs, Settled!Opens(m)
    PROVE  /\ PlatformMap' \in [Msgs -> {"open", "gone"} \cup Settled!Verdicts]
           /\ PlatformMap'[m] = "open" /\ m \notin done \ misread
           /\ \A n \in Msgs \ {m} : PlatformMap'[n] = PlatformMap[n]
BY DEF SInv, Settled!SettlementTypeOK, Settled!Opens, Settled!Undecided, Settled!Verdicts

LEMMA NextSInv == SInv /\ [Settled!Next]_(Settled!vars) => SInv'
<1> SUFFICES ASSUME SInv, [Settled!Next]_(Settled!vars) PROVE SInv'
    OBVIOUS
<1> USE DEF SInv, Settled!SettlementTypeOK
<1>1. ASSUME NEW ms \in SUBSET Msgs, Settled!Admit(ms) PROVE SInv'
  <2>1. CASE UNCHANGED PlatformMap
        BY <1>1, <2>1, SMT DEF Settled!Admit, Settled!Kept, AdmittedFits, Settled!Undecided
  <2>2. ASSUME NEW m \in ms, Settled!Opens(m) PROVE SInv'
    <3>1. /\ PlatformMap' \in [Msgs -> {"open", "gone"} \cup Settled!Verdicts]
          /\ PlatformMap'[m] = "open" /\ m \notin done \ misread
          /\ \A n \in Msgs \ {m} : PlatformMap'[n] = PlatformMap[n]
          BY <2>2, OpensKeeps
    <3> QED BY <1>1, <3>1, SMT DEF Settled!Admit, Settled!Kept, AdmittedFits, Settled!Undecided
  <2> QED BY <1>1, <2>1, <2>2 DEF Settled!Admit
<1>2. ASSUME NEW verdict \in Settled!Verdicts, Settled!Decide(verdict) PROVE SInv'
  <2>1. Settled!SettlementTypeOK' BY <1>2, SMT DEF Settled!Decide
  <2>2. \A m \in Msgs : OwedMap'[m] = IF m \in AdmittedMap THEN verdict ELSE OwedMap[m]
        BY <1>2 DEF Settled!Decide
  <2>3. Settled!Kept'
        BY <1>2, <2>2, SMT DEF Settled!Decide, Settled!Kept, AdmittedFits,
           Settled!Undecided, Settled!Verdicts
  <2>4. AdmittedFits' BY <1>2 DEF Settled!Decide, AdmittedFits
  <2> QED BY <2>1, <2>3, <2>4
<1>3. CASE Settled!LetGo BY <1>3, SMT DEF Settled!LetGo, Settled!Kept, AdmittedFits
<1>4. ASSUME NEW m \in Msgs, Settled!Open(m) PROVE SInv'
  <2>1. /\ PlatformMap' \in [Msgs -> {"open", "gone"} \cup Settled!Verdicts]
        /\ PlatformMap'[m] = "open" /\ m \notin done \ misread
        /\ \A n \in Msgs \ {m} : PlatformMap'[n] = PlatformMap[n]
        BY <1>4, OpensKeeps DEF Settled!Open
  <2> QED BY <1>4, <2>1, SMT DEF Settled!Open, Settled!Kept, AdmittedFits, Settled!Undecided
<1>5. ASSUME NEW m \in Msgs, NEW heard \in BOOLEAN, Settled!Land(m, heard) PROVE SInv'
  <2>1. m \notin AdmittedMap BY <1>5 DEF Settled!Land, AdmittedFits, Settled!Undecided
  <2>2. /\ PlatformMap'[m] = OwedMap[m] /\ OwedMap[m] \in Settled!Verdicts
        /\ \A n \in Msgs \ {m} : PlatformMap'[n] = PlatformMap[n] /\ OwedMap'[n] = OwedMap[n]
        /\ OwedMap'[m] = OwedMap[m] \/ OwedMap'[m] = "none"
        BY <1>5, SMT DEF Settled!Land, Settled!Verdicts
  <2>3. Settled!SettlementTypeOK' BY <1>5, SMT DEF Settled!Land, Settled!Verdicts
  <2>4. Settled!Kept' BY <1>5, <2>1, <2>2, SMT DEF Settled!Land, Settled!Kept, Settled!Verdicts
  <2>5. AdmittedFits' BY <1>5, <2>1, <2>2, SMT DEF Settled!Land, AdmittedFits, Settled!Undecided
  <2> QED BY <2>3, <2>4, <2>5
<1>6. ASSUME NEW m \in Msgs, Settled!Retire(m) PROVE SInv'
      BY <1>6, SMT DEF Settled!Retire, Settled!Kept, AdmittedFits, Settled!Undecided
<1>7. ASSUME NEW m \in Msgs, Settled!Delete(m) PROVE SInv'
      BY <1>7, SMT DEF Settled!Delete, Settled!Kept, AdmittedFits, Settled!Undecided
<1>8. CASE UNCHANGED Settled!vars
      BY <1>8, SMT DEF Settled!vars, Settled!Kept, AdmittedFits, Settled!Undecided
<1> QED BY <1>1, <1>2, <1>3, <1>4, <1>5, <1>6, <1>7, <1>8 DEF Settled!Next

LEMMA LedgerKeeps == Settled!Spec => []Settled!Kept
<1>1. SInv => Settled!Kept BY DEF SInv
<1> QED BY <1>1, InitSInv, NextSInv, PTL DEF Settled!Spec

\* A success of the delivery lifecycle is owed or shown until the message is deleted or
\* taken for deleted, and is never owed, shown or admitted as anything else: what the
\* ledger keeps, Delivery keeps, because it implements it.
THEOREM SuccessKept == Spec => []Settled!Kept
BY DeliverySettles, LedgerKeeps, PTL DEF ImplementsSettlement

=============================================================================
