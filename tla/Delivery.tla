------------------------------ MODULE Delivery ------------------------------
(***************************************************************************)
(* How one room's execution carries a platform message from claim to       *)
(* durable settlement: DeliveryLifecycle (runtime/delivery.py), the turn    *)
(* scope it shares with the control plane (runtime/cycle.py) and the        *)
(* supervision of the handler task (ExecutionContext.execute_delivery).     *)
(*                                                                          *)
(* The scheduler is the environment: whenever the room is idle it may offer *)
(* any runnable original (any set of them when Batching), or retry a        *)
(* terminal write that is owed.  Every await of the delivery coroutine is   *)
(* a step boundary, so control signals, a reconnect, a platform stop, the   *)
(* handler and the shutdown of the room interleave with it there.           *)
(*                                                                          *)
(* run()'s loop is a further Dispatch: an iteration whose revision went     *)
(* stale ends unadmitted and leaves no trace, and any other iteration is    *)
(* what dispatching the still runnable members again does.                  *)
(***************************************************************************)
EXTENDS Integers, FiniteSets

CONSTANTS
    Msgs,        \* the platform messages addressed to the agent in this room
    Batching,    \* SessionConfig.consume_all_queued
    MaxRetries,  \* SessionConfig.max_message_retries: attempts per message
    MaxFaults,   \* bound: lost, refused and stopped answers, deletions, refusals
    MaxControls, \* bound: control signals, reconnects and control offers
    MaxRejoins   \* bound: how often the room is left and joined again

ASSUME MsgsAssumption == IsFiniteSet(Msgs) /\ Msgs # {}
ASSUME BatchingAssumption == Batching \in BOOLEAN
\* SessionConfig refuses a batching room that retries.
ASSUME RetriesAssumption ==
    /\ MaxRetries \in Nat \ {0}
    /\ Batching => MaxRetries = 1
ASSUME BoundsAssumption ==
    MaxFaults \in Nat /\ MaxControls \in Nat /\ MaxRejoins \in Nat

VARIABLES
    status,     \* platform: the agent's durable delivery status of each message
    pending,    \* claim registry: the terminal write each message still owes
    inflight,   \* claim registry: messages claimed by a running attempt
    completed,  \* claim registry: messages remembered as done
    attempts,   \* retry tracker: attempts charged to each message
    exhausted,  \* retry tracker: messages that permanently failed
    retained,   \* scheduler: originals kept from live arrival
    alive,      \* the execution's loop task runs
    closing,    \* ExecutionContext._closing
    stopped,    \* ExecutionContext._stopped, the local pause
    backoff,    \* DeliveryLifecycle.retry_not_before, the deadlines still ahead
    observer,   \* the previous scope's platform-stop observer still runs
    turn,       \* the delivery coroutine and its TurnScope
    faults, controls, rejoins, \* bounds spent
    done,       \* history: messages with a PROCESSED intent stored
    failures,   \* history: FAILED intents stored since the tracker was built
    signal,     \* history: the latest control to reach the admitted scope
    misread     \* history: messages inferred deleted though they exist

registry == <<pending, inflight, completed>>
tracker == <<attempts, exhausted>>
room == <<alive, closing, stopped, observer>>
history == <<done, failures, signal, misread>>
vars == <<status, pending, inflight, completed, attempts, exhausted, retained,
          alive, closing, stopped, backoff, observer, turn, faults, controls,
          rejoins, done, failures, signal, misread>>

-----------------------------------------------------------------------------
(* Values *)

Statuses == {"delivered", "processing", "processed", "failed", "gone"}
Intents == {"none", "processed", "failed"}
Kinds == {"none", "interrupt", "stop"}
Results == {"accepted", "unconfirmed", "rejected", "not_found", "stopped"}

\* The pending settlement of a message; "retry" is its continuation.
Writes == [status : Intents, parked : BOOLEAN, retry : BOOLEAN]
NoWrite == [status |-> "none", parked |-> FALSE, retry |-> FALSE]

\* "begin" awaits the previous observer, "prepare" the context, "confirm" the
\* processing writes, "context" the admitted context, "running" the handler,
\* "resolve" the cleanup after the intent is chosen, "settle" the terminal
\* writes; "absent" and "gone" are the probes after a 404 on either write.
Steps == {"idle", "begin", "prepare", "confirm", "absent", "context",
          "running", "resolve", "settle", "gone"}

Turns == [pc : Steps,
          members : SUBSET Msgs,      \* claimed for this attempt
          control : BOOLEAN,          \* offered to the host's control handler
          stale : BOOLEAN,            \* control_revision moved since dispatch
          originals : SUBSET Msgs,    \* TurnScope.originals
          charged : SUBSET Msgs,
          phase : {"none", "preparing", "admitted", "settled"},
          intent : Intents,
          kind : Kinds,
          terminating : BOOLEAN,
          timedOut : BOOLEAN,
          observed : BOOLEAN,         \* TurnScope.stop_observed
          consumed : BOOLEAN,
          handler : {"none", "running", "ok", "error", "refused", "stopped",
                     "cancelled"},
          todo : SUBSET Msgs,         \* writes the current loop has left
          cur : SUBSET Msgs]          \* the message being probed

NoTurn == [pc |-> "idle", members |-> {}, control |-> FALSE, stale |-> FALSE,
           originals |-> {}, charged |-> {}, phase |-> "none",
           intent |-> "none", kind |-> "none", terminating |-> FALSE,
           timedOut |-> FALSE, observed |-> FALSE, consumed |-> TRUE,
           handler |-> "none", todo |-> {}, cur |-> {}]

TypeOK ==
    /\ status \in [Msgs -> Statuses]
    /\ pending \in [Msgs -> Writes]
    /\ inflight \subseteq Msgs
    /\ completed \subseteq Msgs
    /\ attempts \in [Msgs -> Nat]
    /\ exhausted \subseteq Msgs
    /\ retained \subseteq Msgs
    /\ alive \in BOOLEAN /\ closing \in BOOLEAN /\ stopped \in BOOLEAN
    /\ backoff \subseteq Msgs
    /\ observer \in BOOLEAN
    /\ turn \in Turns
    /\ faults \in 0..MaxFaults
    /\ controls \in 0..MaxControls
    /\ rejoins \in 0..MaxRejoins
    /\ done \subseteq Msgs
    /\ failures \in [Msgs -> Nat]
    /\ signal \in Kinds
    /\ misread \subseteq Msgs

Init ==
    /\ status = [m \in Msgs |-> "delivered"]
    /\ pending = [m \in Msgs |-> NoWrite]
    /\ inflight = {} /\ completed = {}
    /\ attempts = [m \in Msgs |-> 0]
    /\ exhausted = {}
    /\ retained \in SUBSET Msgs
    /\ alive = TRUE /\ closing = FALSE /\ stopped = FALSE
    /\ backoff = {}
    /\ observer = FALSE
    /\ turn = NoTurn
    /\ faults = 0 /\ controls = 0 /\ rejoins = 0
    /\ done = {} /\ misread = {}
    /\ failures = [m \in Msgs |-> 0]
    /\ signal = "none"

-----------------------------------------------------------------------------
(* The claim registry and the retry tracker of band_sdk_core *)

Replays == ~Batching

\* Neither completed nor failed for good, by what the registry and the tracker
\* remember and by the durable status the candidate or the context shows.
Unsettled(m) ==
    /\ m \notin completed \cup exhausted
    /\ status[m] # "processed"
    /\ status[m] = "failed" => Replays

\* Mutant of Runnable: a message that owes a terminal write is offered again.
RunnableIgnoresPending(m) == m \notin inflight /\ Unsettled(m)

\* delivery_eligibility's "runnable": not "pending", "inflight", "completed" or
\* "failed".  The status read here is the platform's; _facts reads the candidate's own,
\* which may be older.  Only this agent settles its messages, and what it settled since
\* the candidate was read the registry remembers.
Runnable(m) == pending[m] = NoWrite /\ m \notin inflight /\ Unsettled(m)

\* A terminal write the platform has neither accepted nor refused.
OwesWrite(pend, m) == pend[m] # NoWrite /\ ~pend[m].parked

\* Attempts after one more is charged to each message of ms.
Charged(ms) == [m \in Msgs |-> IF m \in ms THEN attempts[m] + 1 ELSE attempts[m]]

Exceeded(ms) == {m \in ms : attempts[m] + 1 > MaxRetries}

Discarded(base, ms) == [m \in Msgs |-> IF m \in ms THEN base[m] - 1 ELSE base[m]]

\* Record a terminal intent for every original; a failure keeps its attempt
\* open when the budget, count included, still allows another.
Recorded(ms, intent, count) ==
    [m \in Msgs |->
        IF m \in ms /\ intent # "none"
        THEN [status |-> intent, parked |-> FALSE,
              retry |-> intent = "failed" /\ Replays /\ count[m] < MaxRetries]
        ELSE pending[m]]

-----------------------------------------------------------------------------
(* The platform's answer to a status write *)

\* Whether the platform applies a write: a message that exists opens an
\* attempt, and a terminal status needs the open attempt.
Lands(m, write) ==
    IF write = "processing"
    THEN status[m] \notin {"gone", "processed"}
    ELSE status[m] = "processing"

\* The link reports result and the message is left with status left.  What
\* counts as a fault: a response lost before or after the write committed, a
\* stopped room's 204, and the 404 of a room that lost access.
Answer(m, write, result, left) ==
    \/ /\ faults' = faults
       /\ \/ result = "accepted" /\ Lands(m, write) /\ left = write
          \/ result = "not_found" /\ status[m] = "gone" /\ left = "gone"
          \/ /\ result = "rejected" /\ write # "processing"
             /\ ~Lands(m, write) /\ status[m] # "gone" /\ left = status[m]
    \/ /\ faults < MaxFaults /\ faults' = faults + 1
       /\ \/ result = "unconfirmed" /\ Lands(m, write) /\ left = write
          \/ result \in {"unconfirmed", "stopped", "not_found"} /\ left = status[m]

\* is_gone: the room's next message is read; an unreadable room keeps the 404
\* ambiguous.
Probe(readable) ==
    \/ readable /\ faults' = faults
    \/ ~readable /\ faults < MaxFaults /\ faults' = faults + 1

-----------------------------------------------------------------------------
(* One attempt *)

\* owns_delivery: the attempt may still cross the admission gate.
Owns == ~closing /\ ~turn.stale /\ ~turn.terminating

Unadmitted == IF stopped THEN "paused" ELSE "retry_later"

SettledOutcome(pend) ==
    CASE turn.intent = "none" -> IF turn.observed THEN "retry_later" ELSE "paused"
      [] turn.intent # "none" /\ (\E m \in turn.originals : OwesWrite(pend, m)) ->
            "retry_later"
      [] OTHER -> "advanced"

\* Mutant of End: an attempt without an intent stays charged.
EndKeepsCharges(outcome, base, charged) ==
    /\ attempts' = base
    /\ inflight' = inflight \ turn.members
    /\ retained' = IF outcome \in {"advanced", "absent"}
                   THEN retained \ {m \in turn.members : ~pending'[m].retry}
                   ELSE retained
    /\ turn' = NoTurn

\* Mutant of End: an attempt to be retried later keeps its claims.
EndLeaksClaims(outcome, base, charged) ==
    /\ attempts' = IF turn.intent = "none" \/ turn.kind = "interrupt"
                   THEN Discarded(base, charged) ELSE base
    /\ inflight' = IF outcome = "retry_later" THEN inflight
                   ELSE inflight \ turn.members
    /\ retained' = IF outcome \in {"advanced", "absent"}
                   THEN retained \ {m \in turn.members : ~pending'[m].retry}
                   ELSE retained
    /\ turn' = NoTurn

\* The finally blocks of _run_claimed and claim, then the scheduler's release
\* of the originals no turn will run again.  base is the attempt count before
\* the charges of an undecided or interrupted attempt are discarded.
End(outcome, base, charged) ==
    /\ attempts' = IF turn.intent = "none" \/ turn.kind = "interrupt"
                   THEN Discarded(base, charged) ELSE base
    /\ inflight' = inflight \ turn.members
    /\ retained' = IF outcome \in {"advanced", "absent"}
                   THEN retained \ {m \in turn.members : ~pending'[m].retry}
                   ELSE retained
    /\ turn' = NoTurn

Finish(outcome) == End(outcome, attempts, turn.charged)

\* The scheduler offers runnable originals and every one of them is claimed.
Dispatch(ms, control) ==
    /\ alive /\ ~stopped
    /\ turn.pc = "idle"
    /\ ms # {}
    /\ Cardinality(ms) > 1 => Batching /\ ~control
    /\ \A m \in ms : /\ Runnable(m)
                     /\ m \in retained \/ status[m] # "gone"
    /\ IF control THEN controls < MaxControls /\ controls' = controls + 1
                  ELSE controls' = controls
    /\ inflight' = inflight \cup ms
    /\ turn' = [NoTurn EXCEPT !.pc = "begin", !.members = ms, !.control = control]
    /\ UNCHANGED <<status, pending, completed, tracker, retained, room, backoff,
                   faults, rejoins, history>>

\* begin_delivery, once the previous platform-stop observer is done, and the
\* revision check that opens _prepare.
BeginDelivery ==
    /\ turn.pc = "begin" /\ ~observer
    /\ UNCHANGED <<status, pending, completed, exhausted, room, backoff, faults,
                   controls, rejoins, history>>
    /\ IF turn.stale
       THEN Finish(Unadmitted)
       ELSE /\ turn' = [turn EXCEPT !.pc = "prepare", !.phase = "preparing",
                                    !.originals = turn.members]
            /\ UNCHANGED <<inflight, attempts, retained>>

\* The observer outlived its grace: no scope is begun.
BeginDeferred ==
    /\ turn.pc = "begin" /\ observer
    /\ UNCHANGED <<status, pending, completed, exhausted, room, backoff, faults,
                   controls, rejoins, history>>
    /\ Finish(Unadmitted)

\* _prepare after the context is hydrated: drop what turned out to be settled,
\* charge the rest, and reach confirm_processing's first ownership check.
\* The claim is this attempt's own, so only the other dispositions drop it.
Prepare ==
    LET owed == {m \in turn.originals : Unsettled(m)}
        over == IF turn.control THEN {} ELSE Exceeded(owed)
        base == IF turn.control THEN attempts ELSE Charged(owed)
        kept == owed \ over
        charges == IF turn.control THEN {} ELSE kept
    IN
    /\ turn.pc = "prepare"
    /\ exhausted' = exhausted \cup over
    /\ UNCHANGED <<status, pending, completed, room, backoff, faults, controls,
                   rejoins, history>>
    /\ IF kept = {} \/ ~Owns
       THEN End(IF kept = {} THEN "advanced" ELSE Unadmitted, base, charges)
       ELSE /\ attempts' = base
            /\ turn' = [turn EXCEPT !.pc = "confirm", !.originals = kept,
                                    !.charged = charges, !.todo = kept]
            /\ UNCHANGED <<inflight, retained>>

\* The end of confirm_processing: originals and todo are what is left of it.
\* A control the host no longer recognizes is declined; otherwise the scope is
\* admitted and its context prepared.
ConfirmNext(originals, todo) ==
    \/ /\ todo # {}
       /\ turn' = [turn EXCEPT !.pc = "confirm", !.originals = originals,
                               !.todo = todo, !.cur = {}]
       /\ UNCHANGED <<inflight, attempts, retained, signal>>
    \/ /\ todo = {} /\ originals = {}
       /\ Finish("absent")
       /\ UNCHANGED signal
    \/ /\ todo = {} /\ originals # {} /\ turn.control
       /\ Finish("declined")
       /\ UNCHANGED signal
    \/ /\ todo = {} /\ originals # {}
       /\ turn' = [turn EXCEPT !.pc = "context", !.originals = originals,
                               !.todo = {}, !.cur = {}, !.phase = "admitted"]
       /\ signal' = "none"
       /\ UNCHANGED <<inflight, attempts, retained>>

ConfirmProcessing(m) ==
    /\ turn.pc = "confirm" /\ m \in turn.todo
    /\ UNCHANGED <<pending, completed, exhausted, room, backoff, controls,
                   rejoins, done, failures, misread>>
    /\ \E result \in Results, left \in Statuses :
        /\ Answer(m, "processing", result, left)
        /\ status' = [status EXCEPT ![m] = left]
        /\ CASE result = "not_found" /\ ~Batching ->
                  /\ turn' = [turn EXCEPT !.pc = "absent", !.cur = {m}]
                  /\ UNCHANGED <<inflight, attempts, retained, signal>>
             [] result = "accepted" /\ Owns ->
                  ConfirmNext(turn.originals, turn.todo \ {m})
             [] OTHER -> Finish(Unadmitted) /\ UNCHANGED signal

\* The probe after a 404: a message inferred gone leaves the scope.
ConfirmProbe ==
    /\ turn.pc = "absent"
    /\ UNCHANGED <<status, pending, completed, exhausted, room, backoff, controls,
                   rejoins, done, failures, misread>>
    /\ \E readable \in BOOLEAN :
        /\ Probe(readable)
        /\ IF readable
           THEN ConfirmNext(turn.originals \ turn.cur, turn.todo \ turn.cur)
           ELSE Finish(Unadmitted) /\ UNCHANGED signal

-----------------------------------------------------------------------------
(* The admitted turn *)

\* Precedence: STOP, then INTERRUPT, timeout, and last the handler's result.
\* (Shutdown is always delivered as a cancellation: see Cancelled.)
TerminalIntent(t) ==
    CASE t.kind = "stop" -> "none"
      [] t.kind = "interrupt" -> "processed"
      [] t.kind = "none" /\ t.timedOut -> "failed"
      [] t.kind = "none" /\ ~t.timedOut /\ t.handler = "error" -> "failed"
      [] t.kind = "none" /\ ~t.timedOut /\ t.handler = "ok" /\ t.consumed -> "processed"
      [] OTHER -> "none"

\* select_intent and store_intent: freeze the disposition, charge a failed
\* control, and store one pending settlement per original.
StoreIntent(pc) ==
    LET intent == TerminalIntent(turn)
        charges == turn.control /\ intent = "failed"
        count == IF charges THEN Charged(turn.originals) ELSE attempts
    IN
    /\ turn' = [turn EXCEPT !.pc = pc, !.intent = intent, !.phase = "settled",
                            !.todo = IF intent = "none" THEN {} ELSE turn.originals]
    /\ attempts' = count
    /\ exhausted' = IF charges THEN exhausted \cup Exceeded(turn.originals)
                               ELSE exhausted
    /\ pending' = Recorded(turn.originals, intent, count)
    /\ done' = IF intent = "processed" THEN done \cup turn.originals ELSE done
    /\ failures' = [m \in Msgs |-> IF m \in turn.originals /\ intent = "failed"
                                   THEN failures[m] + 1 ELSE failures[m]]
    /\ UNCHANGED <<inflight, retained>>

\* The context is ready.  A revision that moved without reaching the scope (a
\* play) ends the attempt, a control that reached it aborts the turn before
\* its handler, and otherwise the handler task starts.
ExecuteDelivery ==
    /\ turn.pc = "context"
    /\ UNCHANGED <<status, completed, room, backoff, faults, controls, rejoins,
                   signal, misread>>
    /\ \/ /\ turn.kind # "none"
          /\ StoreIntent("resolve")
       \/ /\ turn.kind = "none" /\ turn.stale
          /\ UNCHANGED <<pending, exhausted, done, failures>>
          /\ Finish(Unadmitted)
       \/ /\ turn.kind = "none" /\ ~turn.stale
          /\ turn' = [turn EXCEPT !.pc = "running", !.handler = "running"]
          /\ UNCHANGED <<pending, inflight, attempts, exhausted, retained, done,
                         failures>>

\* The handler task ends on its own, refuses its input, or yields to a
\* cancellation; a control handler says whether it consumed the message.
HandlerEnds(result) ==
    /\ turn.pc = "running" /\ turn.handler = "running"
    /\ result = "cancelled" => turn.terminating
    /\ IF result \in {"refused", "stopped"}
       THEN faults < MaxFaults /\ faults' = faults + 1
       ELSE faults' = faults
    /\ \E consumed \in BOOLEAN :
        /\ ~consumed => turn.control /\ result = "ok"
        /\ turn' = [turn EXCEPT !.handler = result, !.consumed = consumed]
    /\ UNCHANGED <<status, registry, tracker, retained, room, backoff, controls,
                   rejoins, history>>

\* max_cycle_seconds expires while the handler runs.
CycleTimeout ==
    /\ turn.pc = "running" /\ turn.handler = "running" /\ ~turn.terminating
    /\ turn' = [turn EXCEPT !.timedOut = TRUE, !.terminating = TRUE]
    /\ UNCHANGED <<status, registry, tracker, retained, room, backoff, faults,
                   controls, rejoins, history>>

\* The supervisor wakes: the handler finished, or it was terminated and either
\* drained within its grace or was retained beyond it.
SelectIntent ==
    /\ turn.pc = "running"
    /\ turn.handler # "running" \/ turn.terminating
    /\ StoreIntent("resolve")
    /\ UNCHANGED <<status, completed, room, backoff, faults, controls, rejoins,
                   signal, misread>>

\* execute_delivery returns or raises after its cleanup awaits.  A refusal, a
\* stopped room and a declined control end the attempt; everything else goes
\* to its terminal writes.
Resolve ==
    LET raised == turn.kind = "none" /\ ~turn.timedOut
        writes == {m \in turn.todo : pending[m] # NoWrite}
    IN
    /\ turn.pc = "resolve"
    /\ UNCHANGED <<status, pending, completed, exhausted, room, backoff, faults,
                   controls, rejoins, history>>
    /\ CASE raised /\ turn.handler = "refused" -> Finish("not_accepted")
         [] raised /\ turn.handler = "stopped" -> Finish("retry_later")
         [] raised /\ turn.handler = "ok" /\ ~turn.consumed -> Finish("declined")
         [] OTHER ->
              IF writes = {}
              THEN Finish(SettledOutcome(pending))
              ELSE /\ turn' = [turn EXCEPT !.pc = "settle", !.todo = writes]
                   /\ UNCHANGED <<inflight, attempts, retained>>

-----------------------------------------------------------------------------
(* Terminal writes *)

\* retry_settlement, from the scheduler's pass over the owed writes.
RetrySettlement(m) ==
    /\ alive /\ ~stopped
    /\ turn.pc = "idle"
    /\ OwesWrite(pending, m) /\ m \notin backoff
    /\ turn' = [NoTurn EXCEPT !.pc = "settle", !.originals = {m}, !.todo = {m}]
    /\ UNCHANGED <<status, registry, tracker, retained, room, backoff, faults,
                   controls, rejoins, history>>

\* The registry after the platform accepted m's write: a failure with a retry
\* left becomes runnable, any other message is finished with.
Confirmed(m) ==
    /\ pending' = [pending EXCEPT ![m] = NoWrite]
    /\ completed' = IF pending[m].status = "processed" THEN completed \cup {m}
                    ELSE completed
    /\ exhausted' = IF pending[m].status = "failed" /\ ~pending[m].retry
                    THEN exhausted \cup {m} ELSE exhausted
    /\ backoff' = backoff \ {m}

\* Mutant of Parked: a refused write is dropped instead of kept.
ParkedDropped(m) ==
    /\ pending' = [pending EXCEPT ![m] = NoWrite]
    /\ UNCHANGED <<completed, exhausted, backoff>>

Parked(m) ==
    /\ pending' = [pending EXCEPT ![m].parked = TRUE]
    /\ UNCHANGED <<completed, exhausted, backoff>>

\* settle's loop goes on with todo; an empty todo ends the attempt.
SettleNext(todo) ==
    IF todo = {}
    THEN Finish(SettledOutcome(pending'))
    ELSE /\ turn' = [turn EXCEPT !.pc = "settle", !.todo = todo, !.cur = {}]
         /\ UNCHANGED <<inflight, attempts, retained>>

WriteSettlement(m) ==
    /\ turn.pc = "settle" /\ m \in turn.todo
    /\ UNCHANGED <<room, controls, rejoins, history>>
    /\ \E result \in Results, left \in Statuses :
        /\ Answer(m, pending[m].status, result, left)
        /\ status' = [status EXCEPT ![m] = left]
        /\ CASE result = "accepted" -> Confirmed(m) /\ SettleNext(turn.todo \ {m})
             [] result = "rejected" -> Parked(m) /\ SettleNext(turn.todo \ {m})
             [] result = "unconfirmed" ->
                  /\ backoff' = backoff \cup {m}
                  /\ UNCHANGED <<pending, completed, exhausted>>
                  /\ SettleNext(turn.todo \ {m})
             [] result = "stopped" ->
                  /\ UNCHANGED <<pending, completed, exhausted, backoff>>
                  /\ SettleNext({})
             [] result = "not_found" ->
                  /\ turn' = [turn EXCEPT !.pc = "gone", !.cur = {m}]
                  /\ UNCHANGED <<pending, inflight, completed, tracker, retained,
                                 backoff>>

\* The probe after a terminal write's 404: retire_gone, or park the write.
SettleProbe(m) ==
    /\ turn.pc = "gone" /\ m \in turn.cur
    /\ UNCHANGED <<status, room, controls, rejoins, done, failures, signal>>
    /\ \E readable \in BOOLEAN :
        /\ Probe(readable)
        /\ IF readable
           THEN /\ pending' = [pending EXCEPT ![m] = NoWrite]
                /\ completed' = completed \cup {m}
                /\ backoff' = backoff \ {m}
                /\ misread' = IF status[m] = "gone" THEN misread
                              ELSE misread \cup {m}
                /\ UNCHANGED exhausted
           ELSE Parked(m) /\ UNCHANGED misread
        /\ SettleNext(turn.todo \ {m})

-----------------------------------------------------------------------------
(* What happens around an attempt *)

\* Mutant of Signalled: the first kind wins.
SignalledFirstWins(kind) ==
    LET running == turn.phase = "admitted" IN
    /\ controls < MaxControls /\ controls' = controls + 1
    /\ turn' = IF turn.pc = "idle" THEN turn
               ELSE [turn EXCEPT !.stale = TRUE,
                                 !.kind = IF running /\ @ = "none" THEN kind ELSE @,
                                 !.terminating = running \/ @]
    /\ signal' = IF running THEN kind ELSE signal

\* A control moves the revision; it terminates the scope between admission
\* and settlement, where the latest kind wins.
Signalled(kind) ==
    LET running == turn.phase = "admitted" IN
    /\ controls < MaxControls /\ controls' = controls + 1
    /\ turn' = IF turn.pc = "idle" THEN turn
               ELSE [turn EXCEPT !.stale = TRUE,
                                 !.kind = IF running THEN kind ELSE @,
                                 !.terminating = running \/ @]
    /\ signal' = IF running THEN kind ELSE signal

Interrupt ==
    /\ alive
    /\ Signalled("interrupt")
    /\ UNCHANGED <<status, registry, tracker, retained, room, backoff, faults,
                   rejoins, done, failures, misread>>

StopRoom ==
    /\ alive
    /\ Signalled("stop")
    /\ stopped' = TRUE
    /\ UNCHANGED <<status, registry, tracker, retained, alive, closing, observer,
                   backoff, faults, rejoins, done, failures, misread>>

\* Play: the revision moves, the pause is lifted and the requested resync
\* lifts the write backoff.
ResumeRoom ==
    /\ alive
    /\ controls < MaxControls /\ controls' = controls + 1
    /\ stopped' = FALSE
    /\ backoff' = {}
    /\ turn' = IF turn.pc = "idle" THEN turn ELSE [turn EXCEPT !.stale = TRUE]
    /\ UNCHANGED <<status, registry, tracker, retained, alive, closing, observer,
                   faults, rejoins, history>>

\* The running turn meets the platform's stop (an activity report or a post
\* answered 204): an earlier control keeps its kind.
ObservePlatformStop ==
    /\ alive
    /\ turn.pc = "running" /\ turn.handler = "running"
    /\ faults < MaxFaults /\ faults' = faults + 1
    /\ turn' = [turn EXCEPT !.kind = IF @ = "none" THEN "stop" ELSE @,
                            !.terminating = TRUE, !.observed = TRUE]
    /\ signal' = IF turn.kind = "none" THEN "stop" ELSE signal
    /\ observer' = (observer \/ (~turn.stale /\ ~closing))
    /\ UNCHANGED <<status, registry, tracker, retained, alive, closing, stopped,
                   backoff, controls, rejoins, done, failures, misread>>

\* The observer's drain of the scope's workers is bounded by their grace.
ObserverEnds ==
    /\ observer
    /\ observer' = FALSE
    /\ UNCHANGED <<status, registry, tracker, retained, alive, closing, stopped,
                   backoff, turn, faults, controls, rejoins, history>>

\* An idle resync is due: unconfirmed writes may be retried.
LiftWriteBackoff ==
    /\ alive /\ backoff # {}
    /\ backoff' = {}
    /\ UNCHANGED <<status, registry, tracker, retained, room, turn, faults,
                   controls, rejoins, history>>

Unparked == [m \in Msgs |-> [pending[m] EXCEPT !.parked = FALSE]]

\* The socket reconnects: parked writes may be retried, and a resync is
\* requested.
Reconnected ==
    /\ alive
    /\ controls < MaxControls /\ controls' = controls + 1
    /\ pending' = Unparked
    /\ backoff' = {}
    /\ UNCHANGED <<status, inflight, completed, tracker, retained, room, turn,
                   faults, rejoins, history>>

\* The message is deleted on the platform.
Delete(m) ==
    /\ faults < MaxFaults /\ faults' = faults + 1
    /\ status[m] # "gone"
    /\ status' = [status EXCEPT ![m] = "gone"]
    /\ UNCHANGED <<registry, tracker, retained, room, backoff, turn, controls,
                   rejoins, history>>

\* stop(): input is refused from here on, and work may finish in its grace.
Close ==
    /\ alive /\ ~closing
    /\ closing' = TRUE
    /\ UNCHANGED <<status, registry, tracker, retained, alive, stopped, backoff,
                   observer, turn, faults, controls, rejoins, history>>

\* _stop(): the loop task is cancelled.  The cancellation is raised at the
\* await the coroutine is in and unwinds every finally; a turn not settled yet
\* settles without an intent, and a write in flight may or may not have landed.
Cancelled ==
    /\ alive /\ closing
    /\ alive' = FALSE
    /\ \/ UNCHANGED status
       \/ \E m \in turn.todo :
            LET write == IF turn.pc = "confirm" THEN "processing"
                         ELSE pending[m].status
            IN /\ turn.pc \in {"confirm", "settle"}
               /\ Lands(m, write)
               /\ status' = [status EXCEPT ![m] = write]
    /\ UNCHANGED <<pending, completed, exhausted, closing, stopped, observer,
                   backoff, faults, controls, rejoins, history>>
    /\ IF turn.pc = "idle"
       THEN UNCHANGED <<inflight, attempts, retained, turn>>
       ELSE Finish("cancelled")

\* Mutant of Rejoin: leaving the room releases the pending settlements too.
RejoinForgetsPending ==
    /\ ~alive /\ rejoins < MaxRejoins
    /\ rejoins' = rejoins + 1
    /\ alive' = TRUE /\ closing' = FALSE /\ stopped' = FALSE /\ observer' = FALSE
    /\ completed' = {}
    /\ pending' = [m \in Msgs |-> NoWrite]
    /\ attempts' = [m \in Msgs |-> 0]
    /\ failures' = [m \in Msgs |-> 0]
    /\ exhausted' = {} /\ retained' = {} /\ backoff' = {}
    /\ UNCHANGED <<status, inflight, turn, faults, controls, done, signal, misread>>

\* The room is joined again: a new execution and tracker over the same claim
\* registry, whose completions were released with the old execution and whose
\* parked writes may be retried.
Rejoin ==
    /\ ~alive /\ rejoins < MaxRejoins
    /\ rejoins' = rejoins + 1
    /\ alive' = TRUE /\ closing' = FALSE /\ stopped' = FALSE /\ observer' = FALSE
    /\ completed' = {}
    /\ pending' = Unparked
    /\ attempts' = [m \in Msgs |-> 0]
    /\ failures' = [m \in Msgs |-> 0]
    /\ exhausted' = {} /\ retained' = {} /\ backoff' = {}
    /\ UNCHANGED <<status, inflight, turn, faults, controls, done, signal, misread>>

-----------------------------------------------------------------------------
(* The specification *)

Attempt ==
    \/ BeginDelivery \/ BeginDeferred \/ Prepare \/ ConfirmProbe
    \/ ExecuteDelivery \/ SelectIntent \/ Resolve
    \/ \E m \in Msgs : ConfirmProcessing(m) \/ WriteSettlement(m) \/ SettleProbe(m)

Handler ==
    \E result \in {"ok", "error", "refused", "stopped", "cancelled"} :
        HandlerEnds(result)

Scheduler ==
    \/ \E ms \in SUBSET Msgs, control \in BOOLEAN : Dispatch(ms, control)
    \/ \E m \in Msgs : RetrySettlement(m)

Environment ==
    \/ Interrupt \/ StopRoom \/ ResumeRoom \/ ObservePlatformStop \/ ObserverEnds
    \/ CycleTimeout \/ LiftWriteBackoff \/ Reconnected \/ Close \/ Cancelled \/ Rejoin
    \/ \E m \in Msgs : Delete(m)

Next == Attempt \/ Handler \/ Scheduler \/ Environment

Spec == Init /\ [][Next]_vars

\* The coroutine runs whenever it can; requests are answered or time out; a
\* handler ends by itself or at max_cycle_seconds; the scheduler's periodic
\* resync offers what is runnable and retries what is owed.
Fairness ==
    /\ WF_vars(Attempt) /\ WF_vars(Handler)
    /\ WF_vars(ObserverEnds) /\ WF_vars(LiftWriteBackoff)
    /\ \A m \in Msgs : WF_vars(Dispatch({m}, FALSE)) /\ WF_vars(RetrySettlement(m))

FairSpec == Spec /\ Fairness

-----------------------------------------------------------------------------
(* Properties *)

\* A handler never runs for a message whose PROCESSED intent was stored: not
\* after a lost acknowledgement, a cancellation inside the acknowledgement, a
\* parked write or a rejoin.  The one exception is the documented race of
\* is_gone, which retires a write whose message still exists.
NoReplayAfterSuccess ==
    [][turn.handler = "none" /\ turn'.handler = "running"
        => turn.originals \cap done \subseteq misread]_vars

\* The platform never shows a disposition the turn did not decide: PROCESSED
\* only after a PROCESSED intent, FAILED never after one.
HonestStatus ==
    \A m \in Msgs :
        /\ status[m] = "processed" => m \in done
        /\ status[m] = "failed" => m \notin done \/ m \in misread

\* Between attempts the retry budget has been charged with exactly the stored
\* failures: a refused, declined, stopped, interrupted or cancelled attempt, a
\* lost claim and a batch that was never admitted cost nothing.
BudgetExact ==
    /\ \A m \in Msgs \ done : turn.pc = "idle" => attempts[m] = failures[m]
    /\ \A m \in Msgs : attempts[m] <= MaxRetries

\* A decision is never lost: a message with a PROCESSED intent owes that very
\* write or shows it on the platform (or was deleted), and a claim never outlives
\* its attempt in the shared registry, whatever await the room was cancelled in.
DecisionKept ==
    /\ \A m \in done \ misread : \/ pending[m].status = "processed"
                                 \/ status[m] \in {"processed", "gone"}
    /\ inflight \subseteq turn.members

\* What a stored terminal intent says never changes until the write leaves the
\* ledger: no later turn, signal or retry rewrites it.
IntentFrozen ==
    [][\A m \in Msgs : pending[m] # NoWrite /\ pending'[m] # NoWrite
        => /\ pending'[m].status = pending[m].status
           /\ pending'[m].retry = pending[m].retry]_vars

TurnEnds == turn.members # {} /\ turn'.pc = "idle"

\* The latest STOP or INTERRUPT to reach an admitted turn decides it when the
\* turn ends in a live room: an interrupted message is consumed, a stopped one
\* has no terminal write and stays actionable on the platform.
LatestControlDecides ==
    [][TurnEnds /\ alive' /\ turn.phase \in {"admitted", "settled"} =>
        /\ signal = "interrupt" => turn.originals \subseteq done
        /\ signal = "stop" =>
            \A m \in turn.originals : /\ pending'[m] = NoWrite
                                      /\ status'[m] \in {"processing", "gone"}]_vars

\* Nothing is left to do for m: settled on the platform, inferred gone, or its
\* write refused and parked.
Disposed(m) ==
    \/ status[m] \in {"processed", "gone"}
    \/ m \in completed \cup exhausted
    \/ status[m] = "failed" /\ ~Replays
    \/ pending[m].parked

\* In a room that stays joined and is not paused, every message is disposed of
\* however answers are lost, controls land and attempts are refused.
EveryMessageDisposed ==
    <>[](alive /\ ~closing /\ ~stopped) => \A m \in Msgs : <>Disposed(m)

-----------------------------------------------------------------------------
(* What a delivery promises *)

\* A message without a terminal status is open.
Shown(s) == IF s \in {"delivered", "processing"} THEN "open" ELSE s

PlatformMap == [m \in Msgs |-> Shown(status[m])]
OwedMap == [m \in Msgs |-> pending[m].status]
AdmittedMap == IF turn.phase = "admitted" THEN turn.originals ELSE {}

Settled == INSTANCE Settlement WITH
    platform <- PlatformMap, owed <- OwedMap, admitted <- AdmittedMap,
    succeeded <- done, lost <- misread

\* The lifecycle implements Settlement: whatever awaits, answers, controls, reconnects,
\* cancellations and rejoins do, each step opens, admits, decides, lands or retires a
\* message as the abstract ledger allows, or changes nothing a user of it can see.
ImplementsSettlement == Settled!Spec

-----------------------------------------------------------------------------
(* The inductive invariant behind NoReplayAfterSuccess, DecisionKept,       *)
(* HonestStatus and IntentFrozen                                            *)

\* The awaits before the intent of a turn is chosen.
Undecided == {"begin", "prepare", "confirm", "absent", "context", "running"}

\* What the ledger and the platform say of one message, between them.
Ledger(m) ==
    /\ pending[m].status = "none" => pending[m] = NoWrite
    /\ pending[m].status = "processed" => m \in done
    /\ pending[m].status = "failed" => m \notin done \ misread
    /\ status[m] = "processed" => m \in done
    /\ status[m] = "failed" => m \notin done \ misread
    /\ m \in done \ misread =>
        /\ pending[m].status = "processed" \/ status[m] \in {"processed", "gone"}
        /\ pending[m] = NoWrite => m \in completed \/ m \notin retained

\* What the suspended coroutine may rely on when it resumes: its members owe
\* nothing and are undecided until it decides, its confirmed originals are
\* processing, and each write it has left is still owed.
TurnFits ==
    /\ inflight = turn.members
    /\ turn.pc = "idle" => turn = NoTurn
    /\ ~alive => turn.pc = "idle"
    /\ turn.phase = "admitted" <=> turn.pc \in {"context", "running"}
    /\ \A m \in turn.charged : attempts[m] > 0
    /\ turn.pc \in Undecided =>
        /\ turn.originals \subseteq turn.members
        /\ \A m \in turn.members : pending[m] = NoWrite /\ m \notin done \ misread
    /\ turn.pc \in {"confirm", "absent", "context", "running"} =>
        \A m \in turn.originals \ turn.todo : status[m] \in {"processing", "gone"}
    /\ turn.pc \in {"confirm", "absent"} => turn.todo \subseteq turn.originals
    /\ turn.pc \in {"context", "running"} => turn.todo = {}
    /\ turn.pc \in {"settle", "gone"} => \A m \in turn.todo : pending[m] # NoWrite
    /\ turn.pc \in {"absent", "gone"} => turn.cur \subseteq turn.todo

IInv ==
    /\ TypeOK
    /\ \A m \in Msgs : Ledger(m)
    /\ TurnFits

-----------------------------------------------------------------------------
(* The inductive invariant behind BudgetExact and LatestControlDecides: it   *)
(* holds beside IInv                                                        *)

\* A charge the attempt will discard unless it decides.
OpenCharge(m) == m \in turn.charged /\ turn.intent = "none"

\* A message without budget is no longer offered: it is settled, its last write
\* has no continuation, or its attempt is still running.
Spent(m) ==
    \/ m \in completed \cup exhausted
    \/ pending[m] # NoWrite /\ ~pending[m].retry
    \/ OpenCharge(m)

Budget(m) ==
    /\ attempts[m] <= MaxRetries
    /\ attempts[m] = MaxRetries => Spent(m)
    /\ m \notin done => attempts[m] = failures[m] + (IF OpenCharge(m) THEN 1 ELSE 0)

\* Which messages an attempt has charged; a control is charged only when it fails.
ChargesFit ==
    /\ turn.pc \in Undecided =>
        turn.intent = "none" /\ turn.members \cap (completed \cup exhausted) = {}
    /\ turn.pc \in {"begin", "prepare"} => turn.charged = {}
    /\ turn.control => turn.charged = {}
    /\ turn.pc \in {"confirm", "absent", "context", "running"} /\ ~turn.control =>
        turn.charged = turn.originals
    /\ turn.intent = "processed" => turn.charged \subseteq done
    /\ turn.intent = "failed" => turn.kind # "interrupt"
    /\ turn.pc = "absent" => ~Batching
    /\ ~Batching => \A a, b \in turn.members : a = b

\* The scope holds the latest control to reach it, and a decided scope obeyed it.
SignalFits ==
    /\ turn.phase \in {"admitted", "settled"} => signal = turn.kind
    /\ turn.pc \in {"begin", "prepare", "confirm", "absent"} =>
        turn.kind = "none" /\ turn.phase # "settled"
    /\ turn.phase = "settled" => turn.pc \in {"resolve", "settle", "gone"}
    /\ turn.phase = "settled" /\ turn.kind = "interrupt" => turn.originals \subseteq done
    /\ turn.phase = "settled" /\ turn.kind = "stop" =>
        /\ turn.pc = "resolve" /\ turn.todo = {} /\ turn.originals \subseteq turn.members
        /\ \A m \in turn.originals : /\ pending[m] = NoWrite
                                      /\ status[m] \in {"processing", "gone"}

AttemptInv == (\A m \in Msgs : Budget(m)) /\ ChargesFit /\ SignalFits

=============================================================================
