------------------------------ MODULE Scheduler ------------------------------
(***************************************************************************)
(* Serialized discovery, selection and dispatch for one room: Scheduler     *)
(* (runtime/scheduler.py) with the originals it retains                    *)
(* (runtime/retained.py) and the selection of Selection.tla.               *)
(*                                                                         *)
(* The scheduler is one coroutine.  Everything between two of its awaits is *)
(* one action, written as a function from the scheduler's record s to its   *)
(* next value, so that control signals, arriving events, the platform and   *)
(* the previous execution of the room interleave exactly at the awaits.     *)
(* A REST read is a request, the moment the platform answers it, and the    *)
(* return of the answer.                                                   *)
(*                                                                         *)
(* The delivery lifecycle is the environment: a run ends with any outcome   *)
(* DeliveryLifecycle.run can return and leaves its members with a matching  *)
(* claim (Delivery.tla models how).  No message is deleted, so that a run   *)
(* that finds its message absent misread the platform.  Write deadlines are *)
(* abstracted: a retried write may always stay owed.  A superseded          *)
(* ResyncRequest left in the queue only causes an empty wake and is dropped *)
(* at once.                                                                *)
(***************************************************************************)
EXTENDS Selection

CONSTANTS
    Resync,     \* the ResyncRequest in the queue
    Scenarios   \* the rooms and bounds to explore, one record each

\* bound n: messages 1..n, numbered by their chronological key; hidden: deliveries
\* the platform's list omits (thread replies); lost: messages whose delivery the
\* WebSocket loses; foreign: messages the room's previous
\* execution may still hold; controls: messages the host may recognize as a control;
\* rosters: participant events; hubs: synthetic contact-hub messages; handles: the
\* host has an on_message_control handler; flaky: runs and writes may fail for ever,
\* so that bound faults counts reads and misread deletions only; bound signals: control signals, reconnects
\* and recovery requests.
ASSUME ScenariosAssumption ==
    \A c \in Scenarios :
        /\ {c.n, c.faults, c.signals} \subseteq Nat
        /\ {c.turn, c.page} \subseteq Nat \ {0}
        /\ c.hidden \cup c.lost \cup c.controls \cup c.foreign \subseteq 1..c.n
        /\ c.hidden \cap c.lost = {}
        /\ c.rosters \cap c.hubs = {} /\ Resync \notin c.rosters \cup c.hubs
        /\ \A e \in c.rosters \cup c.hubs \cup {Resync} : e \notin Nat
        /\ {c.batching, c.handles, c.flaky} \subseteq BOOLEAN

VARIABLES
    config,     \* the scenario, fixed at the start
    s,          \* the scheduler, its current pass and the owner's flags
    claim,      \* what the claim registry holds of each message
    posted,     \* messages the platform has stored
    sent,       \* events the WebSocket has delivered
    recognized, \* messages the host recognizes as controls right now
    faults, signals, \* bounds spent
    probed,     \* history: the platform answered a gate read since the last stop
    absent      \* history: messages misread as deleted since their last delivery

vars == <<config, s, claim, posted, sent, recognized, faults, signals, probed, absent>>

Hidden == config.hidden
Foreign == config.foreign
Controls == config.controls
Rosters == config.rosters
Hubs == config.hubs
Batching == config.batching     \* SessionConfig.consume_all_queued
TurnSize == config.turn         \* SessionConfig.max_queued_messages
PageSize == config.page         \* ACTIONABLE_PAGE_SIZE
HandlesControl == config.handles
Flaky == config.flaky
MaxFaults == config.faults
MaxSignals == config.signals

Msgs == 1..config.n
Locals == Rosters \cup Hubs
Events == Msgs \cup Locals

\* The messages and local events of any scenario.
AllMsgs == UNION {1..c.n : c \in Scenarios}
AllLocals == UNION {c.rosters \cup c.hubs : c \in Scenarios}

-----------------------------------------------------------------------------
(* Values *)

\* "mine": claimed by this scheduler's run; "held": by the previous execution
\* of the room; "final" and "retry": a terminal write is owed, after which the message
\* is over or runs again; parked: the platform refused that write.  "failed"
\* stays listed, "done" does not.
ClaimStates == {"free", "mine", "held", "final", "retry", "parkedFinal",
                "parkedRetry", "done", "failed"}

Reads == {"gate", "next", "page", "ctlpage"}
Awaits == Reads \cup {"boot", "wait", "retry", "loop", "run", "local", "off"}

Turns == {"advanced", "absent", "retry_later", "not_accepted", "paused", "declined"}

\* What execute_local returns for an event that owes no delivery.
LocalTurns == {"advanced", "retry_later", "not_accepted", "paused"}

\* A read's rows and the cursor of the page after it, 0 when it is the last.
NoRows == [rows |-> <<>>, next |-> 0]
Unread == [rows |-> <<0>>, next |-> 0]

\* A pass before it began.  relieved and late are history: a control has advanced in
\* this pass; the writes made owed while a step awaits its page.
IdlePass == [arg |-> FALSE, recovery |-> FALSE, held |-> FALSE,
             relieved |-> FALSE, invalid |-> FALSE, declined |-> {}, bounds |-> {},
             ctlPage |-> Unread, gate |-> 0, resumed |-> {}, sel |-> {},
             todo |-> {}, kind |-> "none", members |-> <<>>, prio |-> FALSE,
             control |-> FALSE, stale |-> FALSE, dead |-> FALSE, local |-> 0,
             answer |-> Unread, late |-> {}, result |-> "none"]

\* The fields of a pass start afresh with every wake.
Idle(t) == [f \in DOMAIN t |-> IF f \in DOMAIN IdlePass THEN IdlePass[f] ELSE t[f]]

\* What outlives a pass, as the room starts.
Fresh ==
    [pc |-> "boot", queue |-> <<>>, line |-> <<>>, deferred |-> 0,
     sync |-> Batching, first |-> 0, scan |-> 0, ctl |-> 0, fallback |-> FALSE,
     stopped |-> FALSE, closing |-> FALSE, due |-> FALSE, started |-> FALSE]

InitScheduler ==
    [f \in DOMAIN Fresh \cup DOMAIN IdlePass |->
        IF f \in DOMAIN Fresh THEN Fresh[f] ELSE IdlePass[f]]

Init ==
    /\ config \in Scenarios
    /\ s = InitScheduler
    /\ claim \in {[m \in Msgs |-> IF m \in held THEN "held" ELSE "free"] :
                    held \in SUBSET Foreign}
    /\ posted = {m \in Msgs : \E k \in Msgs : m <= k /\ claim[k] = "held"}
    /\ sent = {}
    /\ recognized = Controls
    /\ faults = 0 /\ signals = 0
    /\ probed = FALSE
    /\ absent = {}

-----------------------------------------------------------------------------
(* The claim registry, as DeliveryLifecycle reads it *)

Owed(c) == {m \in Msgs : c[m] \in {"final", "retry"}}

\* owes_writes: a settlement that is not parked remains.
OwesWrites(c) == Owed(c) # {}

\* keeps_original: the settlement is a retry's.
KeepsOriginal(c, e) == e \in Msgs /\ c[e] \in {"retry", "parkedRetry"}

\* is_ordinary and holds_retry.
Ordinary(e) == e \in Msgs
HoldsRetry(c, e) == Ordinary(e) /\ KeepsOriginal(c, e)

-----------------------------------------------------------------------------
(* The retained line *)

\* RetainedEvents.add: a delivery already held is not added again.
Add(line, e) ==
    IF e \notin Rosters /\ Contains(line, e) THEN line ELSE Append(line, e)

\* Mutant of Release: an original whose retry waits for its write is dropped.
ReleaseAll(t, c, ids) ==
    [t EXCEPT !.line = Keep(@, ToSet(@) \ ids)]

\* release: the originals no turn will run, except one held for its retry.
Release(t, c, ids) ==
    [t EXCEPT !.line = Keep(@, {e \in ToSet(@) : e \notin ids \/ HoldsRetry(c, e)})]

\* receive: the first live delivery before the backlog is read marks where the
\* backlog ends.
Receive(t, e) ==
    [t EXCEPT !.line = Add(@, e),
              !.first = IF e \notin Rosters /\ @ = 0 /\ ~t.sync THEN e ELSE @]

\* The first event of line that is in kept, 0 when there is none.
First(line, kept) ==
    LET at == {i \in DOMAIN line : line[i] \in kept}
    IN  IF at = {} THEN 0 ELSE line[CHOOSE i \in at : \A j \in at : i <= j]

\* The line once the events have been added in their order.
Joined(line, events) ==
    LET joined[i \in 0..Len(events)] ==
            IF i = 0 THEN line ELSE Add(joined[i - 1], events[i])
    IN  joined[Len(events)]

\* The queue without its recovery request.
Queued(t) == Keep(t.queue, ToSet(t.queue) \ {Resync})

\* absorb: every queued event is received; a request keeps its wake.
Absorb(t) ==
    [t EXCEPT !.line = Joined(@, Queued(t)),
              !.first = IF @ = 0 /\ ~t.sync
                        THEN First(Queued(t), ToSet(t.queue) \ Rosters) ELSE @,
              !.queue = Keep(@, {Resync})]

Requested(t) == Contains(t.queue, Resync)

\* request_recovery: requests coalesce.
Request(t) == IF Requested(t) THEN t ELSE [t EXCEPT !.queue = Append(@, Resync)]

\* Mutant of Defer: deferring the same head restarts the search for controls too.
DeferRestarts(t, e) == [t EXCEPT !.deferred = e, !.ctl = 0]

\* defer: a new head restarts the search for controls.
Defer(t, e) ==
    IF e = t.deferred THEN t ELSE [t EXCEPT !.deferred = e, !.ctl = 0]

\* housekeeping: the first participant event.
Housekeeping(t) == First(t.line, Rosters)

\* next_local: the first event owing no delivery, past originals held for a retry.
NextLocal(t, c) ==
    LET head == First(t.line, {e \in ToSet(t.line) : ~HoldsRetry(c, e)})
    IN  IF Ordinary(head) THEN 0 ELSE head

\* local_segment: the originals ahead of the first local event.
Segment(t) ==
    LET stops == {i \in DOMAIN t.line : ~Ordinary(t.line[i])}
    IN  IF stops = {} THEN t.line
        ELSE SubSeq(t.line, 1, (CHOOSE i \in stops : \A j \in stops : i <= j) - 1)

Bounded(t) == Segment(t) # t.line

\* Mutant of LocalPredecessor: a local event is no boundary.
LocalPredecessorNone(t, c, m) == 0

\* local_predecessor: what must run before m because m arrived after a local
\* event; 0 when nothing must.
LocalPredecessor(t, c, m) ==
    LET kept == Keep(t.line, {e \in ToSet(t.line) : ~HoldsRetry(c, e)})
        at == {i \in DOMAIN kept : kept[i] = m}
    IN  IF \E i \in at : \E j \in 1..(i - 1) : ~Ordinary(kept[j])
        THEN kept[1] ELSE 0

-----------------------------------------------------------------------------
(* Classification and selection *)

\* classify without its record of recognized controls.
Classify(t, c, m) ==
    CASE c[m] = "free" ->
            IF m \in recognized THEN "control"
            ELSE IF m \in t.bounds THEN "boundary" ELSE "runnable"
      [] c[m] \in {"held", "mine"} -> "held"
      [] OTHER -> "skip"

\* A control met once in a pass stays separate after it is reclassified.
Mark(t, c, ms) ==
    [t EXCEPT !.bounds = @ \cup {m \in ms \cap recognized : c[m] = "free"}]

CandidateOf(t, c, m, observed) == Candidate(m, Classify(t, c, m), observed)

RowCandidates(t, c, rows) == {CandidateOf(t, c, m, TRUE) : m \in ToSet(rows)}

RetainedCandidates(t, c, line) ==
    {CandidateOf(t, c, m, FALSE) : m \in {e \in ToSet(line) : Ordinary(e)}}

\* candidates: the rows merged with every retained original.
Candidates(t, c, rows) ==
    Merge(RowCandidates(t, c, rows), RetainedCandidates(t, c, t.line))

\* batch_candidates: nothing that arrived after the first local event.
BatchCandidates(t, c, rows) ==
    LET segment == Segment(t)
        later == {e \in ToSet(t.line) : Ordinary(e)} \ ToSet(segment)
        open(m) == \/ ~Bounded(t) \/ segment = <<>> \/ Contains(segment, m)
                   \/ m <= Last(segment)
    IN  Merge(RowCandidates(t, c, Keep(rows, {m \in ToSet(rows) : m \notin later /\ open(m)})),
              RetainedCandidates(t, c, segment))

\* The candidates of run_selection: a resumed retry keeps its place in front.
Chosen(t, c, read) ==
    IF Batching THEN BatchCandidates(t, c, read.rows)
    ELSE IF read.rows = <<>> /\ t.sync
         THEN [i \in DOMAIN Segment(t) |-> CandidateOf(t, c, Segment(t)[i], FALSE)]
         ELSE LET all == Candidates(t, c, read.rows)
              IN  Keep(all, {x \in ToSet(all) : x.key \in t.resumed})
                  \o Keep(all, {x \in ToSet(all) : x.key \notin t.resumed})

Frontier(rows) == IF rows = <<>> THEN 0 ELSE Last(rows)

\* The ids prune_skipped drops from the line.
Skipped(candidates, rows, exhausted) ==
    {x.key : x \in {y \in ToSet(candidates) :
        /\ y.disposition = "skip"
        /\ y.observed \/ ReadReaches(y, Frontier(rows), exhausted)}}

\* DispatchKey without the revision, which empties the set when it moves.
DispatchKey(members, prio) ==
    [prio |-> prio, ids |-> [i \in DOMAIN members |-> members[i].key],
     disposition |-> members[1].disposition]

-----------------------------------------------------------------------------
(* Ending a step and a pass *)

\* The finally of run_pass; the first pass ends the startup.
EndPass(t) ==
    [Idle(t) EXCEPT !.pc = IF t.closing THEN "off" ELSE "wait",
                    !.started = TRUE,
                    !.due = IF t.arg THEN FALSE ELSE @,
                    !.scan = 0, !.fallback = FALSE]

\* What one step leaves behind for the next.
Rest(t) == [t EXCEPT !.kind = "none", !.members = <<>>, !.prio = FALSE,
                     !.control = FALSE, !.stale = FALSE, !.dead = FALSE,
                     !.local = 0, !.answer = Unread, !.late = {}, !.result = "none"]

\* The outcome a step, or the start of a pass ("BEGIN"), hands to the loop.
Return(t, outcome) == [t EXCEPT !.result = outcome]

\* The tail of take_step and advance: ordinary work that is blocked behind a
\* deferred input leaves the pass to the controls, housekeeping keeps it going.
AfterStep(t, c) ==
    LET blocked == /\ t.kind = "step" /\ t.result \in {"BLOCKED", "RETRY"}
                   /\ t.deferred # 0 \/ OwesWrites(c)
        kept == IF blocked \/ (t.result = "STOPPED" /\ Housekeeping(t) # 0)
                THEN "PROGRESS" ELSE t.result
    IN  IF kept = "PROGRESS" /\ ~t.invalid
        THEN [Rest(t) EXCEPT !.pc = "loop", !.held = @ \/ blocked]
        ELSE EndPass(IF kept = "EMPTY" /\ ~t.invalid THEN Defer(t, 0) ELSE t)

\* dispatch_local up to the event's execution.
StartLocal(t, c, e) ==
    IF t.stopped /\ e \in Hubs THEN Return(t, "STOPPED")
    ELSE [Rest(t) EXCEPT !.pc = "local", !.local = e, !.kind = t.kind]

\* Mutant of Dispatch: what a pass already dispatched is dispatched again.
DispatchRepeats(t, c, members, prio) ==
    [Rest(t) EXCEPT !.pc = "run", !.members = DispatchKey(members, prio).ids,
              !.prio = prio, !.kind = t.kind,
              !.control = members[1].disposition = "control"
                          /\ members[1].key \notin t.declined]

\* dispatch up to delivery.run; a repeat without progress is not run again.
Dispatch(t, c, members, prio) ==
    LET key == DispatchKey(members, prio)
    IN  IF t.stopped THEN Return(t, "STOPPED")
        ELSE IF key \in t.sel THEN Return(t, "BLOCKED")
        ELSE [Rest(t) EXCEPT !.pc = "run", !.members = key.ids, !.prio = prio,
                       !.sel = @ \cup {key}, !.kind = t.kind,
                       !.control = members[1].disposition = "control"
                                   /\ members[1].key \notin t.declined]

\* after_delivery: what it does to the record, and the outcome it returns.
AfterDelivery(t, c, outcome, ids) ==
    LET defers == IF t.prio \/ ids = <<>> THEN t ELSE Defer(t, ids[1])
        undefer == IF t.deferred \in ToSet(ids) THEN Defer(t, 0) ELSE t
        over == outcome \in {"advanced", "absent"}
    IN
    CASE over -> Return(Release(undefer, c, ToSet(ids)), "PROGRESS")
      [] ~over /\ (t.stopped \/ t.closing) -> Return(t, "STOPPED")
      [] ~over /\ ~t.stopped /\ ~t.closing /\ t.stale ->
            Return([IF t.control THEN t ELSE defers EXCEPT !.invalid = TRUE], "BLOCKED")
      [] OTHER -> CASE outcome = "retry_later" -> Return(defers, "RETRY")
                    [] outcome = "not_accepted" -> Return(defers, "BLOCKED")
                    [] OTHER -> Return(t, "BLOCKED")

-----------------------------------------------------------------------------
(* One step of a pass *)

\* dispatch_selection, up to the turn.
DispatchSelection(t, c, members) == Dispatch(t, c, members, FALSE)

\* Mutant of AdvanceScan: the pass concludes after the first page.
AdvanceScanStops(t, c, read, exhausted, skipped, segment) ==
    Return([t EXCEPT !.scan = 0, !.sync = TRUE, !.recovery = FALSE], "EMPTY")

\* advance_scan: nothing was selected; move to the next page or conclude.
AdvanceScan(t, c, read, exhausted, skipped, segment) ==
    LET ended == [t EXCEPT !.scan = 0, !.sync = @ \/ exhausted,
                           !.recovery = @ /\ ~exhausted]
        dropped == \E m \in skipped : Contains(segment, m) /\ ~HoldsRetry(c, m)
    IN  IF read.next # 0
        THEN Return([t EXCEPT !.scan = read.next], "PROGRESS")
        ELSE Return(ended,
                       IF dropped \/ (ended.sync /\ NextLocal(ended, c) # 0)
                       THEN "PROGRESS" ELSE "EMPTY")

\* The input of a selection that must respect local events; 0 beyond the frontier.
Input(selection) ==
    CASE selection.stop = "frontier" -> 0
      [] selection.stop # "frontier" /\ selection.members # <<>> ->
            selection.members[1].key
      [] OTHER -> selection.at.key

\* run_selection once it pruned: prior must run before the selection, 0 for none.
RunPrefix(t, c, read, exhausted, candidates, selection, skipped, segment, prior) ==
    CASE prior # 0 ->
            IF Ordinary(prior)
            THEN DispatchSelection(t, c,
                    Keep(candidates, {x \in ToSet(candidates) : x.key = prior}))
            ELSE StartLocal(t, c, prior)
      [] prior = 0 /\ selection.members # <<>> ->
            DispatchSelection(t, c, selection.members)
      [] prior = 0 /\ selection.members = <<>> /\ selection.stop = "held" ->
            Return(Defer(t, selection.at.key), "BLOCKED")
      [] OTHER -> AdvanceScan(t, c, read, exhausted, skipped, segment)

\* prune_skipped, and whether a local event stands before the input.
Prune(t, c, read, exhausted, candidates, selection, skipped) ==
    LET u == Release(Mark(t, c, {x.key : x \in ToSet(candidates)}), c, skipped)
        input == Input(selection)
    IN  RunPrefix(u, c, read, exhausted, candidates, selection, skipped, Segment(t),
                  IF input = 0 THEN 0 ELSE LocalPredecessor(u, c, input))

\* run_selection: select from the page and the retained originals, and run it.
RunSelection(t, c, read, exhausted, candidates) ==
    Prune(t, c, read, exhausted, candidates,
          SelectPrefix(candidates, ToSet(read.rows), IF Batching THEN TurnSize ELSE 1,
                       Frontier(read.rows), exhausted, t.resumed),
          Skipped(candidates, read.rows, exhausted))

\* step, from the return of the rows it selects from.
AfterRead(t, c, read, exhausted) ==
    CASE t.stopped -> Return(t, "STOPPED")
      [] ~t.stopped /\ read.rows = <<>> /\ t.sync /\ NextLocal(t, c) # 0 ->
            StartLocal(t, c, NextLocal(t, c))
      [] OTHER -> RunSelection(t, c, read, exhausted, Chosen(t, c, read))

\* read_page with a row of /next, 0 when nothing is pending; a settled head
\* sends the pass to the pages.
AfterNext(t, c, row) ==
    IF row = 0
    THEN AfterRead([t EXCEPT !.sync = TRUE, !.recovery = FALSE], c, NoRows, TRUE)
    ELSE LET u == Mark(t, c, {row})
         IN  IF Classify(t, c, row) = "skip"
             THEN Return([u EXCEPT !.fallback = TRUE], "PROGRESS")
             ELSE AfterRead(u, c, [rows |-> <<row>>, next |-> 0], FALSE)

Await(t, pc) == [Rest(t) EXCEPT !.pc = pc, !.kind = t.kind]

\* step, up to its first await; local is what next_local found.
StepFrom(t, c, local) ==
    LET recovery == t.recovery \/ ~t.sync IN
    CASE t.stopped \/ t.closing -> Return(t, "STOPPED")
      [] ~t.stopped /\ ~t.closing /\ local # 0
         /\ (~recovery \/ Batching \/ local = t.deferred) ->
            StartLocal(t, c, local)
      [] OTHER ->
            CASE ~recovery /\ ~Batching -> AfterRead(t, c, NoRows, TRUE)
              [] Batching \/ (recovery /\ t.fallback) -> Await(t, "page")
              [] OTHER -> IF t.gate # 0
                          THEN AfterNext([t EXCEPT !.gate = 0], c, t.gate)
                          ELSE Await(t, "next")

Step(t, c) ==
    LET u == Absorb([t EXCEPT !.kind = "step"]) IN StepFrom(u, c, NextLocal(u, c))

\* priority_step once it pruned what is settled ahead of pick, the first control not
\* yet offered: offer it.
Offer(t, c, candidates, pick, skipped) ==
    LET u == Release(Mark(t, c, {x.key : x \in ToSet(candidates)}), c, skipped)
        v == IF u.deferred \in skipped /\ ~KeepsOriginal(c, u.deferred)
             THEN Defer(u, 0) ELSE u
    IN  IF pick # 0 THEN Dispatch(v, c, <<candidates[pick]>>, TRUE)
        ELSE Return(v, IF v.deferred # 0 \/ OwesWrites(c) THEN "BLOCKED" ELSE "PROGRESS")

\* priority_step once it has its page.
PriorityScan(t, c, candidates) ==
    LET offers == {i \in DOMAIN candidates :
                    /\ candidates[i].disposition = "control"
                    /\ candidates[i].key \notin t.declined
                    /\ DispatchKey(<<candidates[i]>>, TRUE) \notin t.sel}
        pick == IF offers = {} THEN 0
                ELSE CHOOSE i \in offers : \A j \in offers : i <= j
        passed == IF pick = 0 THEN candidates ELSE SubSeq(candidates, 1, pick - 1)
    IN  Offer(t, c, candidates, pick,
              Skipped(passed, t.ctlPage.rows, t.ctlPage.next = 0))

\* priority_step: while ordinary input waits, only controls are looked for.
PriorityStep(t0, c) ==
    LET t == [t0 EXCEPT !.kind = "prio"]
    IN  CASE ~HandlesControl -> Return(t, "BLOCKED")
          [] HandlesControl /\ t.ctlPage = Unread -> Await(t, "ctlpage")
          [] OTHER -> PriorityScan(t, c, Candidates(t, c, t.ctlPage.rows))

\* Mutant of TakeStep: an owed write does not hold ordinary input.
TakeStepIgnoresDebt(t, c) ==
    LET gated == t.held /\ t.deferred # 0
        local == IF gated \/ t.stopped THEN Housekeeping(t) ELSE 0
    IN
    CASE local # 0 -> StartLocal([t EXCEPT !.kind = "hk"], c, local)
      [] local = 0 /\ t.stopped -> Return([t EXCEPT !.kind = "hk"], "STOPPED")
      [] local = 0 /\ ~t.stopped /\ gated -> PriorityStep(t, c)
      [] OTHER -> Step(t, c)

\* take_step: housekeeping before held or stopped input, then controls, then
\* ordinary work.
TakeStep(t, c) ==
    LET gated == OwesWrites(c) \/ (t.held /\ t.deferred # 0)
        local == IF gated \/ t.stopped THEN Housekeeping(t) ELSE 0
    IN
    CASE local # 0 -> StartLocal([t EXCEPT !.kind = "hk"], c, local)
      [] local = 0 /\ t.stopped -> Return([t EXCEPT !.kind = "hk"], "STOPPED")
      [] local = 0 /\ ~t.stopped /\ gated -> PriorityStep(t, c)
      [] OTHER -> Step(t, c)

\* The loop of run_pass; a live pass yields to a requested or due resync.
Loop(t, c) ==
    IF t.closing \/ (~t.arg /\ (Requested(t) \/ t.due)) THEN EndPass(t)
    ELSE TakeStep(t, c)

\* retry_settlements over the writes left, then the loop of the pass.
Settlements(t, c, todo) ==
    IF todo = {} \/ t.stopped
    THEN Return([t EXCEPT !.todo = {}, !.held = t.deferred # 0 /\ ~t.arg], "BEGIN")
    ELSE [t EXCEPT !.pc = "retry", !.todo = todo]

\* run_pass: a recovery pass of a stopped room asks the platform whether the
\* room plays again.
BeginPass(t0, c, recovery) ==
    LET t == Absorb([Idle(t0) EXCEPT !.arg = recovery, !.recovery = recovery])
    IN  IF t.stopped /\ recovery THEN Await(t, "gate")
        ELSE Settlements(t, c, Owed(c))

-----------------------------------------------------------------------------
(* The scheduler's actions *)

\* Claims are taken as a run starts.
ClaimedBy(c, t) ==
    [m \in Msgs |-> IF t.pc = "run" /\ Contains(t.members, m) /\ c[m] = "free"
                    THEN "mine" ELSE c[m]]

\* The coroutine runs from its await to the next one: what is left of a step, ...
Proceed(t, c) ==
    LET u == IF t.result = "none" THEN t ELSE AfterStep(t, c)
    IN  s' = u /\ claim' = ClaimedBy(c, u)

\* ... or of the start of a pass and its first step.
ProceedPass(t, c) ==
    Proceed(IF t.result = "BEGIN" THEN Loop(Return(t, "none"), c) ELSE t, c)

Fault == faults < MaxFaults /\ faults' = faults + 1

\* A run or a write that fails.
RunFault == IF Flaky THEN UNCHANGED faults ELSE Fault

platform == <<config, posted, sent, recognized, probed, absent>>

\* run: the first pass.
Boot ==
    /\ s.pc = "boot"
    /\ ProceedPass(BeginPass([s EXCEPT !.queue = Queued(s)], claim, TRUE), claim)
    /\ UNCHANGED <<platform, faults, signals>>

\* run: a due resync comes before the queue and serves a pending request.
WakeDue ==
    /\ s.pc = "wait" /\ s.due /\ ~s.closing
    /\ ProceedPass(BeginPass([s EXCEPT !.queue = Queued(s)], claim, TRUE), claim)
    /\ UNCHANGED <<platform, faults, signals>>

\* run: the head of the queue, a request or an event.
WakeQueue ==
    /\ s.pc = "wait" /\ ~s.due /\ ~s.closing /\ s.queue # <<>>
    /\ LET event == Head(s.queue)
           t == [s EXCEPT !.queue = Tail(@)]
       IN  ProceedPass(BeginPass(IF event = Resync THEN t ELSE Receive(t, event),
                                 claim, event = Resync), claim)
    /\ UNCHANGED <<platform, faults, signals>>

\* A message the platform still lists, in key order.
ListedFrom(cursor) ==
    InOrder({m \in posted \ Hidden : m > cursor /\ claim[m] # "done"})

Page(cursor) ==
    LET all == ListedFrom(cursor)
        rows == SubSeq(all, 1, IF Len(all) < PageSize THEN Len(all) ELSE PageSize)
    IN  [rows |-> rows, next |-> IF Len(all) > PageSize THEN Last(rows) ELSE 0]

\* The platform answers a read.  /next of a room the platform holds stopped, which
\* this execution may know nothing of, reports nothing.
PlatformAnswers ==
    /\ s.pc \in Reads /\ s.answer = Unread
    /\ \/ /\ s.pc \in {"gate", "next"}
          /\ s' = [s EXCEPT !.answer =
                    [Page(0) EXCEPT !.rows = SubSeq(@, 1, IF @ = <<>> THEN 0 ELSE 1),
                                    !.next = 0]]
          /\ UNCHANGED faults
       \/ /\ s.pc \in {"gate", "next"}
          /\ s' = [s EXCEPT !.answer = NoRows]
          /\ Fault
       \/ /\ s.pc \in {"page", "ctlpage"}
          /\ s' = [s EXCEPT !.answer = Page(IF s.pc = "page" THEN s.scan ELSE s.ctl)]
          /\ UNCHANGED faults
    /\ probed' = (s.stopped /\ (probed \/ s.pc = "gate"))
    /\ UNCHANGED <<config, claim, posted, sent, recognized, signals, absent>>

Answered(pc) == s.pc = pc /\ s.answer # Unread

\* The read raises: the pass ends.
ReadFails ==
    /\ s.pc \in Reads
    /\ Fault
    /\ Proceed(EndPass(s), claim)
    /\ UNCHANGED <<platform, signals>>

\* Bumping control_revision outdates what the pass keyed by it, and any await.
Bump(t) == [t EXCEPT !.stale = t.pc \in Reads \cup {"run", "local"}, !.declined = {}, !.bounds = {}, !.sel = {}]

\* Mutant of GateEnds: the gate answered before a control is trusted after it.
GateEndsStale ==
    LET t == Absorb(s)
        row == IF s.answer.rows = <<>> THEN 0 ELSE s.answer.rows[1]
    IN
    /\ Answered("gate")
    /\ IF row = 0 \/ claim[row] \in {"done", "failed"}
       THEN ProceedPass(Settlements(t, claim, Owed(claim)), claim)
       ELSE ProceedPass(Settlements([Bump(t) EXCEPT !.stopped = FALSE, !.gate = row],
                                    claim, Owed(claim)), claim)
    /\ UNCHANGED <<platform, faults, signals>>

\* Scheduler.resume_from_gate: an actionable head means a PLAY was missed.
GateEnds ==
    LET t == Absorb(s)
        row == IF s.answer.rows = <<>> THEN 0 ELSE s.answer.rows[1]
    IN
    /\ Answered("gate")
    /\ IF s.stale THEN Proceed(EndPass(t), claim)
       ELSE IF row = 0 \/ claim[row] \in {"done", "failed"}
       THEN ProceedPass(Settlements(t, claim, Owed(claim)), claim)
       ELSE ProceedPass(Settlements([Bump(t) EXCEPT !.stopped = FALSE, !.gate = row],
                                    claim, Owed(claim)), claim)
    /\ UNCHANGED <<platform, faults, signals>>

\* read_page from the answer of /next.
NextEnds ==
    LET t == Absorb(s) IN
    /\ Answered("next")
    /\ IF s.stale THEN Proceed(Return(t, "PROGRESS"), claim)
       ELSE Proceed(AfterNext(t, claim, IF s.answer.rows = <<>> THEN 0
                                        ELSE s.answer.rows[1]), claim)
    /\ UNCHANGED <<platform, faults, signals>>

\* read_page from the answer of the list.
PageEnds ==
    LET t == Absorb(s) IN
    /\ Answered("page")
    /\ IF s.stale THEN Proceed(Return(t, "PROGRESS"), claim)
       ELSE Proceed(AfterRead(t, claim, s.answer, s.answer.next = 0), claim)
    /\ UNCHANGED <<platform, faults, signals>>

\* priority_step from the answer of the list.
ControlPageEnds ==
    LET t == Absorb(s) IN
    /\ Answered("ctlpage")
    /\ CASE s.stopped -> Proceed(Return(t, "STOPPED"), claim)
         [] ~s.stopped /\ s.stale -> Proceed(Return(t, "PROGRESS"), claim)
         [] OTHER -> Proceed(PriorityScan([t EXCEPT !.ctlPage = s.answer,
                                                    !.ctl = s.answer.next], claim,
                                          Candidates(t, claim, s.answer.rows)),
                             claim)
    /\ UNCHANGED <<platform, faults, signals>>

\* The loop resumes after its sleep(0).
NextStep ==
    /\ s.pc = "loop"
    /\ ProceedPass(Return(s, "BEGIN"), claim)
    /\ UNCHANGED <<platform, faults, signals>>

\* Where an accepted or refused terminal write leaves a message.  A write answered 404
\* in a room that can be read completes the message, a retry's too.
Settled(c) == IF c = "final" THEN {"done", "failed", "parkedFinal"}
              ELSE {"free", "done", "parkedRetry"}

\* retry_settlements: one write is confirmed, refused, or stays owed.
SettlementEnds(m) ==
    /\ s.pc = "retry" /\ m \in s.todo
    /\ \E left \in Settled(claim[m]) \cup {claim[m]} :
        LET c == [claim EXCEPT ![m] = left]
            resumed == IF KeepsOriginal(claim, m) /\ ~KeepsOriginal(c, m)
                       THEN {m} ELSE {}
        IN  /\ IF left = claim[m] THEN RunFault ELSE UNCHANGED faults
            /\ ProceedPass(Settlements([s EXCEPT !.resumed = @ \cup resumed], c,
                                       (s.todo \ {m}) \cap Owed(c)),
                           c)
    /\ UNCHANGED <<platform, signals>>

Members == ToSet(s.members)

\* The claims once the run leaves each member whose claim was one of from with what
\* left says of it.
After(left, from) ==
    [m \in Msgs |-> IF m \in Members /\ claim[m] \in from THEN left[m] ELSE claim[m]]

Freed == [m \in Msgs |-> IF claim[m] = "mine" THEN "free" ELSE claim[m]]

\* What follows delivery.run: after_delivery, then what dispatch_selection or
\* priority_step makes of it.
Conclude(t, c, outcome) ==
    LET u == AfterDelivery(t, c, outcome, t.members)
        found == u.first \in ToSet(u.members)
    IN
    CASE t.prio /\ outcome = "advanced" ->
            [u EXCEPT !.held = FALSE, !.relieved = TRUE, !.sel = {k \in @ : k.prio}]
      [] t.prio /\ outcome # "advanced" ->
            Return(u, IF u.result = "STOPPED" THEN "STOPPED" ELSE "PROGRESS")
      [] OTHER ->
            IF outcome \in {"advanced", "absent"} /\ ~Batching
            THEN [u EXCEPT !.fallback = FALSE, !.scan = 0,
                           !.sync = @ \/ found,
                           !.first = IF found THEN 0 ELSE @,
                           !.recovery = @ /\ ~(found /\ ~u.started)]
            ELSE u

\* The run consumed its input, or found nothing left to run.  A member another
\* execution held as the run began keeps it from running; a run whose revision
\* was stale when it began admits nothing.
RunAdvances ==
    /\ s.pc = "run"
    /\ \A m \in Members : /\ claim[m] \notin {"held", "free"}
                          /\ s.dead => claim[m] # "mine"
    /\ \E left \in [Members -> {"done", "failed", "parkedFinal", "parkedRetry"}] :
        LET c == After(left, {"mine", "final", "retry"}) IN
        /\ \A m \in Members :
              left[m] = "parkedRetry" => ~Batching /\ claim[m] # "final"
        /\ Proceed(Conclude(s, c, "advanced"), c)
    /\ UNCHANGED <<platform, faults, signals>>

\* What a run that ends unsettled leaves of its members: none was decided, or a write
\* is still owed, while the writes of other members may have been answered.
Unconfirmed ==
    {left \in [Members -> {"free", "final", "retry", "done", "failed", "parkedFinal"}] :
        \/ \A m \in Members : left[m] = "free"
        \/ /\ ~s.dead /\ \E m \in Members : left[m] \in {"final", "retry"}
           /\ \A m \in Members : left[m] # "free" /\ (Batching => left[m] # "retry")}

\* The run is not admitted, is displaced, or ends with a write unconfirmed.
RunRetriesLater ==
    /\ s.pc = "run"
    /\ IF s.stale \/ (\E m \in Members : claim[m] \in {"held", "free"})
       THEN UNCHANGED faults ELSE RunFault
    /\ \E left \in Unconfirmed :
        LET c == After(left, {"mine"}) IN Proceed(Conclude(s, c, "retry_later"), c)
    /\ UNCHANGED <<platform, signals>>

\* _admit finds the message absent: its claim write was answered 404 although it
\* exists, and the room could be read again by the time is_gone asked.  The original
\* is released with its claim free.  A batch takes a 404 for a failure instead.
RunAbsent ==
    /\ s.pc = "run" /\ ~s.dead /\ ~Batching
    /\ \A m \in Members : claim[m] = "mine"
    /\ Fault
    /\ Proceed(Conclude(s, Freed, "absent"), Freed)
    /\ absent' = absent \cup Members
    /\ UNCHANGED <<config, posted, sent, recognized, probed, signals>>

\* The adapter refuses the input: defer_delivery, then the usual bookkeeping.
RunNotAccepted ==
    /\ s.pc = "run" /\ ~s.dead
    /\ \E m \in Members : claim[m] = "mine"
    /\ RunFault
    /\ Proceed(Conclude(Defer(s, s.members[1]), Freed, "not_accepted"), Freed)
    /\ UNCHANGED <<platform, signals>>

\* A stop or an interrupt ended the run without consuming its input.
RunPaused ==
    /\ s.pc = "run" /\ s.stale
    /\ Proceed(Conclude(s, Freed, "paused"), Freed)
    /\ UNCHANGED <<platform, faults, signals>>

\* The host declines the control: it waits, or runs as ordinary input under the
\* revision read before it was offered.
RunDeclined ==
    LET t == [s EXCEPT !.declined = IF s.stale THEN @ ELSE @ \cup Members] IN
    /\ s.pc = "run" /\ s.control /\ ~s.dead
    /\ \E m \in Members : claim[m] = "mine"
    /\ IF s.prio
       THEN Proceed(Return(t, "PROGRESS"), Freed)
       ELSE Proceed([t EXCEPT !.control = FALSE, !.dead = s.stale], Freed)
    /\ UNCHANGED <<platform, faults, signals>>

\* dispatch_local from the end of the event's execution: a participant event
\* that could not begin waits for the next wake.
LocalEnds(outcome) ==
    LET ids == IF s.local \in Hubs THEN <<s.local>> ELSE <<>>
        t == IF outcome = "advanced"
             THEN [s EXCEPT !.line = Keep(@, ToSet(@) \ {s.local}), !.scan = 0]
             ELSE s
    IN
    /\ s.pc = "local"
    /\ CASE outcome = "advanced" -> UNCHANGED faults
         [] outcome = "retry_later" -> IF s.stale THEN UNCHANGED faults ELSE RunFault
         [] outcome = "not_accepted" -> s.local \in Hubs /\ RunFault
         [] outcome = "paused" -> s.local \in Hubs /\ s.stale /\ UNCHANGED faults
    /\ IF outcome # "advanced" /\ s.local \in Rosters
       THEN Proceed(Return(t, "RETRY"), claim)
       ELSE Proceed(AfterDelivery([t EXCEPT !.prio = FALSE, !.control = FALSE], claim,
                                  outcome, ids), claim)
    /\ UNCHANGED <<platform, signals>>

\* The room's shutdown cancels the loop task at any await.
Cancelled ==
    /\ s.closing /\ s.pc # "off"
    /\ s' = [Idle(s) EXCEPT !.pc = "off", !.scan = 0, !.fallback = FALSE]
    /\ claim' = Freed
    /\ UNCHANGED <<platform, faults, signals>>

-----------------------------------------------------------------------------
(* The platform, the control plane and the other execution of the room *)

\* Messages are stored in key order.
Post(m) ==
    /\ m \notin posted /\ \A k \in 1..(m - 1) : k \in posted
    /\ posted' = posted \cup {m}
    /\ UNCHANGED <<config, s, claim, sent, recognized, faults, signals, probed, absent>>

\* on_event: a delivery, a participant event or a contact-hub turn is queued.
Deliver(e) ==
    /\ e \notin sent \cup config.lost /\ (Ordinary(e) => e \in posted)
    /\ s.pc # "off"
    /\ sent' = sent \cup {e} /\ absent' = absent \ {e}
    /\ s' = [s EXCEPT !.queue = Append(@, e)]
    /\ UNCHANGED <<config, claim, posted, recognized, faults, signals, probed>>

Signal == signals < MaxSignals /\ signals' = signals + 1 /\ s.pc # "off"

\* The WebSocket repeats a delivery.
Redeliver(m) ==
    /\ m \in sent /\ Signal /\ absent' = absent \ {m}
    /\ s' = [s EXCEPT !.queue = Append(@, m)]
    /\ UNCHANGED <<config, claim, posted, sent, recognized, faults, probed>>

\* History: writes another actor made owed while the step awaits its page.
Late(t, ms) == IF t.pc \in {"next", "page"} THEN [t EXCEPT !.late = @ \cup ms] ELSE t

\* interrupt
Interrupt ==
    /\ Signal /\ s' = Bump(s)
    /\ UNCHANGED <<claim, platform, faults>>

\* stop_room
StopRoom ==
    /\ Signal /\ s' = [Bump(s) EXCEPT !.stopped = TRUE]
    /\ probed' = FALSE
    /\ UNCHANGED <<config, claim, posted, sent, recognized, faults, absent>>

\* resume_room
ResumeRoom ==
    /\ Signal /\ s' = Request([Bump(s) EXCEPT !.stopped = FALSE])
    /\ UNCHANGED <<claim, platform, faults>>

\* on_event of a ReconnectedEvent: every parked write is owed again.
Reconnected ==
    /\ Signal
    /\ s' = Late(Request(s), {m \in Msgs : claim[m] \in {"parkedFinal", "parkedRetry"}})
    /\ claim' = [m \in Msgs |-> CASE claim[m] = "parkedFinal" -> "final"
                                  [] claim[m] = "parkedRetry" -> "retry"
                                  [] OTHER -> claim[m]]
    /\ UNCHANGED <<platform, faults>>

\* _input_may_be_ready and _resume_after_turn.
RecoveryRequested ==
    /\ Signal /\ s' = Request(s)
    /\ UNCHANGED <<claim, platform, faults>>

\* The host's recognition of a control depends on its own state.
RecognitionChanges(m) ==
    /\ Signal
    /\ recognized' = IF m \in recognized THEN recognized \ {m} ELSE recognized \cup {m}
    /\ UNCHANGED <<config, s, claim, posted, sent, faults, probed, absent>>

\* The periodic resync falls due.
TimerDue ==
    /\ s.started /\ ~s.due /\ s.pc # "off"
    /\ s' = [s EXCEPT !.due = TRUE]
    /\ UNCHANGED <<claim, platform, faults, signals>>

\* ExecutionContext.stop
Close ==
    /\ Signal /\ ~s.closing
    /\ s' = [s EXCEPT !.closing = TRUE]
    /\ UNCHANGED <<claim, platform, faults>>

\* The room's previous execution, whose claims the registry still shows, lets go
\* of one with or without an outcome.
OtherReleases(m) ==
    /\ claim[m] = "held"
    /\ \E left \in {"free", "done", "final"} :
        /\ claim' = [claim EXCEPT ![m] = left]
        /\ s' = IF left = "final" THEN Late(s, {m}) ELSE s
    /\ UNCHANGED <<platform, faults, signals>>

SchedulerNext ==
    \/ Boot \/ WakeDue \/ WakeQueue
    \/ GateEnds \/ NextEnds \/ PageEnds \/ ControlPageEnds
    \/ NextStep
    \/ \E m \in Msgs : SettlementEnds(m)
    \/ RunAdvances \/ RunAbsent \/ RunRetriesLater \/ RunNotAccepted \/ RunPaused
    \/ RunDeclined
    \/ \E outcome \in LocalTurns : LocalEnds(outcome)

Next ==
    \/ SchedulerNext
    \/ PlatformAnswers \/ ReadFails \/ Cancelled
    \/ \E m \in Msgs : Post(m) \/ Redeliver(m) \/ OtherReleases(m)
    \/ \E e \in Events : Deliver(e)
    \/ Interrupt \/ StopRoom \/ ResumeRoom \/ Reconnected \/ RecoveryRequested
    \/ \E m \in Controls : RecognitionChanges(m)
    \/ TimerDue \/ Close

Spec == Init /\ [][Next]_vars

-----------------------------------------------------------------------------
(* Properties *)

TypeOK ==
    /\ s.pc \in Awaits /\ s.deferred \in Msgs \cup Hubs \cup {0}
    /\ ToSet(s.queue) \subseteq Events \cup {Resync}
    /\ ToSet(s.line) \subseteq Events
    /\ Cardinality(ToSet(s.line)) = Len(s.line)
    /\ claim \in [Msgs -> ClaimStates]
    /\ sent \subseteq Events /\ posted \subseteq Msgs

\* An ordinary turn of the scheduler's own choosing (not a control taken out of
\* turn) is about to run.
OrdinaryRun == s.pc = "run" /\ ~s.prio

\* A message that reached the room behind a participant event or a contact-hub
\* turn never runs before it, although the platform's list shows messages
\* without their place among local events.
LocalOrder ==
    OrdinaryRun =>
        \A i, j \in DOMAIN s.line :
            (i < j /\ s.line[j] \in Members) => s.line[i] \notin Locals

\* The messages the room was delivered, and has not misread as deleted since.
Entrusted == (sent \cap Msgs) \ absent

\* A delivered original the platform may never list again (a thread reply) stays
\* in the queue or the line for as long as a turn may still run it.  The one exception
\* is the one is_gone documents: a run that took the message for deleted, after a 404
\* on its claim write and a readable room, releases the original, and only the next
\* delivery of the message brings it back.
NeverDropsRunnable ==
    s.pc # "off" =>
        \A m \in Entrusted :
            claim[m] \in {"free", "mine", "held", "retry", "parkedRetry"} =>
                Contains(s.line, m) \/ Contains(s.queue, m)

Dispatches == s.pc # "run" /\ s'.pc = "run"
DispatchesOrdinary == Dispatches /\ ~s'.prio

\* A local stop is lifted only by a PLAY or by an answer the platform gave after
\* it: an answer read before the stop, still on its way, does not undo it.
StopStands ==
    [][(s.stopped /\ ~s'.stopped) => (probed \/ signals' # signals)]_vars

\* ordinary_gated: ordinary input waits for every terminal write the room owes, and in
\* a live pass for the input the room deferred until a control taken out of turn has
\* advanced: only a recovery pass, which reads the platform's own order, need not wait.
\* The one exception is a write that a reconnect, or the room's previous execution,
\* made owed while the step awaited its page: the gate is not looked at again.
OrdinaryWaits ==
    [][DispatchesOrdinary =>
        /\ Owed(claim') \subseteq s.late
        /\ s'.arg \/ s'.deferred = 0 \/ s'.relieved]_vars

-----------------------------------------------------------------------------
(* Liveness: the event loop runs a ready coroutine, the platform answers, the   *)
(* timer fires, another execution lets go of its claims, and a delivery that    *)
(* no list shows reaches the room.                                              *)

\* The coroutine has a step to take: ENABLED of its actions.
Ready ==
    \/ s.pc \in Reads \cup {"boot", "retry", "loop", "run", "local"}
    \/ s.pc = "wait" /\ ~s.closing /\ (s.due \/ s.queue # <<>>)

\* The first conjunct is weak fairness of the coroutine, with Ready for ENABLED.
Fairness ==
    /\ []<>~Ready \/ []<><<SchedulerNext \/ PlatformAnswers>>_vars
    /\ WF_vars(TimerDue)
    /\ \A m \in AllMsgs : WF_vars(m \in Msgs /\ OtherReleases(m))
    /\ \A m \in AllMsgs : WF_vars(m \in Hidden /\ Deliver(m))

FairSpec == Spec /\ Fairness

\* Every pass ends, even when every run and every write keeps failing: a
\* selection is not run twice in a pass without progress.
PassEnds == s.pc \notin {"wait", "off"} ~> (s.pc \in {"wait", "off"} \/ s.closing)

\* Every stored message is eventually run and its write settled or parked, also
\* when its delivery was lost, the PLAY after a stop was missed, a read failed or it was
\* misread as deleted, except a thread reply so misread, which no list shows; and
\* every local event is run, a contact-hub turn once the room plays, unless the
\* adapter fails for ever.
EveryInputRun ==
    /\ \A m \in AllMsgs : (m \in posted /\ ~Flaky) ~>
          \/ m \notin Msgs \/ s.closing \/ m \in absent \cap Hidden
          \/ claim[m] \in {"done", "failed", "parkedFinal", "parkedRetry"}
    /\ \A e \in AllLocals : (e \in sent /\ ~Flaky) ~>
          \/ ~Contains(s.line, e) /\ ~Contains(s.queue, e)
          \/ s.closing \/ (e \in Hubs /\ s.stopped)

\* While the input ahead of it keeps failing, a control of a later page is still
\* found and offered to the host, one page further with every pass.
ControlOffered ==
    \A m \in AllMsgs : m \in posted \cap Controls ~>
        \/ m \notin recognized \/ s.stopped \/ s.closing
        \/ claim[m] # "free"

=============================================================================
