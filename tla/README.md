# A TLA+ verification of the Band Python SDK runtime

The Band SDK (`src/band/`) connects an agent to the Band platform: it joins chat
rooms over a websocket, runs one *execution* per room, claims the messages
addressed to the agent, runs the user's handler on them and writes the outcome
back. This directory holds TLA+ models of the parts that carry that
responsibility, the TLC runs that check them, and the TLAPS proofs about them.
Paths below are relative to `src/src/band/` unless they start otherwise.

## 1. Inventory

The SDK runs in one asyncio loop per process. Nothing is preempted between two
awaits, so an *atomic step* is what a callback or a task does between two awaits,
and every await is a place where any other task, callback or control signal may
run.

| Component | State | Operations | Hard behaviour |
|---|---|---|---|
| `runtime/rooms.py` RoomExecutions | per room: wanted, generation, state, execution, held events, step budget, convergence future; table of routed executions | admit, hold, withdraw, destroy, close; the converging step task (start, deliver held, retire, release) | a leave and a join during a start; events arriving during hand-over; failing steps; `stop()` awaiting rooms that retire by themselves |
| `runtime/runtime.py` AgentRuntime | started/stopping, shared claim registry, control dedup | start, stop, presence callbacks, handle_control, release of a room | partial failure of `stop()`; what survives a rejoin |
| `runtime/delivery.py` DeliveryLifecycle, `runtime/cycle.py` TurnScope | scope phase, intent, kind; write backoff | claim, confirm processing, admit, execute, select/store intent, settle, retry, park, retire | lost answers, cancellation inside an acknowledgement, controls at every await |
| `runtime/execution.py` ExecutionContext | running, closing, stopped, control revision, current scope, retained tasks | start, stop, interrupt, stop_room, resume_room, observe_platform_stop, execute_delivery, execute_local | supervision of a handler that ignores cancellation; timeouts racing completion |
| `runtime/scheduler.py`, `selection.py`, `retained.py`, `resync.py` | queue, retained originals, deferred head, cursors, pass state, resync schedule | run, run_pass, step, priority_step, dispatch, absorb | arrivals, resync requests and revisions moving during a read; head-of-line holds |
| `band_sdk_core` (external) ClaimRegistry, RetryTracker | in-flight claims, pending settlements, completions; attempts, permanent failures | guarded_claim, record/confirm/park/unpark settlement, record/discard attempt | modelled from how `delivery.py` and its tests use them |
| `platform/message_lifecycle.py`, `core/settlement.py` | unconfirmed writes (logging only) | status writes and the classification of their answers | 204, 404, 422 and lost responses mean four different things |
| `runtime/presence.py`, `platform/subscriptions.py` | tracked rooms, desired and actual topics | join, leave, reconnect, event routing | reconnect racing join/leave |
| `platform/link.py`, `runtime/control.py` | bounded event queue, control lane, seen correlation ids | dispatch, control fan-out, dedup | queue at its limit; duplicated controls |
| `core/retention/room.py`, `owner.py` RetainedRoom, RoomRetention | residency state, leases, owned tasks, one transition task, retirement cause, idle deadline, disposal | use, own, observe, recover, wait_released, dispose, stop | several reasons to start a transition; starts abandoned by their initiator; disposal requested by the work it waits for |
| `core/turn_lifecycle.py` | TurnTask deadline and grace, provider turns | terminate, retry, drain, BackendTurns | one grace, never renewed; workers outliving a turn |
| `agent.py`, `runtime/platform_runtime.py`, `startup`, `shutdown`, `single_instance` | start/stop locks | start, stop, run | concurrent start and stop |
| `runtime/oneshot.py` | claims per invocation | handle one event, drain | acknowledgement after a crash |
| `runtime/working_state.py`, `activity.py` | reporter task, visible activity | start, refresh, stop | reports out of order |
| adapters, converters, integrations, tools, band-bridge, band-mcp, docker | framework bindings | handlers | outside the core: each is "a handler" for the models here |

How they interact: the link receives events and hands room events to
RoomPresence, whose callbacks call AgentRuntime, which asks RoomExecutions to
admit, hold or withdraw. RoomExecutions builds and starts an ExecutionContext and,
once it has given it everything that was held, routes further events straight to
it. The execution's scheduler turns arrivals and `/next` pages into candidate
messages and offers them to DeliveryLifecycle. Control signals come over a lane of
their own and reach a running turn from outside its coroutine. The claim registry
is shared by all executions of an agent and survives a room's leave and rejoin; the
retry tracker does not.

What makes each part correct is stated by the properties of section 3; the hazards
they answer to are listed in `PROJECT.json` with the line each one bites at.

## 2. Modules

| Module | Models | Used by |
|---|---|---|
| `RoomExecutions` | `runtime/rooms.py` and AgentRuntime's presence callbacks, `start()`, `stop()`, `_release_room` | `RoomExecutionsProof` |
| `Delivery` | `runtime/delivery.py`, `runtime/cycle.py`, handler supervision, controls and shutdown of `runtime/execution.py`, the answers classified by `platform/message_lifecycle.py` | `DeliveryProof` |
| `Settlement` | abstract: what the delivery lifecycle promises of a message | instantiated by `Delivery` |
| `Selection` | `runtime/selection.py`, pure | `SelectionScan`, `Scheduler`, `SelectionProof` |
| `SelectionScan` | one scan of a static backlog with `Selection` | `SelectionProof` |
| `Scheduler` | `runtime/scheduler.py`, `retained.py`, `resync.py` | `MCScheduler` (its scenarios), `SchedulerProof` |
| `Subscriptions` | `platform/subscriptions.py`, `BandLink._on_reconnected` | `Presence`, `PresenceProof` |
| `Presence` | `runtime/presence.py`, composed with `Subscriptions` | `PresenceProof` |
| `Link` | `platform/link.py`, `client/streaming/client.py`, `session_decider.py` | `LinkProof` |
| `Controls` | `AgentRuntime.handle_control`, `runtime/control.py` | `ControlsProof` |
| `Retention` | `core/retention/room.py`, `owner.py` | `RetentionProof` |

In all of them a synchronous method is an operator from a record to a record under
the method's name, composed as the code composes it, and an action is everything a
callback or coroutine does between two awaits. The history and ghost variables are
marked where they are declared.

**RoomExecutions.** A room is one record. `_signal`, `_advance`, `_fence`, `_fail`,
`_forget` are its operators, so that an action contains the whole callback, the
trailing `_signal`/`_advance` included. The step task's awaits split it into
`BeginStart`, `StartReturns`, `OnEventReturns`, `ResyncReturns`, `BeginRetire`,
`StopReturns`, `ReleaseReturns`; its done-callback is `OnStepDone`, which runs later,
in a loop iteration of its own. `Stop`, `Destroy`, `DestroyReturns`, `StopEnds`,
`Disconnected` and `StopCancelled` are `AgentRuntime.stop()`. An execution is the
number of its build; an event is the admission it arrived in and its place there.

**Delivery.** `turn` is the delivery coroutine together with its TurnScope: its `pc`
names the await it is suspended in. The integer revision of the code is only ever
compared with the one captured at dispatch, so it is the flag `turn.stale`. The retry
deadlines of unconfirmed writes are the set `backoff` of those still ahead. The
platform keeps one status per message; `Answer` gives every result the link can report
for a write together with the status the write leaves behind, a response lost after
the commit included. `is_gone`'s second request is a step of its own (`ConfirmProbe`,
`SettleProbe`), so access can come back between the two. The scheduler is the
environment here: it may offer any runnable original at any idle moment, which includes
everything the real one does, so the safety results do not depend on its policy. `Runnable`
reads the platform's status where `_facts` reads the candidate's copy, which may be older; only
this agent settles its messages, and what it settled since is in the registry.
`Cancelled` is `_stop()`'s cancellation, raised at whatever await the coroutine is in;
`Rejoin` builds a fresh tracker over the old registry. Left out: background workers a
scope may have bound (they cannot change a settled disposition), activity and failure
reports, the contents of hydrated context (hydration swallows its errors), the eviction
of 10 000 tracked ids, and several delivery coroutines in one room (there is one).

**Settlement.** Five variables and seven actions: a message is opened, admitted,
decided or let go, its decision lands or is retired, or it is deleted. `Delivery`
implements it under `PlatformMap` (`delivered` and `processing` are both open),
`OwedMap` (the status of the pending write), `AdmittedMap` (the originals of an admitted
turn), `done` and `misread` (the race `is_gone` documents in its own docstring).

**Selection, SelectionScan.** `Merge`, `ReadReaches` and `SelectPrefix` on candidates
whose identity is their place in the chronological order. `SelectionScan` pages through
every room of four messages and compares what is selected with that order.

**Scheduler.** `s` is the scheduler object, its current DiscoveryPass and the flags of its
owner; `claim` is what the claim registry shows of each message. A read is a request,
the moment the platform answers it (`PlatformAnswers`) and its return (`GateEnds`,
`NextEnds`, `PageEnds`, `ControlPageEnds`), so controls, arrivals and reconnects fall
between any two of these. `Return` carries the outcome of a step to the loop, and
`Proceed`/`ProceedPass` run the coroutine to its next await. The delivery lifecycle is
the environment: a run ends with any outcome `DeliveryLifecycle.run` can return, and leaves
each member of a batch the claim its own write earned. No message of the model is ever
deleted, so the outcome ABSENT (`RunAbsent`) is always the misreading the docstring of
`is_gone` describes, and the history variable `absent` remembers it until the message is
delivered again. A `/next` of a room the platform holds stopped answers nothing, for the gate
probe and for the others. Abstracted: write deadlines (a retried write may always stay owed) and the growth of the
resync interval (a due resync may happen at any time).

**Subscriptions, Presence.** A key owns one or two topics. `Subscriptions` has the
subscribe and unsubscribe coroutines of any number of callers, their wire calls
(answered, refused, failed, cancelled), the transport's reconnects with rejected
rejoins, the reconnect hook and the replacement of the session. `Presence` extends it:
`start()`/`stop()`, the event consumer, one re-join task per room, the reconnect's
listing and the wire calls of `Subscriptions` interleave, over a bounded event queue.
The tracker, the roster (`band_sdk_core`) and the Phoenix client are modelled from how
this code uses them. The drain of a reconnect goes through the client that is current when
the control topic has been recovered (`link.py:407`, `ThroughCurrent`), which may be a
replacement. `SubscribeReturned` has the stale-ticket branch (`presence.py:539-546`). The ghost
`ghost` names rooms the code does not put right by itself: `gaveUp`, `unsettled`, `rejected`
and the count `missed`; all but the count are cleared when a later step does put them right.
Assumed: a join reported as failed leaves nothing held. The Phoenix client may keep a cleanup
reservation for such a topic (`client.py:414-421`, `799-802`), which the next reconnect hook
would list as retained and leave; `JoinFails` does not have it.

**Link.** The caller of `connect()` and `disconnect()`, phoenix's supervisor, the topic
task and the control lane. `core` answers each decision of `SessionDecider` with retry or
dead, as the matches of `session_decider.py` allow. A `connect()` may fail or be cancelled at
each of its awaits, the ones of its own rollback included (`DecisionCancelled`,
`RollbackCut`), and a socket may close before `__aenter__` has resumed. `leftover` is what
such calls leave behind: clients that were not closed, whose control topic may go on
delivering, and events that were not dropped. Assumed: one `disconnect()` at a time. The
guard of `disconnect()` is only `_ws` (`link.py:256`), so of two overlapping calls the second
would find `_ws` None after its await, or clear the `_ws` of a session opened in between; the
callers under `runtime/` await one after the other (`platform_runtime.py:334` runs after
`runtime.py:265`).

**Controls.** `lane` holds the arrived signals, `now` the one being applied and `left` the
executions its fan-out has still to reach; the platform may repeat any signal.

**Retention.** Workers call `use()`, `own()`, `wait_released()` and `dispose()`; the
transition, the disposal and the owner's shutdown are tasks of their own. The provider may
fail at any time, and an acquire may hang for ever unless it is cancelled.

## 3. Runs

Bounds exist only in the guards of environment actions; every one is a named constant
of its module. Deadlock checking is off throughout: a stopped agent, or a room whose
messages are all disposed of, has nothing left to do. The type invariants are defined in
every module and are not part of the runs, so that each run's invariants say something
about the code; but for that of `Scheduler`,
of which `Sound` states what its proof needs, they are proved.

| Run | Instance | Properties |
|---|---|---|
| `rooms` | one room, two withdrawals, three events per admission, two held, two faults | `OwnsEveryLiveExecution`, `RoutedIsCurrent`, `AdmissionIsolation`, `CompleteHandover`, `BreakerNeverTrips`, `CleanStopOwnsNothing`, `AnsweredWhenConverged`, `EveryWaitEnds` |
| `delivery_single` | one message, two attempts, three faults, three controls, one rejoin | `ImplementsSettlement`, `NoReplayAfterSuccess`, `DecisionKept`, `BudgetExact`, `LatestControlDecides`, `EveryMessageDisposed` |
| `delivery_batch` | two messages in one turn, one attempt, two faults, one control, one rejoin | `BudgetExact` |
| `selection_scan` | four messages, pages and turns of two | `NothingOvertaken`, `EmptyMeansSettled` |
| `scheduler` | three scenarios of two messages | `LocalOrder`, `NeverDropsRunnable`, `OrdinaryWaits` |
| `scheduler_live` | eight scenarios of one or two messages | `EveryInputRun`, `StopStands`, `PassEnds`, `ControlOffered` |
| `subscriptions` | one room, one agent topic, two callers, two sessions, two reconnects | `NoOrphanTopic`, `AmbiguousIsBlocked` |
| `presence` | one room, two starts, two membership changes, one fault, one reconnect, a queue of two | `AnnouncedOnce`, `Converged`, `StopUnsubscribes`, `CallsComplete` |
| `link` | two sessions, two attempts, three controls, a queue of two | `LinkAgreesWithSession`, `VerdictOnce`, `ControlsInOrder`, `CallsEnd` |
| `controls` | two rooms, three ids, a window of two, three deliveries | `UnreachedIsNotSeen`, `NoReplayWithinWindow` |
| `retention` | two workers, three calls, one fault, two steps per budget | `TransitionsSerialized`, `HandleIsOwned`, `WaitsAreReal`, `EveryoneGetsOn` |
| `controls_fanout` | two rooms, one agent-wide signal | `FanOutReachesAll` (violated) |

Why the bounds are enough:

- *rooms*: rooms interact only through `stop()`, so one room with several admissions is
  where the races are; a hold limit below the number of arrivals makes eviction happen,
  and three steps per signal is the least budget the breaker argument needs.
- *delivery*: messages of a non-batching room are handled strictly one after the other
  and share no state, so one message exposes every race; three faults allow a lost
  acknowledgement, a refused retry and an unreadable probe in one history. A batch needs
  two members, the first accepted and the second not.
- *scheduler*: a scenario fixes which features meet. `Handover`: a thread reply the list
  omits, a participant event, a message the previous execution holds, a fault and a
  signal. `ControlAndHub`: a control behind a message, and a contact-hub turn.
  `Batches`: turns of two with a participant event and two faults. The live ones add a
  lost delivery, stop and play, and an adapter that fails for ever, and have a thread reply,
  a contact-hub turn and a batch each on its own. Pages of one row make
  every second message a page turn.
- *subscriptions*, *presence*: two callers on two keys meet on one key; each room has its
  own tickets, tasks and topics, and a queue of two overflows with the two changes and
  the reconnect that are possible.
- *link*: two sessions let what is left of the first reach the second; three controls put
  a second behind a running one and a third behind a cancelled one.
- *controls*: three ids against a window of two make a forgotten id possible. The ids are
  symmetric: no definition tells them apart.
- *retention*: two workers suffice for one in its body and one that settles, waits or
  disposes; the third call happens after either.

The comment above each property says what it means. In words, per run:

- `rooms`: a room owns each execution it built, routes only the current one and only once
  nothing is held behind it, hands each admission's events to it completely, in order and
  to no other, answers its waiters when it has converged and never before, and `stop()`
  returns.
- `delivery_*`: the lifecycle implements `Settlement`; a decided message is never run
  again; the retry budget counts only failures; the latest control decides; and in a room
  that stays joined and unpaused every message is disposed of.
- `scheduler*`, `selection_scan`: nothing runnable is dropped or overtaken, local events
  keep their place, ordinary input waits for owed writes and the deferred head, a stop is
  not undone by an older answer, every pass ends, every input is run, and a control on a
  later page is offered even when all else fails for ever.
- `subscriptions`, `presence`: no topic is leaked, no ambiguity forgotten; no admission ticket
  goes stale, and the announcements of a room account exactly for the roster, the leave under
  way and the leaves a `stop()` cut; at rest the roster is the platform's membership and
  subscribed, but for the rooms `Converged` names; a stopped presence is subscribed to no
  room but one whose leave it cut; `start()` and `stop()` return.
- `link`, `controls`: one verdict per session and no attempt after it; nothing of an ended
  session is read as the next one's, but for what a cut rollback left; controls apply one at a time and in order; a copy
  within the window changes nothing; only what reached a room is remembered.
- `retention`: transitions never overlap; no work runs on a handle that is being closed; no
  wait spins or is dropped; whoever waits for ever waits for work that runs for ever; and
  a disposal ends.

**controls_fanout** is the one run that expects a violation: `handle_control` awaits the
adapter for one room after the other, so one that raises ends the fan-out, and the id is
already recorded (`runtime/runtime.py:361` against its docstring at 339).

### Fairness and why the code justifies it

- *rooms*: weak fairness of each room's step task and done-callback (the event loop runs
  what is ready; the awaited `start`, `on_event`, `stop` and release return or raise, which
  is the contract of an Execution) and of `stop()`'s own steps.
- *delivery*: weak fairness of the coroutine (requests are answered or time out), of the
  handler (it ends, or `max_cycle_seconds` ends it), of the observer (bounded by the
  grace), of the timer that lifts the backoff, and of offering each runnable message and
  retrying each owed write, which is what the scheduler's periodic pass does.
- *scheduler*: whenever the coroutine is `Ready` (suspended in something that answers, or
  waiting with something to do) it or the read it awaits eventually makes a step; the
  resync timer fires; the previous execution lets go of its claims; a delivery no list
  shows reaches the room. Nothing else: a lost delivery is never promised.
- *presence*: the tasks progress, the wire answers or refuses, a dropped transport is
  re-established or its calls fail, and the reconnect hook runs. `Progress` is fair as a
  whole: its steps between two environment events are finite.
- *link*: ready tasks run, phoenix decides a close that happened, a cancelled control task
  unwinds. A join, a leave and an exit are bounded by the client's own timeouts, and
  phoenix's `__aenter__` is taken to return or raise.
- *retention*: a release answers, and so does a cancelled acquire; an acquire that is not
  cancelled may hang. Work ends by itself unless it is owned work that disposal may
  cancel, which may go on for ever.

No fairness is assumed of joins, leaves, events, signals, reconnects, deletions or faults.
They are finite because they are bounded: the liveness properties assert what happens
once they cease.

### Where the code and its words part

Met while modelling; each is the violation run or an exception that a property names, so
that the property holds of what the code does.

- Fan-out cut short by a failing adapter: `controls_fanout`.
- `runtime/presence.py:205`, docstring 194: `stop()` "unsubscribes from all rooms". A reconcile
  takes its removed rooms out of the roster before it leaves them; a `stop()` that cancels the
  consumer in between drops those leaves, and its own loop no longer finds the rooms: they stay
  subscribed and `on_room_left` is not called. `StopUnsubscribes` names exactly these rooms, and
  `AnnouncedOnce` counts them (`missed`).
- `runtime/presence.py:328`, and `src/README.md:816`: the SDK "reconnects and resubscribes to
  active rooms". A room whose rejoin the server refused is retired by the subscriptions and
  stays admitted in the roster; the reconcile takes it for one to resync and does not join it
  again. `Converged` names it (`rejected`) until it is joined again.
- `AgentRuntime.stop()` (`runtime/runtime.py:253`, docstring 236-237: False "if any had to be
  cancelled"): a second room whose start finishes while the first is awaited is retired by
  force and forgotten, and `destroy()` answers True for the now unknown room.
- A shutdown that cancels the loop while an interrupted handler drains
  (`runtime/execution.py:1502`): no intent is stored, and the message is run again after a
  rejoin, although `delivery.py:523` puts INTERRUPT before shutdown. `LatestControlDecides`
  is therefore about turns that end in a live room.
- `runtime/scheduler.py:612`: the gate on owed writes is evaluated before the page is awaited
  and not again after it; `OrdinaryWaits` names the writes that became owed in between
  (`s.late`).
- `runtime/scheduler.py:753`: an original inferred absent is released while its claim is free.
  `is_gone` says so itself (`delivery.py:234-235`): "restored access between requests can retire
  an original that still exists". A listed message comes back with the next scan; a thread
  reply is lost until it is redelivered. `NeverDropsRunnable` and `EveryInputRun` name it
  (`absent`).
- `runtime/presence.py:508-514` and `tests/runtime/test_presence.py:506` say that an admission
  ticket can go stale, through a `stop()` that clears the roster before the consumer task
  exists. The test calls `roster.clear()` itself; `start()` and `stop()` now share
  `_lifecycle_lock`, and `stop()` and a leave await the tasks they cancel, so no ticket goes
  stale: the first conjunct of `AnnouncedOnce`, and the branch at 539-546 is never taken.
- `runtime/presence.py:602`: a re-join that wakes between a reconcile's roster update and the
  leave it decided announces the room a second time. `AnnouncedOnce` counts it: the account is
  then two.
- `runtime/presence.py:593`, docstring 526-527: "A join that fails (not a stale ticket) is
  retried in the background". It is not while an earlier re-join task of the room is still in
  `_join_retries`: a re-join that succeeded and awaits its `on_room_joined`, a reconcile
  that drops the room without cancelling it, and a second admission whose join fails leave
  the room without a re-join. `gaveUp` includes such a room; the proof of `Converged` is
  where the case showed.
- `platform/link.py:236`: the comment at 223-227 has a cancelled `connect()` close the half-opened
  client. The exit itself can be cancelled or fail: the client stays, and the drop at 239-240
  is skipped, so the next session's reader finds the ended one's verdict. The flag `accepted`
  (link.py:219) is set only when `__aenter__` has returned, the session accepts earlier
  (`session_decider.py:157`): a cancellation in between skips the drop too, although the
  comment says that only an accepted session can have queued events. `LinkAgreesWithSession`
  names these sessions (`leftover.unswept`).
- `platform/link.py:470`: a control task that disconnect() has cancelled may still be unwinding
  beside the next one; `:495`: a verdict may be dropped by a full event queue, and the host
  then learns it from the link's state only.
- `runtime/control.py:45`: a copy does not refresh its id, so the window is of the last
  recorded ids, not of the last seen ones; `NoReplayWithinWindow` says exactly that.

## 4. Proofs

Every proof holds for all values of the constants that satisfy the named assumptions of the
module. Each has the same shape: a property is seldom inductive, so an inductive invariant is
defined at the end of the component's module (for `Scheduler` and `SelectionScan` in the proof
module), checked with TLC, and proved with one lemma per action under one lemma per helper;
the property then follows from it. Every invariant and every action property of a passing
run is proved.

**RoomExecutionsProof** assumes `MaxSteps >= 3`, which the breaker argument needs (start,
retire and a failing step between two signals) and the code's constant satisfies. It proves
`TypeOK`, `OwnsEveryLiveExecution`, `RoutedIsCurrent`, `AdmissionIsolation` and
`BreakerNeverTrips` from `IInv`: `Shape` ties a room's state to where its step task and its
done-callback stand; `Served`, that a routed execution is the room's own; `Isolated`, that
everything held, in a batch or already given belongs to the room's current epoch; `Budget`
bounds from below the steps left by what the state still needs; `Withdrawn`, that nothing is
wanted once the table stopped accepting. Two ledgers stand on it (`LedgersInductive`).
`HandoverInv` numbers an admission's events: what the execution was given, its batch and the
held queue concatenate to the arrivals, unless a loss was logged; this gives
`CompleteHandover`. `StopInv` follows what `stop()` waits for: a step in flight keeps its
convergence open, and a room that answered without error has left the table; this gives
`CleanStopOwnsNothing` and the action property `AnsweredWhenConverged`.

**DeliveryProof** proves, batching or not, `TypeOK`, `HonestStatus`, `DecisionKept` and the
action properties `NoReplayAfterSuccess` and `IntentFrozen` from `IInv`. `Ledger(m)` relates the
pending write, the platform's status, the remembered completions and the retained originals
of one message: a decided message that owes nothing is remembered as completed or is not
retained, which is why no `Dispatch` offers it, also after a rejoin dropped the completions.
`TurnFits` says what the suspended coroutine may rely on: until it decides, its members owe
nothing and are undecided; its confirmed originals are processing or gone; each write its
loop has left is still owed; and a claim belongs to the running attempt. `AttemptInv` is
inductive beside it: `Budget` equates the charges of an undecided message with its failures,
plus one while an attempt that has not decided holds a charge (`OpenCharge`), and says that a
message without budget is not offered (`Spent`); `ChargesFit` says which members are charged
at each await; `SignalFits` that the scope holds the latest control and a decided scope
obeyed it. From it follow `BudgetExact` and `LatestControlDecides`. The module also proves
`Spec => ImplementsSettlement`: `Ledger` and `TurnFits` supply the guards of the abstract
actions, and one lemma per action says which abstract action it implements or that it
stutters.

Of the ledger itself it proves that a success is kept (`Settled!Kept`), from `SInv`, which adds
what is known of an admitted message; by the refinement that holds of every run of the
lifecycle (`SuccessKept`).

**ControlsProof**: `NoReplayWithinWindow` and `UnreachedIsNotSeen`, from `SeenIsRecent` (the
remembered ids are the newest end of what was recorded, as much of it as the window holds)
and `HookFits`.

**PresenceProof** is about both modules. Of `Subscriptions`: `NoOrphanTopic` and
`AmbiguousIsBlocked` from `SubInv`, for any number of callers on the same keys. `SessionsFresh`: a client's number is never used again.
`TicketsCurrent`: a ticket is live exactly while its operation runs in its own session, and
is the only one of its key. `HoldingsKnown`: what the transport may hold of a key at each
point of the operation that works on it. `BlockedKeys`: what the reconnect hook drains, never
a key that is being joined.

Of `Presence` it assumes what that module does (one caller per key, `agent_rooms` the one agent
channel, at least one re-join delay). Every step of the presence is a step of the link or
leaves it alone, so `Presence` implements `SubSpec` (`PresenceRefinesLink`) and inherits
`NoOrphanTopic`. Beside `SubInv`, `PresenceInv` is inductive: `PhaseFits` and `OwnersFit` say
which coroutine may hold an admission or run a callback in each phase of `start()`/`stop()`;
`RetryFits` why a re-join task ends with its room's leave; `ClaimFits` that a room is claimed
exactly while an admission or a reconcile holds its ticket; `AnnounceFits` equates the count of
announcements with the roster, the leave under way and the leaves a `stop()` cut, and says that
a room being left is not joined again unless its re-join outran the leave; `TrackFits` ties the roster to the
channel, so that a joined channel has a room of the roster, a leave or an admission that answers
for it, unless a leave was cut; `QueueFits` that the last queued push of a room tells its membership; `MemberFits`
that a room with no push on its way is at its membership or on its way there. From it follow
`AnnouncedOnce`, `StopUnsubscribes` and `Converged`, but for the rooms the latter two name.

**LinkProof**: `LinkAgreesWithSession`, `ControlsInOrder` and the action property `VerdictOnce` from
`LinkInv`. `VerdictFits`: after a verdict the core answers dead, and one report is made.
`CallsFit`: what `connect()` and `disconnect()` rely on at each await. `QueueOwn`: an event in the
queue is of the session being opened or held, or of one whose rollback was cut before the drop
(`leftover.unswept`). `LaneFits`, `AppliedFits`: a control
whose predecessor is done has only cancelled ones before it, and what was applied came
before what waits.

**RetentionProof**: `TransitionsSerialized`, `HandleIsOwned` and `WaitsAreReal` from `RetentionInv`,
whose parts are predicates of the room's record: `Places` (leases follow the points of
`use()`), `Flights` (one transition, in its state), `Handles` (what the state says of the
handle), `Ends` (how far disposal is), `Pending`, `Signals` and `Waits`. `_schedule` restores
`Signals` and the end of a transition restores `Flights`; a worker's own step begins in a room
that fits but for that worker (`FitsBut`).

**SelectionProof** says what the operators of `Selection` compute for every input. The
library's induction theorems are out of the provers' reach, so induction is by least
counterexample: a set of naturals that is not empty has a least member (`LeastNatural`), hence
a set that holds 0 and the successors of its members holds all of `0..n` (`Inductive`), and a
recursive function on `0..n` exists and is the one its equation says (`RecursionDefined`).
`InOrderLists` says that `InOrder` lists a finite set once and in order, `MergeLists` the same of
`merge`, `KeepContents` and `KeepOrder` what a filtered sequence holds. `Covers` is the invariant
of `select_prefix`'s walk: what it has passed is settled or selected, unless it ended at a
candidate the read does not reach. It gives `PrefixOvertakesNothing` for any candidates, page
reach, cap and resumed set; `Batchable` is what one turn may hold. For the scan, `ScanInv`
adds that everything up to the cursor is settled: a page holds the first listed messages
beyond it (`RowsFirst`), so a known message is a candidate or lies beyond all rows, and then
no retained candidate behind it is reached. That gives `NothingOvertaken` and
`EmptyMeansSettled` for any number of messages, page size and cap (`ScanAssumption`: all positive).

**SchedulerProof** proves `LocalOrder`, `NeverDropsRunnable` and the action properties
`StopStands` and `OrdinaryWaits` for any scenarios that satisfy `ScenariosAssumption`, from
`SchedulerInv`. `Sound`: the line and the queue hold events, a delivery is in the line once.
`Awaiting`: what the coroutine relies on when it resumes, by await: an ordinary turn has no
local event before its members in the line; a page asked for ordinary input was asked when
no write was owed (`late` names what became owed since) and when no deferred input had to be
waited for; a pass that goes round again waits, or need not. `NeverDropsRunnable` is part of the
invariant as it stands (for the messages of `Entrusted`; a release that follows ABSENT takes out
only messages that leave `Entrusted` in the same step), and `GateFits` says that an unoutdated gate answer in a stopped room
was given after the stop. A step of the coroutine is a chain of operators on one record, so
the proof follows the chain: `Only` names the fields an operator touches, `Quiet` is what a
step may do before it ends, `Stepped` and `Asked` are how it may end, and every operator of the
chain has one lemma in those terms; `Fits` is then what an action does.

The proof corrected `OrdinaryWaits`. Its earlier form, that ordinary input of a live pass always
waits for deferred input, is not what the code guarantees: `priority_step` clears
`ordinary_held` when a control has advanced (`scheduler.py:832`), and the same pass may then
start ordinary input while the head is still deferred. The property names that case
(`relieved`).

Only model-checked: the liveness properties `EveryWaitEnds`, `EveryMessageDisposed`,
`EveryInputRun`, `PassEnds`, `ControlOffered`, `CallsComplete`, `CallsEnd` and `EveryoneGetsOn`, because
fairness and ENABLED are outside the prover's reach; and the violation
`controls_fanout`.

## 5. Not modelled, and why

- `adapters/`, `converters/`, `integrations/` (most of the repository's lines): bindings to third-party
  agent frameworks. To the runtime each is a handler, and `Delivery` lets a handler end in
  every way one can; what they do inside depends on libraries that are not in the repository.
- `runtime/tools/`, prompts, formatting, configuration, logging: request wrappers and text.
- `band-bridge/`, `packages/`, `docker/`: deployables around the SDK.
- `runtime/working_state.py`, `activity.py`: only an indicator depends on them.
- `agent.py`, `platform_runtime.py`, startup and shutdown: locks around what `RoomExecutions`,
  `Presence` and `Link` already interleave, signal handlers and a lock file.
- `runtime/oneshot.py`: one event per process through the same claim, delivery and drain.
- `core/turn_lifecycle.py`: `Delivery` uses only that a terminated handler ends or is retained.
- A process crash: the claim registry is in memory and the code gives no guarantee across it.

## 6. Plan

1. `TurnTasks`: TurnTask's single grace and BackendTurns.
2. `Presence` composed with `RoomExecutions`, whose admissions its callbacks drive.
