--------------------------- MODULE RoomExecutions ---------------------------
(***************************************************************************)
(* Each room's owned execution: admission, routing and retirement          *)
(* (runtime/rooms.py), driven by the presence callbacks, start() and       *)
(* stop() of AgentRuntime (runtime/runtime.py).                            *)
(*                                                                         *)
(* The state of a room is one record, and the synchronous methods of       *)
(* RoomExecutions are operators from records to records, composed the way  *)
(* the code calls them.  An action is what one asyncio callback or one     *)
(* task segment between two awaits does.  Fields above the line in         *)
(* FreshRoom are the code's; `task', `batch', ... are the locals of the    *)
(* step task; the last group only records history for the properties.      *)
(***************************************************************************)
EXTENDS Naturals, Sequences, FiniteSets

CONSTANTS
    Rooms,          \* room ids the platform may announce
    MaxSteps,       \* MAX_STEPS_PER_SIGNAL
    MaxHeld,        \* MAX_HELD_EVENTS: the bound of a room's held queue
    MaxDelivery,    \* MAX_DELIVERY_STEPS: events one start hands over
    MaxEpoch,       \* bound: withdrawals of one room
    MaxArrivals,    \* bound: events of one admission
    MaxFaults       \* bound: raising builds, starts, stops and releases

ASSUME StepsAssumption == MaxSteps \in Nat /\ MaxSteps >= 3
ASSUME HeldAssumption == MaxHeld \in Nat \ {0} /\ MaxDelivery \in Nat \ {0}
ASSUME BoundAssumption == /\ MaxEpoch \in Nat
                          /\ MaxArrivals \in Nat
                          /\ MaxFaults \in Nat

VARIABLES
    room,       \* Rooms -> the room's record
    accepting,  \* RoomExecutions.accepting
    mode,       \* where AgentRuntime's start()/stop() stands
    todo,       \* rooms stop() still has to destroy
    waiting,    \* the room whose destroy() stop() awaits, in a set of at most one
    clean,      \* no destroy() of the current stop() has failed
    stopGraceful, \* AgentRuntime._stop_graceful
    faults      \* faults injected so far

vars == <<room, accepting, mode, todo, waiting, clean, stopGraceful, faults>>

None == 0       \* executions are numbered from 1 in the order they are built

(***************************************************************************)
(* The Room dataclass.                                                     *)
(***************************************************************************)
RoomStates == {"IDLE", "STARTING", "SERVING", "RETIRING"}

\* A room not in the table, keeping only its history.  `waiter' is the future
\* stop() awaits; `done' is the pending done-callback of the last step task,
\* "stale" once its Room object has left the table.
FreshRoom(rm) ==
    [known |-> FALSE, wanted |-> FALSE, generation |-> 0, state |-> "IDLE",
     execution |-> None, stepsLeft |-> MaxSteps, convergence |-> "none",
     held |-> <<>>, routed |-> rm.routed, waiter |-> rm.waiter,
     done |-> IF rm.done = "none" THEN "none" ELSE "stale",
     task |-> "none", startGen |-> 0, batch |-> <<>>, handed |-> 0,
     verdict |-> "none",
     builds |-> rm.builds, live |-> rm.live, epoch |-> rm.epoch + 1,
     execEpoch |-> rm.execEpoch, inbox |-> rm.inbox, arrivals |-> 0,
     lossy |-> FALSE, tripped |-> rm.tripped]

NoRoom ==
    [known |-> FALSE, wanted |-> FALSE, generation |-> 0, state |-> "IDLE",
     execution |-> None, stepsLeft |-> MaxSteps, convergence |-> "none",
     held |-> <<>>, routed |-> None, waiter |-> "none", done |-> "none",
     task |-> "none", startGen |-> 0, batch |-> <<>>, handed |-> 0,
     verdict |-> "none",
     builds |-> 0, live |-> {}, epoch |-> 0, execEpoch |-> 0,
     inbox |-> <<>>, arrivals |-> 0, lossy |-> FALSE, tripped |-> FALSE]

Serving(rm) == rm.execution # None /\ rm.routed = rm.execution

Admits(rm, acc) == rm.wanted /\ acc

\* Mutant of Current: a rejoin revalidates the start a leave overtook.
CurrentIgnoresGeneration(rm, acc) == Admits(rm, acc)

\* The intent a start began under still stands.
Current(rm, acc) == Admits(rm, acc) /\ rm.generation = rm.startGen

(***************************************************************************)
(* Convergence: `convergence' is "none", or the graceful flag of the       *)
(* unfinished attempt.                                                     *)
(***************************************************************************)
Answer(rm, result) ==
    IF rm.convergence = "none" THEN rm
    ELSE [rm EXCEPT !.convergence = "none",
                    !.waiter = IF @ = "waiting" THEN result ELSE @]

Settle(rm) == Answer(rm, rm.convergence)

\* Mutant of Fail: a failed step answers its waiters like a finished one.
FailSettles(rm) == Settle(rm)

Fail(rm) == Answer(rm, "error")

\* `self._rooms.get(room_id) is room'
InTable(rm) == rm.done # "stale"

Forget(rm) == IF InTable(rm) THEN FreshRoom(Settle(rm)) ELSE Settle(rm)

Step(rm, state, task) ==
    LET opened == [rm EXCEPT !.convergence = IF @ = "none" THEN "graceful" ELSE @]
    IN  IF rm.stepsLeft = 0
        THEN [Fail(opened) EXCEPT !.tripped = TRUE]
        ELSE [opened EXCEPT !.stepsLeft = @ - 1, !.state = state, !.task = task]

\* Mutants of Advance: a room that still owns a failed execution starts another;
\* waiters are answered while a step is in flight.
AdvanceSkipsRetire(rm, acc) ==
    CASE rm.state \in {"STARTING", "RETIRING"} -> rm
      [] rm.state = "SERVING" /\ Admits(rm, acc) -> Settle(rm)
      [] rm.state = "IDLE" /\ Admits(rm, acc) -> Step(rm, "STARTING", "start")
      [] rm.state \in {"IDLE", "SERVING"} /\ ~Admits(rm, acc)
            /\ rm.execution = None -> Forget(rm)
      [] OTHER -> Step([rm EXCEPT !.routed = None], "RETIRING", "retire")

AdvanceSettlesEarly(rm, acc) ==
    CASE rm.state \in {"STARTING", "RETIRING", "SERVING"} /\ Admits(rm, acc) -> Settle(rm)
      [] rm.state \in {"STARTING", "RETIRING"} /\ ~Admits(rm, acc) -> rm
      [] rm.state \in {"IDLE", "SERVING"} /\ ~Admits(rm, acc)
            /\ rm.execution = None -> Forget(rm)
      [] rm.state = "IDLE" /\ Admits(rm, acc) /\ rm.execution = None ->
            Step(rm, "STARTING", "start")
      [] OTHER -> Step([rm EXCEPT !.routed = None], "RETIRING", "retire")

\* Take the one step the room's state and intent call for, if any.
Advance(rm, acc) ==
    CASE rm.state \in {"STARTING", "RETIRING"} -> rm
      [] rm.state = "SERVING" /\ Admits(rm, acc) -> Settle(rm)
      [] rm.state \in {"IDLE", "SERVING"} /\ ~Admits(rm, acc)
            /\ rm.execution = None -> Forget(rm)
      [] rm.state = "IDLE" /\ Admits(rm, acc) /\ rm.execution = None ->
            Step(rm, "STARTING", "start")
      [] OTHER -> Step([rm EXCEPT !.routed = None], "RETIRING", "retire")

\* Mutant of Signal: a new signal does not renew the room's steps.
SignalKeepsSteps(rm, acc) == Advance(rm, acc)

Signal(rm, acc) == Advance([rm EXCEPT !.stepsLeft = MaxSteps], acc)

\* Mutant of Fence: held events survive the withdrawal.
FenceKeepsHeld(rm) ==
    [rm EXCEPT !.routed = None, !.wanted = FALSE, !.generation = @ + 1,
               !.epoch = @ + 1, !.arrivals = 0, !.lossy = FALSE]

\* Withdraw membership: no admission completes and no work routes.
Fence(rm) ==
    [rm EXCEPT !.routed = None, !.wanted = FALSE, !.generation = @ + 1,
               !.held = <<>>,
               !.epoch = @ + 1, !.arrivals = 0, !.lossy = FALSE]

RequestAdmission(rm, acc) ==
    Signal([rm EXCEPT !.known = TRUE, !.wanted = TRUE], acc)

\* An event as the properties see it: the admission it arrived under and its
\* place in that admission.
NewEvent(rm) == [adm |-> rm.epoch, n |-> rm.arrivals + 1]

\* deque(maxlen = MaxHeld): a full queue drops its oldest event.
Push(held, e) ==
    IF Len(held) = MaxHeld THEN Append(Tail(held), e) ELSE Append(held, e)

Hold(rm, acc) ==
    Signal([rm EXCEPT !.held = Push(@, NewEvent(rm)),
                      !.arrivals = @ + 1,
                      !.lossy = @ \/ Len(rm.held) = MaxHeld], acc)

GiveRouted(rm) ==
    [rm EXCEPT !.inbox = Append(@, NewEvent(rm)), !.arrivals = @ + 1]

(***************************************************************************)
(* The step tasks: _start with _deliver_held, and _retire.                 *)
(***************************************************************************)
Ended(rm) == [rm EXCEPT !.task = "none", !.done = "ok"]

Raised(rm) ==
    [rm EXCEPT !.task = "none", !.done = "failed", !.batch = <<>>,
               !.lossy = @ \/ rm.inbox # <<>> \/ rm.batch # <<>>]

FinishStart(rm) ==
    Ended([rm EXCEPT !.state = IF Serving(rm) THEN "SERVING" ELSE "IDLE"])

\* Routing follows the last check of the admission with no await between.
Route(rm, acc) ==
    IF Current(rm, acc)
    THEN [rm EXCEPT !.routed = rm.execution, !.task = "resyncing"]
    ELSE FinishStart(rm)

Build(rm) ==
    [rm EXCEPT !.startGen = rm.generation, !.execution = rm.builds + 1,
               !.handed = 0, !.task = "starting", !.verdict = "none",
               !.builds = @ + 1, !.live = @ \cup {rm.builds + 1},
               !.execEpoch = rm.epoch, !.inbox = <<>>]

DropHeld(rm) ==
    [rm EXCEPT !.batch = <<>>, !.held = <<>>,
               !.lossy = @ \/ rm.batch # <<>> \/ rm.held # <<>>]

\* Mutant of HandOver: the queue is cleared with every event, not with the batch.
HandOverClearsHeld(rm, batch) ==
    [rm EXCEPT !.inbox = Append(@, Head(batch)), !.batch = Tail(batch),
               !.held = <<>>, !.handed = @ + 1, !.task = "delivering"]

HandOver(rm, batch) ==
    [rm EXCEPT !.inbox = Append(@, Head(batch)), !.batch = Tail(batch),
               !.handed = @ + 1, !.task = "delivering"]

\* One segment of _deliver_held: up to the next `await on_event', or through
\* its end into the rest of _start.
DeliverHeld(rm, acc) ==
    CASE rm.batch = <<>> /\ (rm.held = <<>> \/ ~Current(rm, acc)) -> Route(rm, acc)
      [] rm.batch = <<>> /\ rm.held # <<>> /\ Current(rm, acc)
            /\ rm.handed < MaxDelivery ->
            HandOver([rm EXCEPT !.held = <<>>], rm.held)
      [] rm.batch # <<>> /\ ~Current(rm, acc) ->
            Route([rm EXCEPT !.batch = <<>>], acc)
      [] rm.batch # <<>> /\ Current(rm, acc) /\ rm.handed < MaxDelivery ->
            HandOver(rm, rm.batch)
      [] OTHER -> Route(DropHeld(rm), acc)

Retired(rm) ==
    Ended([rm EXCEPT !.execution = None, !.state = "IDLE",
                     !.live = @ \ {rm.execution},
                     !.convergence =
                        IF @ = "graceful" THEN rm.verdict ELSE @])

\* Mutant of StepDone: a failed step resets the room but answers nobody.
StepDoneSwallows(rm, acc) ==
    LET called == [rm EXCEPT !.done = "none"]
    IN  CASE rm.done = "ok" -> Advance(called, acc)
          [] rm.done = "failed" -> [called EXCEPT !.state = "IDLE"]
          [] rm.done = "stale" -> called

\* The done-callback of a step task.  For a Room object that has left the table
\* it is that object's own _forget, which finds the entry to be another one.
StepDone(rm, acc) ==
    LET called == [rm EXCEPT !.done = "none"]
        idle == [called EXCEPT !.state = "IDLE"]
    IN  CASE rm.done = "ok" -> Advance(called, acc)
          [] rm.done = "failed" /\ rm.state = "STARTING" /\ ~Admits(rm, acc) ->
                Advance(idle, acc)
          [] rm.done = "failed" /\ (rm.state # "STARTING" \/ Admits(rm, acc)) ->
                Fail(idle)
          [] rm.done = "stale" ->
                IF InTable(rm) THEN [FreshRoom(rm) EXCEPT !.done = "none"] ELSE called

----------------------------------------------------------------------------
Init ==
    /\ room = [r \in Rooms |-> NoRoom]
    /\ accepting = TRUE
    /\ mode = "created"
    /\ todo = {} /\ waiting = {}
    /\ clean = TRUE
    /\ stopGraceful = TRUE
    /\ faults = 0

Put(r, rm) == room' = [room EXCEPT ![r] = rm]

OwnerUnchanged ==
    UNCHANGED <<accepting, mode, todo, waiting, clean, stopGraceful>>

Fault == faults < MaxFaults /\ faults' = faults + 1

(***************************************************************************)
(* Presence callbacks.  The presence consumer runs until stop(), having    *)
(* destroyed every room, stops it; a cancelled stop() leaves it running.   *)
(***************************************************************************)
Listening ==
    mode \in {"starting", "running", "stopping", "cancelled", "disconnecting"}

OnRoomJoined(r) ==
    /\ Listening /\ accepting
    /\ room[r].epoch <= MaxEpoch
    /\ Put(r, RequestAdmission(room[r], accepting))
    /\ OwnerUnchanged /\ UNCHANGED faults

OnRoomLeft(r) ==
    /\ Listening
    /\ room[r].known /\ room[r].wanted
    /\ room[r].epoch < MaxEpoch
    /\ Put(r, Signal(Fence(room[r]), accepting))
    /\ OwnerUnchanged /\ UNCHANGED faults

OnRoomEvent(r) ==
    /\ Listening
    /\ room[r].arrivals < MaxArrivals
    /\ \/ /\ room[r].routed # None
          /\ Put(r, GiveRouted(room[r]))
       \/ /\ room[r].routed = None
          /\ room[r].known /\ room[r].wanted
          /\ Put(r, Hold(room[r], accepting))
    /\ OwnerUnchanged /\ UNCHANGED faults

\* converge_unserved(); the resync of served rooms does not change this state.
OnReconnected ==
    /\ Listening
    /\ room' = [r \in Rooms |->
                  IF room[r].known /\ ~Serving(room[r])
                  THEN Signal(room[r], accepting) ELSE room[r]]
    /\ OwnerUnchanged /\ UNCHANGED faults

(***************************************************************************)
(* Task segments and done-callbacks.  A done-callback is already on the    *)
(* event loop's queue when anything after it spawns the next task, so a    *)
(* spawned task runs only once no callback of its room is pending.         *)
(***************************************************************************)
BeginStart(r) ==
    /\ room[r].task = "start" /\ room[r].done = "none"
    /\ \/ Put(r, Build(room[r])) /\ UNCHANGED faults
       \/ Put(r, Raised(room[r])) /\ Fault
    /\ OwnerUnchanged

StartReturns(r) ==
    /\ room[r].task = "starting"
    /\ \/ Put(r, DeliverHeld(room[r], accepting)) /\ UNCHANGED faults
       \/ Put(r, Raised(room[r])) /\ Fault
    /\ OwnerUnchanged

OnEventReturns(r) ==
    /\ room[r].task = "delivering"
    /\ \/ Put(r, DeliverHeld(room[r], accepting)) /\ UNCHANGED faults
       \/ Put(r, Raised(room[r])) /\ Fault
    /\ OwnerUnchanged

ResyncReturns(r) ==
    /\ room[r].task = "resyncing"
    /\ Put(r, FinishStart(room[r]))
    /\ OwnerUnchanged /\ UNCHANGED faults

BeginRetire(r) ==
    /\ room[r].task = "retire" /\ room[r].done = "none"
    /\ Put(r, [room[r] EXCEPT !.task = "stopping"])
    /\ OwnerUnchanged /\ UNCHANGED faults

\* An execution remembers the verdict of its first stop; a retried stop()
\* returns it again.
StopReturns(r) ==
    /\ room[r].task = "stopping"
    /\ \/ /\ \E v \in {"graceful", "forced"} :
                /\ room[r].verdict \in {"none", v}
                /\ Put(r, [room[r] EXCEPT !.task = "releasing", !.verdict = v])
          /\ UNCHANGED faults
       \/ Put(r, Raised(room[r])) /\ Fault
    /\ OwnerUnchanged

ReleaseReturns(r) ==
    /\ room[r].task = "releasing"
    /\ \/ Put(r, Retired(room[r])) /\ UNCHANGED faults
       \/ Put(r, Raised(room[r])) /\ Fault
    /\ UNCHANGED <<accepting, mode, todo, waiting, clean, stopGraceful>>

OnStepDone(r) ==
    /\ room[r].done # "none"
    /\ Put(r, StepDone(room[r], accepting))
    /\ OwnerUnchanged /\ UNCHANGED faults

(***************************************************************************)
(* AgentRuntime.start() and stop().                                        *)
(***************************************************************************)
Start ==
    /\ mode \in {"created", "stopped"}
    /\ \A r \in Rooms : room[r].done = "none"
    /\ mode' = "starting" /\ accepting' = TRUE
    /\ stopGraceful' = TRUE
    /\ UNCHANGED <<room, todo, waiting, clean, faults>>

StartEnds ==
    /\ mode = "starting"
    /\ \/ mode' = "running" /\ UNCHANGED <<accepting, faults>>
       \/ mode' = "failed" /\ accepting' = FALSE /\ Fault
    /\ UNCHANGED <<room, todo, waiting, clean, stopGraceful>>

\* close(), and the snapshot of the rooms to destroy.
Stop ==
    /\ mode \in {"running", "failed", "cancelled", "stopped"}
    /\ (mode = "stopped" => ~clean)
    /\ mode' = "stopping" /\ accepting' = FALSE
    /\ todo' = {r \in Rooms : room[r].known}
    /\ clean' = TRUE
    /\ UNCHANGED <<room, waiting, stopGraceful, faults>>

\* destroy(): the room is fenced, and its convergence, if any, is awaited.
Destroy(r) ==
    /\ mode = "stopping" /\ waiting = {} /\ r \in todo
    /\ todo' = todo \ {r}
    /\ LET rm == Signal([Fence(room[r]) EXCEPT !.waiter = "waiting"], accepting)
       IN  IF room[r].known /\ rm.waiter = "waiting" /\ rm.convergence # "none"
           THEN Put(r, rm) /\ waiting' = {r}
           ELSE /\ Put(r, IF room[r].known THEN [rm EXCEPT !.waiter = "none"]
                                            ELSE room[r])
                /\ UNCHANGED waiting
    /\ UNCHANGED <<accepting, mode, clean, stopGraceful, faults>>

DestroyReturns(r) ==
    /\ r \in waiting /\ room[r].waiter \in {"graceful", "forced", "error"}
    /\ waiting' = {}
    /\ clean' = (clean /\ room[r].waiter # "error")
    /\ Put(r, [room[r] EXCEPT !.waiter = "none"])
    /\ stopGraceful' = (stopGraceful /\ room[r].waiter # "forced")
    /\ UNCHANGED <<accepting, mode, todo, faults>>

StopEnds ==
    /\ mode = "stopping" /\ todo = {} /\ waiting = {}
    /\ mode' = "disconnecting"
    /\ UNCHANGED <<room, accepting, todo, waiting, clean, stopGraceful, faults>>

\* presence.stop() and link.disconnect() return.
Disconnected ==
    /\ mode = "disconnecting"
    /\ mode' = "stopped"
    /\ UNCHANGED <<room, accepting, todo, waiting, clean, stopGraceful, faults>>

\* stop() is cancelled while it awaits a room; its owner retries it.
StopCancelled(r) ==
    /\ r \in waiting /\ Fault
    /\ mode' = "cancelled" /\ todo' = {} /\ waiting' = {} /\ clean' = FALSE
    /\ Put(r, [room[r] EXCEPT !.waiter = "none"])
    /\ UNCHANGED <<accepting, stopGraceful>>

\* stop() does not suspend between two rooms: it runs on until it awaits one.
Suspended == mode = "stopping" => waiting # {}

Presence ==
    /\ Suspended
    /\ \/ \E r \in Rooms : OnRoomJoined(r) \/ OnRoomLeft(r) \/ OnRoomEvent(r)
       \/ OnReconnected

StepTask(r) ==
    /\ Suspended
    /\ \/ BeginStart(r) \/ StartReturns(r) \/ OnEventReturns(r)
       \/ ResyncReturns(r)
       \/ BeginRetire(r) \/ StopReturns(r) \/ ReleaseReturns(r)
       \/ OnStepDone(r)

Owner ==
    \/ Start \/ StartEnds \/ Stop \/ StopEnds \/ Disconnected
    \/ \E r \in Rooms : Destroy(r) \/ DestroyReturns(r) \/ StopCancelled(r)

Next == Presence \/ Owner \/ \E r \in Rooms : StepTask(r)

Spec == Init /\ [][Next]_vars

\* Executions' start, on_event, stop and cleanup callbacks return or raise; the
\* event loop runs every callback; stop() keeps going through its rooms.
Fairness ==
    /\ \A r \in Rooms : WF_vars(StepTask(r))
    /\ \A r \in Rooms : WF_vars(Destroy(r)) /\ WF_vars(DestroyReturns(r))
    /\ WF_vars(StopEnds) /\ WF_vars(Disconnected)

FairSpec == Spec /\ Fairness

----------------------------------------------------------------------------
(***************************************************************************)
(* Properties.                                                             *)
(***************************************************************************)
Events == [adm : Nat, n : Nat]

RoomType ==
    [known : BOOLEAN, wanted : BOOLEAN, generation : Nat, state : RoomStates,
     execution : Nat, stepsLeft : 0..MaxSteps,
     convergence : {"none", "graceful", "forced"},
     held : Seq(Events), routed : Nat,
     waiter : {"none", "waiting", "graceful", "forced", "error"},
     done : {"none", "ok", "failed", "stale"},
     task : {"none", "start", "starting", "delivering", "resyncing",
             "retire", "stopping", "releasing"},
     startGen : Nat, batch : Seq(Events), handed : Nat,
     verdict : {"none", "graceful", "forced"},
     builds : Nat, live : SUBSET Nat, epoch : Nat, execEpoch : Nat,
     inbox : Seq(Events), arrivals : Nat, lossy : BOOLEAN, tripped : BOOLEAN]

TypeOK ==
    /\ room \in [Rooms -> RoomType]
    /\ accepting \in BOOLEAN
    /\ mode \in {"created", "starting", "running", "failed", "stopping",
                 "cancelled", "disconnecting", "stopped"}
    /\ todo \in SUBSET Rooms /\ waiting \in SUBSET Rooms
    /\ clean \in BOOLEAN /\ stopGraceful \in BOOLEAN
    /\ faults \in Nat

\* "Every execution, routed or not, stays owned here until its cleanup
\* succeeds": an execution that was built and not cleaned up is the one its
\* tracked room owns, so no room ever runs two and none is leaked.
OwnsEveryLiveExecution ==
    \A r \in Rooms :
        room[r].live = IF room[r].execution = None THEN {} ELSE {room[r].execution}

\* "Only routed receives work and control": a routed execution is the live one
\* its room owns, built under the membership that still stands, and live routing
\* begins only once the held queue and the batch being handed over are empty, so
\* that no event overtakes one that was held before it.
RoutedIsCurrent ==
    \A r \in Rooms :
        room[r].routed # None =>
            /\ room[r].known /\ room[r].wanted
            /\ room[r].routed = room[r].execution
            /\ room[r].execEpoch = room[r].epoch
            /\ room[r].held = <<>> /\ room[r].batch = <<>>

\* An execution never receives an event of another admission: not the tail of
\* a batch a leave overtook, nor an event held before a rejoin.
AdmissionIsolation ==
    \A r \in Rooms :
        room[r].execution # None =>
            \A i \in 1..Len(room[r].inbox) :
                room[r].inbox[i].adm = room[r].execEpoch

\* Once routed, an execution has received every event of its admission, once
\* and in arrival order, unless a loss was logged: a full queue, a flooded
\* start, or a failed start that had been handed events.
CompleteHandover ==
    \A r \in Rooms :
        room[r].routed # None /\ ~room[r].lossy =>
            /\ Len(room[r].inbox) = room[r].arrivals
            /\ \A i \in 1..Len(room[r].inbox) : room[r].inbox[i].n = i

\* The circuit breaker never trips: between two signals a room takes at most
\* MAX_STEPS_PER_SIGNAL steps (rooms.py and test_circuit_breaker.py: "Correct
\* transitions never exceed the budget").
BreakerNeverTrips == \A r \in Rooms : ~room[r].tripped

\* A stop() that raised nothing leaves no execution live and no room tracked.
CleanStopOwnsNothing ==
    mode \in {"disconnecting", "stopped"} /\ clean =>
        \A r \in Rooms : room[r].live = {} /\ ~room[r].known

\* A convergence ends only when the room matches its intent (serving, or gone)
\* or with a failure that leaves the execution owned for the next signal.
AnsweredWhenConverged ==
    [][\A r \in Rooms :
         /\ room[r].convergence # "none" /\ room'[r].convergence = "none"
         /\ ~room'[r].tripped
         => \/ room'[r].state = "SERVING" /\ room'[r].routed = room'[r].execution
            \/ ~room'[r].known /\ room'[r].live = {}
            \/ room[r].done = "failed" /\ room'[r].state = "IDLE"
                /\ room'[r].execution = room[r].execution]_vars

(***************************************************************************)
(* The inductive invariant behind the state invariants: how the fields of  *)
(* a room's record constrain one another (Shape), whose events it holds    *)
(* (Isolated), how many steps its signal still allows (Budget), and what   *)
(* stop() has already withdrawn (Withdrawn).                               *)
(***************************************************************************)
Starting == {"starting", "delivering", "resyncing"}
Stopping == {"stopping", "releasing"}

Shape(rm) ==
    /\ rm.live = IF rm.execution = None THEN {} ELSE {rm.execution}
    /\ rm.task = "start" => rm.state = "STARTING" /\ rm.execution = None
    /\ rm.task \in Starting =>
          rm.state = "STARTING" /\ rm.execution # None /\ rm.done = "none"
    /\ rm.task = "retire" => rm.state = "RETIRING"
    /\ rm.task \in Stopping => rm.state = "RETIRING" /\ rm.done = "none"
    /\ rm.state \in {"STARTING", "RETIRING"} /\ rm.task = "none" => rm.done = "failed"
    /\ rm.done = "failed" => rm.task = "none" /\ rm.state \in {"STARTING", "RETIRING"}
    /\ rm.done \in {"ok", "failed"} => rm.known
    /\ rm.done = "stale" => rm.execution = None
    /\ rm.state = "RETIRING" => rm.execution # None
    /\ rm.state = "SERVING" => rm.execution # None /\ (rm.wanted => Serving(rm))
    /\ ~rm.known => ~rm.wanted /\ rm.state = "IDLE" /\ rm.execution = None
    /\ rm.routed # None =>
          /\ rm.wanted /\ rm.known /\ rm.routed = rm.execution
          /\ rm.held = <<>>
          /\ rm.generation = rm.startGen
          /\ rm.state = "SERVING" \/ rm.task = "resyncing"
    /\ rm.task = "resyncing" /\ rm.generation = rm.startGen => rm.routed = rm.execution
    /\ rm.execution # None =>
          /\ rm.startGen <= rm.generation
          /\ rm.execEpoch + rm.generation = rm.epoch + rm.startGen
    /\ rm.task # "delivering" => rm.batch = <<>>

\* What holds once a signal has advanced the room: a fenced room is no longer
\* serving, and a room that re-entered the table before the old callback ran
\* has its start spawned.
Served(rm) ==
    /\ rm.state = "SERVING" => rm.wanted
    /\ rm.done = "stale" /\ rm.known => rm.task = "start"

AllOf(s, adm) == \A i \in 1..Len(s) : s[i].adm = adm

Isolated(rm) ==
    /\ AllOf(rm.held, rm.epoch)
    /\ AllOf(rm.batch, rm.execEpoch)
    /\ AllOf(rm.inbox, rm.execEpoch)

\* Enough steps are left for what _advance may still have to do before the
\* next signal.
Ready(rm, acc) ==
    /\ ~rm.tripped
    /\ rm.state = "STARTING" => rm.stepsLeft >= 1
    /\ rm.state = "STARTING" /\ rm.execution # None /\ rm.generation # rm.startGen =>
          rm.stepsLeft = MaxSteps
    /\ rm.state = "RETIRING" /\ Admits(rm, acc) => rm.stepsLeft >= 2
    /\ rm.state = "SERVING" => rm.stepsLeft >= 1
    /\ rm.state = "IDLE" /\ rm.execution # None =>
          rm.stepsLeft >= 1 /\ (Admits(rm, acc) => rm.stepsLeft >= 3)
    /\ rm.state = "IDLE" /\ rm.execution = None /\ Admits(rm, acc) => rm.stepsLeft >= 2

\* A room at rest needs no steps: only a signal moves it, and resets them.
Budget(rm, acc) ==
    /\ ~rm.tripped
    /\ rm.state # "IDLE" \/ rm.done = "ok" => Ready(rm, acc)

Withdrawn ==
    /\ waiting # {} => mode = "stopping"
    /\ mode \in {"stopping", "failed", "cancelled", "disconnecting", "stopped"} => ~accepting
    /\ mode = "created" => \A r \in Rooms : ~room[r].wanted
    /\ mode = "stopping" => \A r \in Rooms \ todo : ~room[r].wanted
    /\ mode \in {"disconnecting", "stopped"} => \A r \in Rooms : ~room[r].wanted

IInv ==
    /\ TypeOK
    /\ \A r \in Rooms :
          /\ Shape(room[r]) /\ Served(room[r]) /\ Isolated(room[r])
          /\ Budget(room[r], accepting)
    /\ Withdrawn

(***************************************************************************)
(* Two more inductive invariants, relative to the first.  HandoverInv      *)
(* accounts for the events of an admission: those the execution built      *)
(* under it was given, then its batch, then the held queue number the      *)
(* arrivals in order.  StopInv follows what stop() waits for: a step in    *)
(* flight keeps its convergence open, and a room that answered without an  *)
(* error has left the table.                                               *)
(***************************************************************************)
\* The execution was built under the admission that stands.
BuiltNow(rm) == rm.execution # None /\ rm.generation = rm.startGen

Handed(rm) == IF BuiltNow(rm) THEN Len(rm.inbox) + Len(rm.batch) ELSE 0

Numbered(s, k) == \A i \in 1..Len(s) : s[i].n = k + i

InOrder(rm) ==
    /\ BuiltNow(rm) => Numbered(rm.inbox, 0) /\ Numbered(rm.batch, Len(rm.inbox))
    /\ Numbered(rm.held, Handed(rm))
    /\ Handed(rm) + Len(rm.held) = rm.arrivals

\* Only a start that is still current hands events over without loss; one that
\* ended without serving had handed over nothing, or says so.
Accounted(rm, acc) ==
    /\ ~rm.wanted => rm.arrivals = 0 /\ rm.held = <<>> /\ Handed(rm) = 0
    /\ ~rm.lossy /\ (Admits(rm, acc) \/ rm.routed # None) => InOrder(rm)
    /\ ~rm.lossy /\ Admits(rm, acc) /\ rm.state # "SERVING" /\ rm.task \notin Starting =>
          Handed(rm) = 0

HandoverInv == \A r \in Rooms : Accounted(room[r], accepting)

Committed(rm) ==
    /\ rm.state \in {"STARTING", "RETIRING"} => rm.convergence # "none"
    /\ rm.task = "releasing" => rm.verdict # "none"

StopInv ==
    /\ \A r \in Rooms : Committed(room[r])
    /\ \A q, r \in waiting : q = r
    /\ \A r \in waiting :
          room[r].waiter \in {"graceful", "forced"} => ~room[r].known
    /\ mode = "stopping" /\ clean =>
          \A r \in Rooms \ (todo \cup waiting) : ~room[r].known
    /\ mode \in {"disconnecting", "stopped"} /\ clean =>
          \A r \in Rooms : ~room[r].known

\* Every waiter of a convergence is answered, and stop() gets through its rooms
\* whatever their executions do.
EveryWaitEnds ==
    /\ \A r \in Rooms : room[r].convergence # "none" ~> room[r].convergence = "none"
    /\ mode = "stopping" ~> mode \in {"stopped", "cancelled"}

=============================================================================
