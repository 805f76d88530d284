------------------------------ MODULE Retention ------------------------------
(***************************************************************************)
(* The residency of one room's provider handle: RetainedRoom               *)
(* (core/retention/room.py) under its RoomRetention owner (owner.py).       *)
(*                                                                         *)
(* Workers are the tasks that call use(), own(), wait_released() and        *)
(* dispose(); the transition, the disposal and the shutdown are tasks of    *)
(* their own.  What a task does between two awaits is one action, built     *)
(* from operators on the record t that have the names of the methods.       *)
(*                                                                         *)
(* The provider is the environment: acquire and release may fail at any     *)
(* time, and acquire may never answer unless it is cancelled.  Times are    *)
(* abstracted: an armed deadline may fire whenever it is armed, a bounded   *)
(* wait may expire whenever it waits, and only observations of the current  *)
(* residency are modelled, since has_authority refuses all others.  A       *)
(* wait_owned() is work of its caller, and the exemption it passes on is    *)
(* BeginSettlement.                                                        *)
(***************************************************************************)
EXTENDS Naturals, FiniteSets

CONSTANTS
    Workers,        \* tasks
    MaxSettle,      \* MAX_SETTLE_STEPS
    MaxResidency,   \* MAX_RESIDENCY_STEPS
    MaxCalls,       \* bound: calls of use(), own() and wait_released()
    MaxFaults       \* bound: cancellations, provider failures, recover() calls

ASSUME BoundsAssumption ==
    {MaxSettle, MaxResidency, MaxCalls, MaxFaults} \subseteq Nat

VARIABLES
    t,              \* the room, its transition, its disposal and its workers
    calls, faults   \* bounds spent

vars == <<t, calls, faults>>

Causes == {"none", "idle", "recovery", "final"}
States == {"suspended", "acquiring", "resident", "suspending", "cleanup", "disposing",
           "closed"}

\* Awaits inside use(), of wait_released(), and where an owned task is outside both.
Joining == {"join", "rjoin", "init"}
Leased == {"prep", "rjoin", "init", "work"}
InUse == Leased \cup {"join", "sig"}
Waiting == {"wjoin", "wacq", "wsig", "wdisp"}
Points == InUse \cup Waiting \cup {"out", "own", "end"}

NoTransition ==
    [kind |-> "none", at |-> "done", cause |-> "none", intact |-> FALSE,
     auto |-> FALSE, cancel |-> FALSE]

InitRoom ==
    [st |-> "suspended", cause |-> "none", leases |-> {}, holders |-> {}, owned |-> {},
     unwinding |-> {}, quiet |-> FALSE, recover |-> FALSE, closing |-> FALSE,
     stopping |-> FALSE, armed |-> FALSE, settleable |-> TRUE, workCancelled |-> FALSE,
     tr |-> NoTransition, callback |-> FALSE, disposal |-> "none", shutdown |-> "none",
     pc |-> [x \in Workers |-> "out"], n |-> [x \in Workers |-> 0],
     res |-> [x \in Workers |-> "none"], told |-> {}, newer |-> {},
     handle |-> "none", overlap |-> FALSE, spun |-> FALSE, dropped |-> FALSE]

Init == t = InitRoom /\ calls = 0 /\ faults = 0

-----------------------------------------------------------------------------
(* Signals, deadlines and pending causes *)

Rank(c) == CASE c = "none" -> 0 [] c = "idle" -> 1 [] c = "recovery" -> 2 [] c = "final" -> 3

StrongerCause(a, b) == IF Rank(a) >= Rank(b) THEN a ELSE b

Request(r, cause) == [r EXCEPT !.cause = StrongerCause(r.cause, cause)]

Closing(r) == r.closing \/ r.stopping
Accepted(r) == r.owned \cup r.holders
InFlight(r) == r.tr.at # "done"

HasAuthority(r) ==
    /\ ~Closing(r)
    /\ r.cause \in {"none", "idle"}
    /\ r.st \notin {"suspended", "closed"}

IdleEligible(r) ==
    /\ <<r.st, r.cause>> \in {<<"resident", "none">>, <<"cleanup", "idle">>}
    /\ ~Closing(r) /\ Accepted(r) = {} /\ r.quiet

\* _schedule: re-arm the deadline and hold the level signals; whoever waits for a signal
\* that is set resumes later, even if it is cleared by then.
Schedule(r) ==
    LET settleable == r.leases = {} \/ Closing(r)
    IN [r EXCEPT !.armed = IdleEligible(r),
                 !.settleable = settleable,
                 !.res = [x \in Workers |->
                            IF settleable /\ r.pc[x] \in {"sig", "wsig"} THEN "ok" ELSE @[x]]]

-----------------------------------------------------------------------------
(* Transitions *)

Started(r, kind, cause, auto) ==
    [r EXCEPT !.tr = [kind |-> kind, at |-> "new", cause |-> cause,
                      intact |-> r.st = "resident", auto |-> auto, cancel |-> FALSE],
              !.overlap = @ \/ InFlight(r)]

\* _start_acquire; a wait for the previous residency is over with it.
StartAcquire(r) ==
    [Started(r, "acquire", "none", FALSE)
        EXCEPT !.st = "acquiring", !.quiet = FALSE,
               !.newer = {x \in Workers : r.pc[x] \in Waiting}]

StartRelease(r, cause, auto) ==
    [Started(Request(r, cause), "release", cause, auto)
        EXCEPT !.recover = @ /\ cause # "recovery",
               !.st = "suspending", !.armed = FALSE]

\* Mutant of StartRequestedRecovery: the leases are not looked at.
StartRequestedRecoveryLeased(r) ==
    IF /\ r.recover /\ r.cause = "recovery" /\ r.st = "cleanup"
       /\ ~r.closing /\ ~InFlight(r)
    THEN StartRelease(r, "recovery", FALSE) ELSE r

StartRequestedRecovery(r) ==
    IF /\ r.recover /\ r.cause = "recovery" /\ r.st = "cleanup"
       /\ r.leases = {} /\ ~r.closing /\ ~InFlight(r)
    THEN StartRelease(r, "recovery", FALSE) ELSE r

\* The task is done: its waiters know its result, its callback is queued.
Ended(r, result) ==
    [r EXCEPT !.tr.at = "done", !.callback = TRUE,
              !.res = [x \in Workers |->
                         IF r.pc[x] \in Joining \cup {"wjoin", "wacq"} /\ @[x] = "none"
                         THEN result ELSE @[x]]]

Abandon(r) ==
    [Request(r, "recovery")
        EXCEPT !.recover = TRUE,
               !.st = IF @ = "resident" THEN "cleanup" ELSE @]

\* _cancel_acquisition delivers one cancellation.
CancelAcquisition(r) == [r EXCEPT !.tr.cancel = InFlight(r)]

AbandonAcquisition(r) ==
    LET a == Abandon(r)
    IN IF a.st = "acquiring" /\ a.cause = "recovery" THEN CancelAcquisition(a) ELSE a

IdleReleaseAllowed(r, auto) ==
    /\ r.cause = "idle" /\ ~Closing(r) /\ r.leases = {}
    /\ ~(auto /\ Accepted(r) # {})
    /\ r.quiet

RefuseIdleRelease(r, intact) ==
    Schedule(IF r.cause = "idle" /\ intact
             THEN [r EXCEPT !.cause = "none", !.st = "resident"]
             ELSE [r EXCEPT !.st = "cleanup"])

CommitRelease(r, cause) ==
    IF StrongerCause(cause, r.cause) # cause THEN [r EXCEPT !.st = "cleanup"]
    ELSE [r EXCEPT !.st = "suspended", !.cause = IF @ = "final" THEN @ ELSE "none"]

-----------------------------------------------------------------------------
(* use() *)

\* The context exits, by itself or with an exception.
Leave(r, x) ==
    StartRequestedRecovery(Schedule(
        [r EXCEPT !.leases = @ \ {x}, !.holders = @ \ {x},
                  !.pc[x] = IF x \in r.owned THEN "own" ELSE "out",
                  !.n[x] = 0, !.res[x] = "none"]))

At(r, x, point) == [r EXCEPT !.pc[x] = point, !.n[x] = @ + 1, !.res[x] = "none"]

\* One pass of _settle, and the lease that follows it.
SettleStep(r, x) ==
    CASE r.n[x] = MaxSettle -> Leave(r, x)
      [] r.n[x] # MaxSettle /\ Closing(r) -> Leave(r, x)
      [] r.n[x] # MaxSettle /\ ~Closing(r) /\ InFlight(r) -> At(r, x, "join")
      [] r.n[x] # MaxSettle /\ ~Closing(r) /\ ~InFlight(r) /\ r.cause = "none" ->
            [At(r, x, "prep") EXCEPT !.leases = @ \cup {x}, !.n[x] = 0]
      [] OTHER ->
            IF r.leases = {} THEN At(StartRelease(r, r.cause, FALSE), x, "join")
            ELSE IF r.settleable THEN Leave([r EXCEPT !.spun = TRUE], x) ELSE At(r, x, "sig")

\* One pass of _ensure_resident.
ResidentStep(r, x) ==
    CASE r.n[x] = MaxResidency -> Leave(r, x)
      [] r.n[x] # MaxResidency /\ Closing(r) -> Leave(r, x)
      [] r.n[x] # MaxResidency /\ ~Closing(r) /\ InFlight(r) -> At(r, x, "rjoin")
      [] OTHER ->
            IF r.st = "resident" THEN At(r, x, "work")
            ELSE IF r.st = "suspended" /\ r.cause = "none" THEN At(StartAcquire(r), x, "init")
            ELSE Leave(r, x)

Loop(r, x) == IF r.pc[x] \in {"join", "sig"} THEN SettleStep(r, x) ELSE ResidentStep(r, x)

Do(r) == t' = r /\ UNCHANGED <<calls, faults>>
Call(r) == t' = r /\ calls < MaxCalls /\ calls' = calls + 1 /\ UNCHANGED faults
Fault(r) == t' = r /\ faults < MaxFaults /\ faults' = faults + 1 /\ UNCHANGED calls
Running(x) == x \notin t.told

\* use() to its first await.
Enter(x) ==
    /\ t.pc[x] \in {"out", "own"} /\ Running(x)
    /\ ~Closing(t)
    /\ Call(SettleStep(Schedule([t EXCEPT !.holders = @ \cup {x}]), x))

PrepareEnds(x) ==
    /\ t.pc[x] = "prep" /\ Running(x)
    /\ Do(ResidentStep(t, x)) \/ Fault(Leave(t, x))

\* _join returns: a failed transition raises, a cancelled one is looked at again.
Joined(x) ==
    /\ t.pc[x] \in Joining \cup {"sig"} /\ t.res[x] # "none" /\ Running(x)
    /\ Do(IF t.res[x] = "error" THEN Leave(t, x) ELSE Loop(t, x))

\* A wait of _join that ends without its transition.
Unjoined(x) == Leave(IF t.pc[x] = "init" THEN AbandonAcquisition(t) ELSE t, x)

JoinTimesOut(x) ==
    /\ t.pc[x] \in Joining /\ t.res[x] = "none" /\ t.tr.at = "io" /\ Running(x)
    /\ Do(Unjoined(x))

WorkEnds(x) ==
    /\ t.pc[x] = "work" /\ Running(x)
    /\ Do(Leave(t, x))

\* A cancellation reaches the await the worker is suspended in; an owned task then ends.
\* It is queued behind the first step of any transition its task has started or joined.
Cancelled(x) ==
    /\ x \in t.told /\ t.pc[x] # "out"
    /\ t.pc[x] \in Joining => t.tr.at # "new"
    /\ LET left == IF t.pc[x] \in InUse THEN Unjoined(x) ELSE t
       IN Do([left EXCEPT !.told = @ \ {x}, !.newer = @ \ {x}, !.n[x] = 0, !.res[x] = "none",
                          !.pc[x] = IF x \in t.owned THEN "end" ELSE "out"])

\* Anybody may cancel a worker; disposal cancels the owned ones.
Cancel(x) ==
    /\ t.pc[x] \notin {"out", "end"} /\ Running(x)
    /\ Fault([t EXCEPT !.told = @ \cup {x}])

-----------------------------------------------------------------------------
(* Owned work, observations and recovery *)

Own(x) ==
    /\ t.pc[x] = "out" /\ ~Closing(t)
    /\ Call(Schedule([t EXCEPT !.owned = @ \cup {x}, !.pc[x] = "own"]))

\* _disown
OwnEnds(x) ==
    /\ t.pc[x] \in {"own", "end"} /\ Running(x)
    /\ Do(Schedule([t EXCEPT !.owned = @ \ {x}, !.unwinding = @ \ {x}, !.pc[x] = "out"]))

BeginSettlement(x) ==
    /\ x \in t.owned \ t.unwinding
    /\ Fault([t EXCEPT !.unwinding = @ \cup {x}])

Observe(quiet) ==
    /\ HasAuthority(t) /\ quiet # t.quiet
    /\ Do(Schedule([t EXCEPT !.quiet = quiet]))

\* Mutant of Recover: the level signals are not derived again.
RecoverUnscheduled ==
    /\ HasAuthority(t)
    /\ Fault(StartRequestedRecovery([Abandon(t) EXCEPT !.quiet = FALSE]))

Recover ==
    /\ HasAuthority(t)
    /\ Fault(StartRequestedRecovery(Schedule([Abandon(t) EXCEPT !.quiet = FALSE])))

\* _release_due_rooms
IdleDue ==
    /\ t.armed
    /\ Do(StartRelease(t, "idle", TRUE))

-----------------------------------------------------------------------------
(* The transition task *)

\* _run_acquire and _run_release to the provider's callback.
TransitionBegins ==
    /\ t.tr.at = "new"
    /\ LET io == [t EXCEPT !.tr.at = "io"]
           refused == Ended(RefuseIdleRelease(t, t.tr.intact), IF t.tr.auto THEN "ok" ELSE "error")
       IN Do(CASE t.tr.kind = "acquire" /\ Closing(t) ->
                    Ended(Schedule([t EXCEPT !.st = "suspended"]), "error")
               [] t.tr.kind = "acquire" /\ ~Closing(t) -> [io EXCEPT !.handle = "partial"]
               [] t.tr.cause = "idle" /\ ~IdleReleaseAllowed(t, t.tr.auto) -> refused
               [] OTHER -> io)

Acquired ==
    /\ t.tr.kind = "acquire" /\ t.tr.at = "io"
    /\ Do(Ended(Schedule([t EXCEPT !.handle = "open",
                                   !.st = IF t.cause = "none" THEN "resident" ELSE "cleanup"]),
                "ok"))

AcquireFails(result) ==
    /\ t.tr.kind = "acquire" /\ t.tr.at = "io"
    /\ LET failed == Ended(Schedule([Abandon(t) EXCEPT !.st = "cleanup"]), result)
       IN \/ result = "cancelled" /\ t.tr.cancel /\ Do(failed)
          \/ result = "error" /\ Fault(failed)

Released ==
    /\ t.tr.kind = "release" /\ t.tr.at = "io"
    /\ Do(Ended(Schedule(CommitRelease([t EXCEPT !.handle = "none"], t.tr.cause)), "ok"))

\* Only an idle release of an intact handle may be refused by the provider.
ReleaseBusy ==
    /\ t.tr.kind = "release" /\ t.tr.at = "io"
    /\ t.tr.cause = "idle" /\ t.handle = "open"
    /\ Fault(Ended(Schedule(RefuseIdleRelease([t EXCEPT !.quiet = FALSE], TRUE)), "ok"))

ReleaseFails ==
    /\ t.tr.kind = "release" /\ t.tr.at = "io"
    /\ Fault(Ended(Schedule([t EXCEPT !.handle = "partial", !.st = "cleanup"]), "error"))

\* The done-callback of the transition.
RecoveryCallback ==
    /\ t.callback
    /\ Do(StartRequestedRecovery([t EXCEPT !.callback = FALSE]))

-----------------------------------------------------------------------------
(* Disposal and shutdown *)

BeginDisposal(r) ==
    LET closed == Schedule(Request([r EXCEPT !.closing = TRUE], "final"))
    IN IF closed.disposal \in {"none", "failed"} THEN [closed EXCEPT !.disposal = "start"]
       ELSE closed

\* request_disposal and dispose(): an enrolled requester is exempt from cancellation.
RequestDisposal(x) ==
    /\ t.pc[x] \in {"out", "own", "work"} /\ Running(x)
    /\ t.disposal \in {"none", "failed"} \/ x \in t.owned \ t.unwinding
    /\ Do(BeginDisposal([t EXCEPT !.unwinding = @ \cup ({x} \cap t.owned)]))

\* RoomRetention.stop: admission closes at once, the disposals begin in its own task.
Stop(x) ==
    /\ t.pc[x] \in {"out", "own", "work"} /\ Running(x)
    /\ t.shutdown = "none"
    /\ Do([t EXCEPT !.stopping = TRUE, !.shutdown = "due",
                    !.unwinding = @ \cup ({x} \cap t.owned)])

RunStop ==
    /\ t.shutdown = "due"
    /\ Do([BeginDisposal(t) EXCEPT !.shutdown = "running"])

StopFails ==
    /\ t.shutdown = "running" /\ t.disposal = "failed"
    /\ Do([t EXCEPT !.shutdown = "none"])

Uncancelled(r) == (r.owned \ r.unwinding) \ (r.told \cup {x \in Workers : r.pc[x] = "end"})

\* The release that precedes dispose().
FinalRelease(r) ==
    IF r.st # "suspended"
    THEN [StartRelease(r, "final", FALSE) EXCEPT !.disposal = "release"]
    ELSE [r EXCEPT !.st = "disposing", !.disposal = "dispose"]

\* Mutant of Drained: disposal does not join a transition in flight.
DrainedUnjoined(r) ==
    IF Accepted(r) # {} THEN [r EXCEPT !.disposal = "drain"] ELSE FinalRelease(r)

\* All accepted work is over; a transition in flight is joined first.
Drained(r) ==
    IF Accepted(r) # {} THEN [r EXCEPT !.disposal = "drain"]
    ELSE IF InFlight(r) THEN [r EXCEPT !.disposal = "join"]
    ELSE FinalRelease(r)

\* Mutant of CancelWork: an acquisition in progress is not cancelled.
CancelWorkOnly(r) ==
    Drained([r EXCEPT !.workCancelled = TRUE, !.told = @ \cup Uncancelled(r)])

\* _settle_accepted after its grace.
CancelWork(r) ==
    LET cancelled == [r EXCEPT !.workCancelled = TRUE, !.told = @ \cup Uncancelled(r)]
    IN Drained(IF r.st = "acquiring" THEN CancelAcquisition(cancelled) ELSE cancelled)

DisposalBegins ==
    /\ t.disposal = "start"
    /\ \/ ~t.workCancelled /\ Uncancelled(t) # {} /\ Do([t EXCEPT !.disposal = "grace"])
       \/ Do(IF t.workCancelled THEN Drained(t) ELSE CancelWork(t))

GraceEnds == t.disposal = "grace" /\ Do(CancelWork(t))

\* The drained signal is set, or the transition that was joined is done.
DisposalResumes ==
    /\ \/ t.disposal = "drain" /\ Accepted(t) = {}
       \/ t.disposal = "join" /\ ~InFlight(t)
    /\ Do(Drained(t))

\* The final release is done: it left the room suspended, or it failed.
FinalReleased ==
    /\ t.disposal = "release" /\ ~InFlight(t)
    /\ Do(IF t.st = "suspended" THEN [t EXCEPT !.st = "disposing", !.disposal = "dispose"]
          ELSE [t EXCEPT !.disposal = "failed"])

Disposed ==
    /\ t.disposal = "dispose"
    /\ Do(Schedule([t EXCEPT !.st = "closed", !.disposal = "done"]))

DisposeFails ==
    /\ t.disposal = "dispose"
    /\ Fault(Schedule([t EXCEPT !.st = "suspended", !.disposal = "failed"]))

-----------------------------------------------------------------------------
(* wait_released() *)

WaitEnds(r, x) ==
    [r EXCEPT !.pc[x] = "out", !.n[x] = 0, !.res[x] = "none", !.newer = @ \ {x}]

\* One pass of _wait_released.
WaitStep(r, x) ==
    CASE r.n[x] = MaxSettle -> WaitEnds(r, x)
      [] r.n[x] # MaxSettle /\ (x \in r.newer \/ r.st \in {"suspended", "closed"}) ->
            WaitEnds(r, x)
      [] OTHER ->
            IF Closing(r)
            THEN At(BeginDisposal(r), x, "wdisp")
            ELSE IF InFlight(r)
            THEN At(r, x, IF r.st = "acquiring" THEN "wacq" ELSE "wjoin")
            ELSE IF r.leases # {}
            THEN IF r.settleable THEN WaitEnds([r EXCEPT !.spun = TRUE], x)
                 ELSE At(r, x, "wsig")
            ELSE IF r.cause # "none" THEN At(StartRelease(r, r.cause, FALSE), x, "wjoin")
            ELSE WaitEnds([r EXCEPT !.dropped = TRUE], x)

WaitReleased(x) ==
    /\ t.pc[x] = "out"
    /\ Closing(t) \/ t.cause = "recovery"
    /\ t.st \notin {"suspended", "closed"}
    /\ Call(WaitStep(t, x))

WaitResumes(x) ==
    /\ t.pc[x] \in Waiting /\ Running(x)
    /\ \/ t.pc[x] \in {"wjoin", "wacq", "wsig"} /\ t.res[x] # "none"
          /\ Do(IF t.pc[x] = "wjoin" /\ t.res[x] # "ok" THEN WaitEnds(t, x) ELSE WaitStep(t, x))
       \/ t.pc[x] = "wdisp" /\ t.disposal \in {"done", "failed"} /\ Do(WaitEnds(t, x))

\* The cleanup deadline passes.
WaitTimesOut(x) ==
    /\ t.pc[x] \in Waiting /\ Running(x)
    /\ Do(WaitEnds(t, x))

-----------------------------------------------------------------------------
Worker(x) ==
    \/ Enter(x) \/ PrepareEnds(x) \/ Joined(x) \/ JoinTimesOut(x) \/ WorkEnds(x)
    \/ Cancelled(x) \/ Cancel(x) \/ Own(x) \/ OwnEnds(x) \/ BeginSettlement(x)
    \/ RequestDisposal(x) \/ Stop(x) \/ WaitReleased(x) \/ WaitResumes(x) \/ WaitTimesOut(x)

Transition ==
    \/ TransitionBegins \/ Acquired \/ (\E e \in {"error", "cancelled"} : AcquireFails(e))
    \/ Released \/ ReleaseBusy \/ ReleaseFails \/ RecoveryCallback

Disposal ==
    \/ RunStop \/ StopFails \/ DisposalBegins \/ GraceEnds \/ DisposalResumes
    \/ FinalReleased \/ Disposed \/ DisposeFails

Next ==
    \/ \E x \in Workers : Worker(x)
    \/ Transition \/ Disposal
    \/ (\E quiet \in BOOLEAN : Observe(quiet)) \/ Recover \/ IdleDue

Spec == Init /\ [][Next]_vars

\* What the event loop and the timers make a worker do.  Work ends by itself unless it
\* is owned work that disposal may cancel, which may go on for ever.
WorkerProgress(x) ==
    \/ Joined(x) \/ JoinTimesOut(x) \/ PrepareEnds(x) \/ Cancelled(x)
    \/ WaitResumes(x) \/ WaitTimesOut(x)
    \/ x \notin t.owned \ t.unwinding /\ WorkEnds(x)
    \/ (t.pc[x] = "end" \/ x \in t.unwinding) /\ OwnEnds(x)

\* A provider's release answers, and so does an acquire that was cancelled; an acquire
\* that was not may hang.
TransitionProgress ==
    \/ TransitionBegins \/ Released \/ ReleaseFails
    \/ AcquireFails("cancelled")

Fairness ==
    /\ WF_vars(TransitionProgress) /\ WF_vars(RecoveryCallback) /\ WF_vars(Disposal)
    /\ \A x \in Workers : WF_vars(WorkerProgress(x))

FairSpec == Spec /\ Fairness

-----------------------------------------------------------------------------
Transitions ==
    [kind : {"none", "acquire", "release"}, at : {"new", "io", "done"}, cause : Causes,
     intact : BOOLEAN, auto : BOOLEAN, cancel : BOOLEAN]

Rooms ==
    [st : States, cause : Causes, leases : SUBSET Workers, holders : SUBSET Workers,
     owned : SUBSET Workers, unwinding : SUBSET Workers, quiet : BOOLEAN,
     recover : BOOLEAN, closing : BOOLEAN, stopping : BOOLEAN, armed : BOOLEAN,
     settleable : BOOLEAN, workCancelled : BOOLEAN, tr : Transitions,
     callback : BOOLEAN,
     disposal : {"none", "start", "grace", "drain", "join", "release", "dispose",
                 "failed", "done"},
     shutdown : {"none", "due", "running"},
     pc : [Workers -> Points], n : [Workers -> Nat],
     res : [Workers -> {"none", "ok", "error", "cancelled"}],
     told : SUBSET Workers, newer : SUBSET Workers,
     handle : {"none", "partial", "open"},
     overlap : BOOLEAN, spun : BOOLEAN, dropped : BOOLEAN]

TypeOK == t \in Rooms /\ calls \in 0..MaxCalls /\ faults \in 0..MaxFaults

\* Residency transitions are serialized: none starts while another runs, although an
\* idle deadline, a recovery, a settling operation, a wait for a release and the
\* disposal may each start one; and dispose() runs beside none.
TransitionsSerialized ==
    /\ ~t.overlap
    /\ t.st \in {"disposing", "closed"} => ~InFlight(t)

\* A worker in its body has an open handle that nobody is closing; a handle is
\* acquired and a room disposed only when the previous handle was confirmed closed;
\* and a closed room has no accepted work.
HandleIsOwned ==
    /\ \A x \in Workers : t.pc[x] = "work" => t.handle = "open"
    /\ t.tr.kind = "release" /\ InFlight(t) => t.leases = {}
    /\ t.tr.kind = "acquire" /\ t.tr.at = "new" => t.handle = "none"
    /\ t.st \in {"disposing", "closed"} => t.handle = "none" /\ Accepted(t) = {}

\* A wait for the leases to drain waits: the signal is never still set from before a
\* lease was taken, which would spend the step budget without a step.  And a
\* retirement that somebody waits for stays pending until it is confirmed.
WaitsAreReal == ~t.spun /\ ~t.dropped

Working == \E x \in Workers : t.pc[x] = "work"

\* An operation that waits for ever, and a requested recovery that never starts, are
\* behind work that runs for ever: an acquisition that hangs holds up neither.  A
\* disposal ends, closed or failed, whatever the work, the acquisition and the
\* requester were doing.
EveryoneGetsOn ==
    /\ \A x \in Workers :
          <>[](t.pc[x] \in (InUse \cup Waiting) \ {"work"}) => <>[]Working
    /\ <>[]t.recover => <>[](Working \/ t.closing)
    /\ t.closing ~> t.disposal \in {"done", "failed"}

-----------------------------------------------------------------------------
(* The inductive invariant behind TransitionsSerialized, HandleIsOwned and  *)
(* WaitsAreReal, as a predicate of the record                               *)

\* Who is where: leases and holders follow the points of use().
Places(r) ==
    /\ r.leases = {x \in Workers : r.pc[x] \in Leased}
    /\ r.holders = {x \in Workers : r.pc[x] \in InUse}
    /\ r.unwinding \subseteq r.owned

\* One transition at a time, and the state it is in.
Flights(r) ==
    /\ ~r.overlap
    /\ InFlight(r) => \/ r.tr.kind = "acquire" /\ r.st = "acquiring"
                      \/ r.tr.kind = "release" /\ r.st = "suspending" /\ r.leases = {}
    /\ r.tr.at = "new" /\ r.tr.kind = "acquire" => r.handle = "none"
    /\ r.tr.at = "new" /\ r.tr.intact => r.handle = "open"

\* What the state says of the handle.
Handles(r) ==
    /\ r.st = "resident" => r.handle = "open"
    /\ r.st \in {"suspended", "disposing", "closed"} => r.handle = "none"
    /\ \A x \in Workers : r.pc[x] = "work" =>
          r.st \in {"resident", "cleanup"} /\ r.handle = "open"

\* How far the disposal is.
Ends(r) ==
    /\ r.disposal # "none" => r.closing
    /\ r.disposal \in {"release", "dispose", "done"} => Accepted(r) = {}
    /\ r.st = "disposing" <=> r.disposal = "dispose"
    /\ r.st = "closed" <=> r.disposal = "done"

\* Nothing is pending on a suspended room that stays in service, and one that somebody
\* is initializing is not suspended.
Pending(r) ==
    /\ r.cause = "final" => r.closing
    /\ r.st = "suspended" => Closing(r) \/ r.cause = "none"
    /\ \A x \in Workers : r.pc[x] = "init" =>
          Closing(r) \/ r.st \in {"acquiring", "resident", "cleanup"}

\* The deadline is armed and the signal set only while their condition may hold: a
\* lease taken after the last _schedule leaves the signal set, but nothing pending.
Signals(r) ==
    /\ r.armed => r.st \in {"resident", "cleanup"} /\ Accepted(r) = {}
    /\ r.settleable /\ r.leases # {} => Closing(r) \/ r.cause = "none"

\* A wait is for a cause that is pending, a disposal, or a residency that is over.
Waits(r) ==
    /\ ~r.spun /\ ~r.dropped
    /\ \A x \in Workers : r.pc[x] \in Waiting =>
          \/ x \in r.newer \/ Closing(r) \/ r.cause \in {"recovery", "final"}
          \/ r.st \in {"suspended", "closed"}

RoomFits(r) ==
    /\ Places(r) /\ Flights(r) /\ Handles(r) /\ Ends(r) /\ Pending(r)
    /\ Signals(r) /\ Waits(r)

RetentionInv == TypeOK /\ RoomFits(t)

=============================================================================
