---------------------------- MODULE RetentionProof ----------------------------
(***************************************************************************)
(* Proofs about Retention: transitions are serialized, a handle is owned by *)
(* the work that uses it, and waits are real, for any number of workers and *)
(* any step budgets.                                                        *)
(*                                                                         *)
(* RetentionInv is inductive.  Its parts are predicates of the record, so   *)
(* the proof is a lemma per method of the room, of what the method keeps of *)
(* each part, and then one per action.  Schedule restores Signals, Ended    *)
(* restores Flights, and what a worker does on its own behalf begins in a   *)
(* room that fits but for that worker (FitsBut).                            *)
(***************************************************************************)
EXTENDS Retention, TLAPS

Results == {"none", "ok", "error", "cancelled"}

\* The room fits, but its signals are not derived yet.
Unscheduled(r) ==
    Places(r) /\ Flights(r) /\ Handles(r) /\ Ends(r) /\ Pending(r) /\ Waits(r)

\* The same, but for where worker x is.
PlacesBut(r, x) ==
    /\ r.leases \ {x} = {y \in Workers \ {x} : r.pc[y] \in Leased}
    /\ r.holders \ {x} = {y \in Workers \ {x} : r.pc[y] \in InUse}
    /\ r.unwinding \subseteq r.owned

FitsBut(r, x) ==
    PlacesBut(r, x) /\ Flights(r) /\ Handles(r) /\ Ends(r) /\ Pending(r) /\ Waits(r)

\* A worker inside use() before its lease.
Settling(r, x) ==
    /\ r.leases = {y \in Workers : r.pc[y] \in Leased}
    /\ r.holders = {y \in Workers : r.pc[y] \in InUse} \cup {x}
    /\ r.unwinding \subseteq r.owned
    /\ r.pc[x] \in {"out", "own", "join", "sig"}

-----------------------------------------------------------------------------
(* Signals, transitions and causes *)

\* _schedule keeps a room of the right kind.
LEMMA ScheduleType ==
    ASSUME NEW r \in Rooms
    PROVE  Schedule(r) \in Rooms
<1>1. IdleEligible(r) \in BOOLEAN /\ (r.leases = {} \/ Closing(r)) \in BOOLEAN
  BY DEF IdleEligible, Closing
<1>2. [x \in Workers |-> IF (r.leases = {} \/ Closing(r)) /\ r.pc[x] \in {"sig", "wsig"}
                         THEN "ok" ELSE r.res[x]]
         \in [Workers -> Results]
  BY DEF Rooms, Results
<1> QED  BY <1>1, <1>2, ZenonT(60) DEF Rooms, Schedule, Results

\* _schedule moves nobody and decides nothing: each part of the invariant holds of
\* the room after it when it held before, and Signals hold whatever they were.
LEMMA ScheduleKeeps ==
    ASSUME NEW r \in Rooms
    PROVE  /\ Places(r) => Places(Schedule(r))
           /\ \A x \in Workers : Settling(r, x) => Settling(Schedule(r), x)
           /\ Flights(r) => Flights(Schedule(r))
           /\ Handles(r) => Handles(Schedule(r))
           /\ Ends(r) => Ends(Schedule(r))
           /\ Pending(r) => Pending(Schedule(r))
           /\ Waits(r) => Waits(Schedule(r))
           /\ Signals(Schedule(r))
           /\ Schedule(r).overlap = r.overlap
           /\ Schedule(r).st = r.st
           /\ Schedule(r).cause = r.cause
           /\ Schedule(r).disposal = r.disposal
           /\ Schedule(r).closing = r.closing
           /\ Schedule(r).pc = r.pc
<1>1. Places(r) => Places(Schedule(r))
  BY SMT DEF Rooms, Schedule, Places
<1>2. ASSUME NEW x \in Workers, Settling(r, x) PROVE Settling(Schedule(r), x)
  BY <1>2, SMT DEF Rooms, Schedule, Settling
<1>3. Flights(r) => Flights(Schedule(r))
  BY SMT DEF Rooms, Schedule, Flights, InFlight
<1>4. Handles(r) => Handles(Schedule(r))
  BY SMT DEF Rooms, Schedule, Handles
<1>5. Ends(r) => Ends(Schedule(r))
  BY SMT DEF Rooms, Schedule, Ends, Accepted
<1>6. Pending(r) => Pending(Schedule(r))
  BY SMT DEF Rooms, Schedule, Pending, Closing
<1>7. Waits(r) => Waits(Schedule(r))
  BY SMT DEF Rooms, Schedule, Waits, Closing
<1>8. Signals(Schedule(r))
  BY SMT DEF Rooms, Schedule, Signals, Closing, Accepted, IdleEligible
<1>9. /\ Schedule(r).overlap = r.overlap /\ Schedule(r).st = r.st
      /\ Schedule(r).cause = r.cause /\ Schedule(r).disposal = r.disposal
      /\ Schedule(r).closing = r.closing /\ Schedule(r).pc = r.pc
  BY SMT DEF Rooms, Schedule
<1> QED  BY <1>1, <1>2, <1>3, <1>4, <1>5, <1>6, <1>7, <1>8, <1>9

\* So a room that fits but for its signals fits after _schedule.
LEMMA ScheduleFits ==
    ASSUME NEW r \in Rooms, Unscheduled(r)
    PROVE  Schedule(r) \in Rooms /\ RoomFits(Schedule(r))
  BY ScheduleType, ScheduleKeeps DEF Unscheduled, RoomFits

\* The end of a transition leaves none in flight.
LEMMA EndedFits ==
    ASSUME NEW r \in Rooms, NEW result \in Results, ~r.overlap,
           Places(r), Handles(r), Ends(r), Pending(r), Signals(r), Waits(r)
    PROVE  Ended(r, result) \in Rooms /\ RoomFits(Ended(r, result))
<1> DEFINE res == [x \in Workers |->
                     IF r.pc[x] \in Joining \cup {"wjoin", "wacq"} /\ r.res[x] = "none"
                     THEN result ELSE r.res[x]]
           tr == [r.tr EXCEPT !.at = "done"]
<1>1. res \in [Workers -> {"none", "ok", "error", "cancelled"}]
  BY DEF Rooms, Results
<1>2. tr \in Transitions /\ tr.at = "done"
  BY Zenon DEF Rooms, Transitions
<1>3. Ended(r, result) = [r EXCEPT !.tr = tr, !.callback = TRUE, !.res = res]
  BY Zenon DEF Ended, Rooms
<1> HIDE DEF res, tr
<1>4. Ended(r, result) \in Rooms
  <2>1. [r EXCEPT !.tr = tr, !.callback = TRUE] \in Rooms
    BY <1>2, Zenon DEF Rooms
  <2> DEFINE q == [r EXCEPT !.tr = tr, !.callback = TRUE]
  <2> HIDE DEF q
  <2>2. [q EXCEPT !.res = res] \in Rooms
    BY <2>1, <1>1, Zenon DEF Rooms, q
  <2>3. Ended(r, result) = [q EXCEPT !.res = res]
    BY <1>3, Zenon DEF q
  <2> QED  BY <2>2, <2>3
<1>5. Places(Ended(r, result))
  BY <1>3, SMT DEF Rooms, Places
<1>6. Flights(Ended(r, result))
  <2>1. Ended(r, result).tr.at = "done" /\ Ended(r, result).overlap = r.overlap
    BY <1>2, <1>3, Zenon DEF Rooms
  <2> QED  BY <2>1 DEF Flights, InFlight
<1>7. Handles(Ended(r, result))
  BY <1>3, SMT DEF Rooms, Handles
<1>8. Ends(Ended(r, result))
  BY <1>3, SMT DEF Rooms, Ends, Accepted
<1>9. Pending(Ended(r, result))
  BY <1>3, SMT DEF Rooms, Pending, Closing
<1>10. Signals(Ended(r, result))
  BY <1>3, SMT DEF Rooms, Signals, Closing, Accepted
<1>11. Waits(Ended(r, result))
  BY <1>3, SMT DEF Rooms, Waits, Closing
<1> QED  BY <1>4, <1>5, <1>6, <1>7, <1>8, <1>9, <1>10, <1>11 DEF RoomFits

\* What the stronger of two causes is.
LEMMA CauseFacts ==
    ASSUME NEW a \in Causes, NEW b \in Causes
    PROVE  /\ StrongerCause(a, b) \in {a, b}
           /\ StrongerCause(a, b) = "none" <=> a = "none" /\ b = "none"
           /\ a \in {"recovery", "final"} \/ b \in {"recovery", "final"} =>
                 StrongerCause(a, b) \in {"recovery", "final"}
           /\ StrongerCause(a, b) = "final" <=> a = "final" \/ b = "final"
           /\ StrongerCause(a, a) = a
  BY SMT DEF Causes, StrongerCause, Rank

\* A release starts with no transition in flight and no lease, for the cause that is
\* pending or a stronger one.
LEMMA StartReleaseFits ==
    ASSUME NEW r \in Rooms, NEW cause \in Causes, NEW auto \in BOOLEAN,
           ~InFlight(r), r.leases = {}, r.st \notin {"suspended", "disposing", "closed"},
           cause = "final" => r.closing,
           NEW x, Places(r) \/ Settling(r, x),
           Flights(r), Handles(r), Ends(r), Pending(r), Signals(r), Waits(r)
    PROVE  /\ StartRelease(r, cause, auto) \in Rooms
           /\ Places(r) => Places(StartRelease(r, cause, auto))
           /\ Settling(r, x) => Settling(StartRelease(r, cause, auto), x)
           /\ Flights(StartRelease(r, cause, auto))
           /\ Handles(StartRelease(r, cause, auto))
           /\ Ends(StartRelease(r, cause, auto))
           /\ Pending(StartRelease(r, cause, auto))
           /\ Signals(StartRelease(r, cause, auto))
           /\ Waits(StartRelease(r, cause, auto))
           /\ StartRelease(r, cause, auto).disposal = r.disposal
           /\ StartRelease(r, cause, auto).pc = r.pc
           /\ StartRelease(r, cause, auto).owned = r.owned
           /\ r.cause \in {"recovery", "final"} =>
                 StartRelease(r, cause, auto).cause \in {"recovery", "final"}
<1> DEFINE s == StartRelease(r, cause, auto)
           new == StrongerCause(r.cause, cause)
           tr == [kind |-> "release", at |-> "new", cause |-> cause,
                  intact |-> r.st = "resident", auto |-> auto, cancel |-> FALSE]
<1>1. /\ r.cause \in Causes /\ new \in Causes
      /\ new = "final" => r.cause = "final" \/ cause = "final"
      /\ r.cause \in {"recovery", "final"} => new \in {"recovery", "final"}
  BY CauseFacts DEF Rooms
<1>2. tr \in Transitions
  BY Zenon DEF Transitions
<1>3. Request(r, cause) = [r EXCEPT !.cause = new] /\ Request(r, cause) \in Rooms
  BY <1>1, Zenon DEF Request, Rooms
<1>4. Request(r, cause).st = r.st /\ Request(r, cause).tr = r.tr
      /\ Request(r, cause).overlap = r.overlap /\ Request(r, cause).recover = r.recover
  BY <1>3, Zenon DEF Rooms
<1>5. r.overlap = FALSE /\ (r.overlap \/ InFlight(r)) = FALSE
  BY Zenon DEF Flights, Rooms
<1>6. Started(Request(r, cause), "release", cause, auto)
        = [Request(r, cause) EXCEPT !.tr = tr, !.overlap = FALSE]
  BY <1>3, <1>4, <1>5, Zenon DEF Started, InFlight
<1>7. s = [[[r EXCEPT !.cause = new] EXCEPT !.tr = tr, !.overlap = FALSE]
             EXCEPT !.recover = @ /\ cause # "recovery", !.st = "suspending", !.armed = FALSE]
  BY <1>3, <1>6, ZenonT(60) DEF StartRelease
<1> HIDE DEF tr, new
<1>8. s \in Rooms
  <2> DEFINE q == [r EXCEPT !.cause = new]
             p == [q EXCEPT !.tr = tr, !.overlap = FALSE]
             again == p.recover /\ cause # "recovery"
  <2>1. q \in Rooms
    BY <1>1, Zenon DEF Rooms
  <2> HIDE DEF q
  <2>2. p \in Rooms
    BY <2>1, <1>2, Zenon DEF Rooms
  <2>3. s = [p EXCEPT !.recover = again, !.st = "suspending", !.armed = FALSE]
    BY <1>7, Zenon DEF q
  <2>4. again \in BOOLEAN /\ "suspending" \in States
    BY Zenon DEF States
  <2> HIDE DEF p, s, again
  <2> QED  BY <2>2, <2>3, <2>4, ZenonT(60) DEF Rooms
<1>9. /\ s.cause = new /\ s.tr = tr /\ s.overlap = FALSE /\ s.st = "suspending"
      /\ s.armed = FALSE
      /\ s.leases = r.leases /\ s.holders = r.holders /\ s.owned = r.owned
      /\ s.unwinding = r.unwinding /\ s.closing = r.closing /\ s.stopping = r.stopping
      /\ s.settleable = r.settleable /\ s.disposal = r.disposal /\ s.pc = r.pc
      /\ s.newer = r.newer /\ s.handle = r.handle /\ s.spun = r.spun
      /\ s.dropped = r.dropped
  BY <1>7, ZenonT(60) DEF Rooms
<1>10. \A y \in Workers : r.pc[y] \notin Leased
  BY SMT DEF Places, Settling
<1>19. tr.at = "new" /\ tr.kind = "release" /\ (tr.intact => r.st = "resident")
  BY Zenon DEF tr
<1> HIDE DEF s
<1>11. Places(r) => Places(s)
  BY <1>9 DEF Places
<1>12. Settling(r, x) => Settling(s, x)
  BY <1>9 DEF Settling
<1>13. Flights(s)
  BY <1>9, <1>19 DEF Flights, InFlight, Handles
<1>14. Handles(s)
  BY <1>9, <1>10 DEF Handles, Leased
<1>15. Ends(s)
  BY <1>9 DEF Ends, Accepted
<1>16. Pending(s)
  BY <1>9, <1>10, <1>1 DEF Pending, Closing, Leased
<1>17. Signals(s)
  BY <1>9 DEF Signals, Closing
<1>18. Waits(s)
  BY <1>9, <1>1 DEF Waits, Closing
<1> QED  BY <1>8, <1>9, <1>11, <1>12, <1>13, <1>14, <1>15, <1>16, <1>17, <1>18, <1>1 DEF s

\* So in a room that fits.
LEMMA ReleaseFits ==
    ASSUME NEW r \in Rooms, RoomFits(r), NEW cause \in Causes, NEW auto \in BOOLEAN,
           ~InFlight(r), r.leases = {}, r.st \notin {"suspended", "disposing", "closed"},
           cause = "final" => r.closing
    PROVE  /\ StartRelease(r, cause, auto) \in Rooms
           /\ RoomFits(StartRelease(r, cause, auto))
           /\ StartRelease(r, cause, auto).disposal = r.disposal
           /\ StartRelease(r, cause, auto).pc = r.pc
           /\ StartRelease(r, cause, auto).owned = r.owned
           /\ r.cause \in {"recovery", "final"} =>
                 StartRelease(r, cause, auto).cause \in {"recovery", "final"}
<1>1. /\ Places(r) /\ Flights(r) /\ Handles(r) /\ Ends(r) /\ Pending(r)
      /\ Signals(r) /\ Waits(r)
  BY DEF RoomFits
<1> QED  BY <1>1, StartReleaseFits, Zenon DEF RoomFits

\* A requested recovery that starts is a release; one that does not changes nothing.
LEMMA RecoveryFits ==
    ASSUME NEW r \in Rooms, RoomFits(r)
    PROVE  /\ StartRequestedRecovery(r) \in Rooms
           /\ RoomFits(StartRequestedRecovery(r))
           /\ StartRequestedRecovery(r).pc = r.pc
<1>1. CASE /\ r.recover /\ r.cause = "recovery" /\ r.st = "cleanup"
           /\ r.leases = {} /\ ~r.closing /\ ~InFlight(r)
  <2>1. StartRequestedRecovery(r) = StartRelease(r, "recovery", FALSE)
    BY <1>1 DEF StartRequestedRecovery
  <2>2. /\ "recovery" \in Causes /\ FALSE \in BOOLEAN /\ "recovery" # "final"
        /\ r.st \notin {"suspended", "disposing", "closed"}
    BY <1>1 DEF Causes
  <2>3. /\ StartRelease(r, "recovery", FALSE) \in Rooms
        /\ RoomFits(StartRelease(r, "recovery", FALSE))
        /\ StartRelease(r, "recovery", FALSE).pc = r.pc
    BY <1>1, <2>2, ReleaseFits, Zenon
  <2> QED  BY <2>1, <2>3
<1>2. CASE ~(/\ r.recover /\ r.cause = "recovery" /\ r.st = "cleanup"
             /\ r.leases = {} /\ ~r.closing /\ ~InFlight(r))
  BY <1>2 DEF StartRequestedRecovery
<1> QED  BY <1>1, <1>2

\* An abandoned acquisition leaves a recovery pending; its cancellation is delivered
\* to the transition in flight.
LEMMA AbandonFits ==
    ASSUME NEW r \in Rooms, Flights(r), Handles(r), Ends(r), Pending(r), Waits(r),
           Closing(r) \/ r.st # "suspended"
    PROVE  /\ Abandon(r) \in Rooms
           /\ Places(r) => Places(Abandon(r))
           /\ Flights(Abandon(r)) /\ Handles(Abandon(r)) /\ Ends(Abandon(r))
           /\ Pending(Abandon(r)) /\ Waits(Abandon(r))
           /\ Abandon(r).cause \in {"recovery", "final"}
           /\ Abandon(r).tr = r.tr
<1> DEFINE s == Abandon(r)
           new == StrongerCause(r.cause, "recovery")
           st == IF r.st = "resident" THEN "cleanup" ELSE r.st
<1>1. /\ new \in Causes /\ new \in {"recovery", "final"}
      /\ new = "final" => r.cause = "final"
  BY CauseFacts DEF Rooms, Causes
<1>2. st \in States /\ (st = r.st \/ (r.st = "resident" /\ st = "cleanup"))
  <2>1. r.st \in States
    BY Zenon DEF Rooms
  <2> QED  BY <2>1 DEF States
<1>3. Request(r, "recovery") = [r EXCEPT !.cause = new]
  BY Zenon DEF Request
<1>4. Request(r, "recovery").st = r.st
  BY <1>3, Zenon DEF Rooms
<1>5. s = [[r EXCEPT !.cause = new] EXCEPT !.recover = TRUE, !.st = st]
  BY <1>3, <1>4, Zenon DEF Abandon
<1> HIDE DEF new, st
<1>6. s \in Rooms
  <2> DEFINE q == [r EXCEPT !.cause = new]
  <2>1. q \in Rooms
    BY <1>1, Zenon DEF Rooms
  <2> HIDE DEF q
  <2>2. [q EXCEPT !.recover = TRUE, !.st = st] \in Rooms
    BY <2>1, <1>2, Zenon DEF Rooms
  <2> QED  BY <2>2, <1>5, Zenon DEF q
<1>7. /\ s.cause = new /\ s.st = st /\ s.tr = r.tr /\ s.overlap = r.overlap
      /\ s.leases = r.leases /\ s.holders = r.holders /\ s.owned = r.owned
      /\ s.unwinding = r.unwinding /\ s.closing = r.closing /\ s.stopping = r.stopping
      /\ s.disposal = r.disposal /\ s.pc = r.pc
      /\ s.newer = r.newer /\ s.handle = r.handle /\ s.spun = r.spun
      /\ s.dropped = r.dropped
  BY <1>5, ZenonT(60) DEF Rooms
<1> HIDE DEF s
<1>8. Places(r) => Places(s)
  BY <1>7 DEF Places
<1>9. Flights(s)
  BY <1>2, <1>7 DEF Flights, InFlight
<1>10. Handles(s)
  BY <1>2, <1>7 DEF Handles
<1>11. Ends(s)
  BY <1>2, <1>7 DEF Ends, Accepted
<1>12. Pending(s)
  BY <1>1, <1>2, <1>7 DEF Pending, Closing
<1>13. Waits(s)
  BY <1>1, <1>2, <1>7 DEF Waits, Closing
<1> QED  BY <1>1, <1>6, <1>7, <1>8, <1>9, <1>10, <1>11, <1>12, <1>13 DEF s

\* One cancellation is delivered; nothing else changes.
LEMMA CancelAcquisitionFits ==
    ASSUME NEW r \in Rooms
    PROVE  /\ CancelAcquisition(r) \in Rooms
           /\ Places(r) => Places(CancelAcquisition(r))
           /\ Flights(r) => Flights(CancelAcquisition(r))
           /\ Handles(r) => Handles(CancelAcquisition(r))
           /\ Ends(r) => Ends(CancelAcquisition(r))
           /\ Pending(r) => Pending(CancelAcquisition(r))
           /\ Signals(r) => Signals(CancelAcquisition(r))
           /\ Waits(r) => Waits(CancelAcquisition(r))
           /\ CancelAcquisition(r).disposal = r.disposal
           /\ CancelAcquisition(r).closing = r.closing
<1> DEFINE s == CancelAcquisition(r)
           flying == InFlight(r)
           tr == [r.tr EXCEPT !.cancel = flying]
<1>1. r.tr \in Transitions /\ flying \in BOOLEAN
  BY Zenon DEF Rooms, InFlight
<1>2. s = [r EXCEPT !.tr = tr]
  BY Zenon DEF CancelAcquisition
<1> HIDE DEF flying
<1>3. /\ tr \in Transitions /\ tr.at = r.tr.at /\ tr.kind = r.tr.kind
      /\ tr.intact = r.tr.intact
  BY <1>1, Zenon DEF Transitions
<1> HIDE DEF tr
<1>4. s \in Rooms
  BY <1>2, <1>3, ZenonT(60) DEF Rooms
<1>5. /\ s.cause = r.cause /\ s.st = r.st /\ s.tr = tr /\ s.overlap = r.overlap
      /\ s.leases = r.leases /\ s.holders = r.holders /\ s.owned = r.owned
      /\ s.unwinding = r.unwinding /\ s.closing = r.closing /\ s.stopping = r.stopping
      /\ s.armed = r.armed /\ s.settleable = r.settleable
      /\ s.disposal = r.disposal /\ s.pc = r.pc
      /\ s.newer = r.newer /\ s.handle = r.handle /\ s.spun = r.spun
      /\ s.dropped = r.dropped
  BY <1>2, Zenon DEF Rooms
<1> HIDE DEF s
<1>6. (Places(r) => Places(s)) /\ (Handles(r) => Handles(s)) /\ (Waits(r) => Waits(s))
  BY <1>5 DEF Places, Handles, Waits, Closing
<1>7. Flights(r) => Flights(s)
  BY <1>3, <1>5 DEF Flights, InFlight
<1>8. (Ends(r) => Ends(s)) /\ (Pending(r) => Pending(s)) /\ (Signals(r) => Signals(s))
  BY <1>5 DEF Ends, Pending, Signals, Closing, Accepted
<1> QED  BY <1>4, <1>5, <1>6, <1>7, <1>8 DEF s

-----------------------------------------------------------------------------
(* use() *)

\* A worker that leaves use() leaves a room that fits.
LEMMA LeaveFits ==
    ASSUME NEW r \in Rooms, NEW x \in Workers, FitsBut(r, x)
    PROVE  /\ Leave(r, x) \in Rooms /\ RoomFits(Leave(r, x))
           /\ Leave(r, x).pc[x] \in {"own", "out"}
<1> DEFINE point == IF x \in r.owned THEN "own" ELSE "out"
           leases == r.leases \ {x}
           holders == r.holders \ {x}
           pc == [r.pc EXCEPT ![x] = point]
           n == [r.n EXCEPT ![x] = 0]
           res == [r.res EXCEPT ![x] = "none"]
           s == [r EXCEPT !.leases = leases, !.holders = holders, !.pc = pc, !.n = n,
                          !.res = res]
<1>1. Leave(r, x) = StartRequestedRecovery(Schedule(s))
  BY Zenon DEF Leave
<1>2. /\ leases \in SUBSET Workers /\ holders \in SUBSET Workers
      /\ n \in [Workers -> Nat]
      /\ res \in [Workers -> {"none", "ok", "error", "cancelled"}]
  BY DEF Rooms
<1>3. /\ pc \in [Workers -> Points] /\ pc[x] = point
      /\ \A y \in Workers : y # x => pc[y] = r.pc[y]
      /\ point \in {"own", "out"}
  BY DEF Rooms, Points
<1> HIDE DEF leases, holders, pc, n, res, point
<1>4. s \in Rooms
  <2> DEFINE q == [r EXCEPT !.leases = leases, !.holders = holders]
  <2>1. q \in Rooms
    BY <1>2, Zenon DEF Rooms
  <2> HIDE DEF q
  <2>2. [q EXCEPT !.pc = pc, !.n = n, !.res = res] \in Rooms
    BY <1>2, <1>3, <2>1, Zenon DEF Rooms
  <2> QED  BY <2>2, Zenon DEF q
<1>5. /\ s.leases = leases /\ s.holders = holders /\ s.pc = pc
      /\ s.cause = r.cause /\ s.st = r.st /\ s.tr = r.tr /\ s.overlap = r.overlap
      /\ s.owned = r.owned
      /\ s.unwinding = r.unwinding /\ s.closing = r.closing /\ s.stopping = r.stopping
      /\ s.disposal = r.disposal
      /\ s.newer = r.newer /\ s.handle = r.handle /\ s.spun = r.spun
      /\ s.dropped = r.dropped
  BY Zenon DEF Rooms
<1> HIDE DEF s
<1>6. Places(s)
  <2>1. pc[x] \notin InUse /\ pc[x] \notin Leased
    BY <1>3 DEF InUse, Leased
  <2>2. leases = {y \in Workers : pc[y] \in Leased}
    BY <2>1, <1>3 DEF FitsBut, PlacesBut, leases
  <2>3. holders = {y \in Workers : pc[y] \in InUse}
    BY <2>1, <1>3 DEF FitsBut, PlacesBut, holders
  <2> QED  BY <2>2, <2>3, <1>5 DEF Places, FitsBut, PlacesBut
<1>7. Flights(s)
  BY <1>5 DEF FitsBut, Flights, InFlight, leases
<1>8. Handles(s)
  BY <1>3, <1>5 DEF FitsBut, Handles
<1>9. Ends(s)
  BY <1>5 DEF FitsBut, Ends, Accepted, holders
<1>10. Pending(s)
  BY <1>3, <1>5 DEF FitsBut, Pending, Closing
<1>11. Waits(s)
  BY <1>3, <1>5 DEF FitsBut, Waits, Closing, Waiting
<1>12. Schedule(s) \in Rooms /\ RoomFits(Schedule(s)) /\ Schedule(s).pc = pc
  BY <1>4, <1>5, <1>6, <1>7, <1>8, <1>9, <1>10, <1>11, ScheduleFits, ScheduleKeeps DEF Unscheduled
<1>13. StartRequestedRecovery(Schedule(s)) \in Rooms
       /\ RoomFits(StartRequestedRecovery(Schedule(s)))
       /\ StartRequestedRecovery(Schedule(s)).pc = pc
  BY <1>12, RecoveryFits
<1> QED  BY <1>1, <1>3, <1>13

\* Worker x is put at a point, and nothing else the invariant speaks of changes.
Moved(s, r, x, point) ==
    /\ s.pc[x] = point /\ \A y \in Workers : y # x => s.pc[y] = r.pc[y]
    /\ s.leases = r.leases /\ s.holders = r.holders /\ s.owned = r.owned
    /\ s.unwinding = r.unwinding /\ s.cause = r.cause /\ s.st = r.st /\ s.tr = r.tr
    /\ s.overlap = r.overlap /\ s.closing = r.closing /\ s.stopping = r.stopping
    /\ s.armed = r.armed /\ s.settleable = r.settleable /\ s.disposal = r.disposal
    /\ s.newer = r.newer /\ s.handle = r.handle /\ s.spun = r.spun
    /\ s.dropped = r.dropped

LEMMA AtEffect ==
    ASSUME NEW r \in Rooms, NEW x \in Workers, NEW point \in Points
    PROVE  At(r, x, point) \in Rooms /\ Moved(At(r, x, point), r, x, point)
<1> DEFINE pc == [r.pc EXCEPT ![x] = point]
           n == [r.n EXCEPT ![x] = @ + 1]
           res == [r.res EXCEPT ![x] = "none"]
           s == [r EXCEPT !.pc = pc, !.n = n, !.res = res]
<1>1. At(r, x, point) = s
  BY Zenon DEF At
<1>2. /\ pc \in [Workers -> Points] /\ pc[x] = point
      /\ \A y \in Workers : y # x => pc[y] = r.pc[y]
      /\ n \in [Workers -> Nat]
      /\ res \in [Workers -> {"none", "ok", "error", "cancelled"}]
  BY DEF Rooms
<1> HIDE DEF n, res
<1> SUFFICES /\ s \in Rooms /\ s.pc = pc
             /\ s.cause = r.cause /\ s.st = r.st /\ s.tr = r.tr /\ s.overlap = r.overlap
             /\ s.leases = r.leases /\ s.holders = r.holders /\ s.owned = r.owned
             /\ s.unwinding = r.unwinding /\ s.closing = r.closing
             /\ s.stopping = r.stopping /\ s.armed = r.armed
             /\ s.settleable = r.settleable /\ s.disposal = r.disposal
             /\ s.newer = r.newer /\ s.handle = r.handle /\ s.spun = r.spun
             /\ s.dropped = r.dropped
  BY <1>1, <1>2 DEF Moved
<1> HIDE DEF pc
<1>3. s \in Rooms
  BY <1>2, Zenon DEF Rooms
<1> QED  BY <1>3, Zenon DEF Rooms

\* The parts of RoomFits that do not say where worker x is, and its signals.
LEMMA RestKept ==
    ASSUME NEW r \in Rooms, NEW x \in Workers, NEW point \in Points,
           point = "work" => r.st = "resident",
           point = "init" => r.st = "acquiring",
           point \in Waiting =>
              \/ x \in r.newer \/ Closing(r) \/ r.cause \in {"recovery", "final"}
              \/ r.st \in {"suspended", "closed"},
           Flights(r), Handles(r), Ends(r), Pending(r), Signals(r), Waits(r)
    PROVE  /\ Flights(At(r, x, point)) /\ Handles(At(r, x, point))
           /\ Ends(At(r, x, point)) /\ Pending(At(r, x, point))
           /\ Signals(At(r, x, point)) /\ Waits(At(r, x, point))
<1> DEFINE s == At(r, x, point)
<1>1. Moved(s, r, x, point)
  BY AtEffect
<1> HIDE DEF s
<1>2. Flights(s)
  BY <1>1 DEF Moved, Flights, InFlight
<1>3. Handles(s)
  BY <1>1 DEF Moved, Handles
<1>4. Ends(s) /\ Signals(s)
  BY <1>1 DEF Moved, Ends, Signals, Accepted, Closing
<1>5. Pending(s)
  BY <1>1 DEF Moved, Pending, Closing
<1>6. Waits(s)
  BY <1>1 DEF Moved, Waits, Closing
<1> QED  BY <1>2, <1>3, <1>4, <1>5, <1>6 DEF s

\* One pass of _settle by a worker that is inside use() and has no lease.
LEMMA SettleStepFits ==
    ASSUME NEW r \in Rooms, NEW x \in Workers, Settling(r, x),
           Flights(r), Handles(r), Ends(r), Pending(r), Signals(r), Waits(r)
    PROVE  SettleStep(r, x) \in Rooms /\ RoomFits(SettleStep(r, x))
<1>1. FitsBut(r, x)
  <2>1. r.leases \ {x} = {y \in Workers \ {x} : r.pc[y] \in Leased}
        /\ r.holders \ {x} = {y \in Workers \ {x} : r.pc[y] \in InUse}
        /\ r.unwinding \subseteq r.owned
    BY DEF Settling
  <2> QED  BY <2>1 DEF FitsBut, PlacesBut
<1>2. {"join", "sig", "prep"} \subseteq Points \ {"work", "init"}
      /\ {"join", "sig", "prep"} \cap Waiting = {}
  BY DEF Points, InUse, Leased, Waiting
<1>3. ASSUME NEW q \in Rooms, NEW point \in {"join", "sig"}, Settling(q, x),
             Flights(q), Handles(q), Ends(q), Pending(q), Signals(q), Waits(q)
      PROVE  At(q, x, point) \in Rooms /\ RoomFits(At(q, x, point))
  <2> DEFINE s == At(q, x, point)
  <2>1. point \in Points \ {"work", "init"} /\ point \notin Waiting
    BY <1>2
  <2>2. /\ Flights(s) /\ Handles(s) /\ Ends(s) /\ Pending(s) /\ Signals(s) /\ Waits(s)
    BY <1>3, <2>1, RestKept
  <2>3. s \in Rooms /\ Moved(s, q, x, point)
    BY <2>1, AtEffect
  <2> HIDE DEF s
  <2>4. point \in InUse /\ point \notin Leased /\ q.pc[x] \notin Leased
    BY <1>3 DEF Settling, InUse, Leased
  <2>5. Places(s)
    BY <1>3, <2>3, <2>4 DEF Settling, Places, Moved
  <2> QED  BY <2>2, <2>3, <2>5 DEF RoomFits, s
<1>4. CASE r.n[x] = MaxSettle \/ Closing(r)
  <2>1. SettleStep(r, x) = Leave(r, x)
    BY <1>4 DEF SettleStep
  <2> QED  BY <1>1, <2>1, LeaveFits
<1>5. CASE ~(r.n[x] = MaxSettle \/ Closing(r)) /\ InFlight(r)
  <2>1. SettleStep(r, x) = At(r, x, "join")
    BY <1>5 DEF SettleStep
  <2> QED  BY <2>1, <1>3
<1>6. CASE ~(r.n[x] = MaxSettle \/ Closing(r)) /\ ~InFlight(r) /\ r.cause = "none"
  <2> DEFINE s == At(r, x, "prep")
             leases == s.leases \cup {x}
             n == [s.n EXCEPT ![x] = 0]
             u == [s EXCEPT !.leases = leases, !.n = n]
  <2>1. SettleStep(r, x) = u
    BY <1>6, Zenon DEF SettleStep
  <2>2. /\ Flights(s) /\ Handles(s) /\ Ends(s) /\ Pending(s) /\ Signals(s) /\ Waits(s)
    BY <1>2, RestKept
  <2>3. s \in Rooms /\ Moved(s, r, x, "prep")
    BY <1>2, AtEffect
  <2> HIDE DEF s
  <2>4. leases \in SUBSET Workers /\ n \in [Workers -> Nat]
    BY <2>3 DEF Rooms
  <2> HIDE DEF leases, n
  <2>5. u \in Rooms
    BY <2>3, <2>4, Zenon DEF Rooms
  <2>6. /\ u.leases = leases
        /\ u.cause = s.cause /\ u.st = s.st /\ u.tr = s.tr /\ u.overlap = s.overlap
        /\ u.holders = s.holders /\ u.owned = s.owned
        /\ u.unwinding = s.unwinding /\ u.closing = s.closing /\ u.stopping = s.stopping
        /\ u.armed = s.armed /\ u.settleable = s.settleable
        /\ u.disposal = s.disposal /\ u.pc = s.pc
        /\ u.newer = s.newer /\ u.handle = s.handle /\ u.spun = s.spun
        /\ u.dropped = s.dropped
    BY <2>3, Zenon DEF Rooms
  <2> HIDE DEF u
  <2>7. Places(u)
    <3>1. "prep" \in Leased /\ "prep" \in InUse
      BY DEF Leased, InUse
    <3> QED  BY <2>3, <2>6, <3>1 DEF leases, Settling, Places, Moved
  <2>8. Flights(u) /\ Handles(u)
    BY <1>6, <2>2, <2>3, <2>6 DEF Moved, Flights, Handles, InFlight
  <2>9. Ends(u) /\ Pending(u) /\ Waits(u)
    BY <2>2, <2>6 DEF Ends, Pending, Waits, Closing, Accepted
  <2>10. Signals(u)
    BY <1>6, <2>2, <2>3, <2>6 DEF Moved, Signals, Accepted, Closing
  <2> QED  BY <2>1, <2>5, <2>7, <2>8, <2>9, <2>10 DEF RoomFits
<1>7. CASE ~(r.n[x] = MaxSettle \/ Closing(r)) /\ ~InFlight(r) /\ r.cause # "none"
  <2>1. CASE r.leases = {}
    <3>1. SettleStep(r, x) = At(StartRelease(r, r.cause, FALSE), x, "join")
      BY <1>7, <2>1 DEF SettleStep
    <3>2. /\ r.cause \in Causes /\ FALSE \in BOOLEAN
          /\ r.st \notin {"suspended", "disposing", "closed"} /\ r.cause # "final"
      BY <1>7 DEF Rooms, Pending, Ends, Closing
    <3>3. LET q == StartRelease(r, r.cause, FALSE)
          IN /\ q \in Rooms /\ Settling(q, x)
             /\ Flights(q) /\ Handles(q) /\ Ends(q) /\ Pending(q) /\ Signals(q) /\ Waits(q)
      BY <1>7, <2>1, <3>2, StartReleaseFits
    <3> QED  BY <1>3, <3>1, <3>3
  <2>2. CASE r.leases # {}
    <3>1. ~r.settleable
      BY <1>7, <2>2 DEF Signals
    <3>2. SettleStep(r, x) = At(r, x, "sig")
      BY <1>7, <2>2, <3>1 DEF SettleStep
    <3> QED  BY <1>3, <3>2
  <2> QED  BY <2>1, <2>2
<1> QED  BY <1>4, <1>5, <1>6, <1>7

\* A room that fits, fits but for any worker.
LEMMA FitsButOne ==
    ASSUME NEW r \in Rooms, NEW x \in Workers, Unscheduled(r)
    PROVE  FitsBut(r, x)
<1>1. PlacesBut(r, x)
  BY DEF Unscheduled, Places, PlacesBut
<1> QED  BY <1>1 DEF Unscheduled, FitsBut

LEMMA FitsUnscheduled ==
    ASSUME NEW r, RoomFits(r)
    PROVE  Unscheduled(r)
  BY DEF RoomFits, Unscheduled

\* A worker that goes on with its lease.
LEMMA GoesOnFits ==
    ASSUME NEW r \in Rooms, NEW x \in Workers, RoomFits(r), r.pc[x] \in Leased,
           NEW point \in Leased,
           point = "work" => r.st = "resident",
           point = "init" => r.st = "acquiring"
    PROVE  At(r, x, point) \in Rooms /\ RoomFits(At(r, x, point))
<1> DEFINE s == At(r, x, point)
<1>1. point \in Points /\ point \in InUse /\ point \notin Waiting
  BY DEF Points, InUse, Leased, Waiting
<1>2. /\ Flights(s) /\ Handles(s) /\ Ends(s) /\ Pending(s) /\ Signals(s) /\ Waits(s)
  BY <1>1, RestKept DEF RoomFits
<1>3. s \in Rooms /\ Moved(s, r, x, point)
  BY <1>1, AtEffect
<1> HIDE DEF s
<1>4. Places(s)
  BY <1>1, <1>3 DEF RoomFits, Places, Moved, InUse
<1> QED  BY <1>2, <1>3, <1>4 DEF RoomFits, s

\* An acquisition starts on a suspended room with nothing pending: all that waited for
\* the release of the residency before it are told.
LEMMA StartAcquireFits ==
    ASSUME NEW r \in Rooms, RoomFits(r), ~InFlight(r), r.st = "suspended", r.cause = "none"
    PROVE  /\ StartAcquire(r) \in Rooms /\ RoomFits(StartAcquire(r))
           /\ StartAcquire(r).st = "acquiring" /\ StartAcquire(r).pc = r.pc
<1> DEFINE s == StartAcquire(r)
           tr == [kind |-> "acquire", at |-> "new", cause |-> "none",
                  intact |-> r.st = "resident", auto |-> FALSE, cancel |-> FALSE]
           newer == {x \in Workers : r.pc[x] \in Waiting}
           q == [r EXCEPT !.tr = tr, !.overlap = FALSE]
<1>1. tr \in Transitions /\ tr.at = "new" /\ tr.kind = "acquire" /\ ~tr.intact
  BY Zenon DEF Transitions, Causes
<1>2. (r.overlap \/ InFlight(r)) = FALSE
  BY Zenon DEF RoomFits, Flights, Rooms
<1>3. Started(r, "acquire", "none", FALSE) = q
  BY <1>2, Zenon DEF Started
<1>4. s = [q EXCEPT !.st = "acquiring", !.quiet = FALSE, !.newer = newer]
  BY <1>3, Zenon DEF StartAcquire
<1>5. newer \in SUBSET Workers /\ "acquiring" \in States
  BY DEF States
<1> HIDE DEF tr, newer
<1>6. q \in Rooms
  BY <1>1, Zenon DEF Rooms
<1>7. /\ q.tr = tr /\ q.overlap = FALSE /\ q.cause = r.cause
      /\ q.leases = r.leases /\ q.holders = r.holders /\ q.owned = r.owned
      /\ q.unwinding = r.unwinding /\ q.closing = r.closing /\ q.stopping = r.stopping
      /\ q.armed = r.armed /\ q.settleable = r.settleable /\ q.disposal = r.disposal
      /\ q.pc = r.pc /\ q.handle = r.handle /\ q.spun = r.spun /\ q.dropped = r.dropped
  BY Zenon DEF Rooms
<1> HIDE DEF q
<1>8. s \in Rooms
  <2>1. [q EXCEPT !.st = "acquiring", !.quiet = FALSE, !.newer = newer] \in Rooms
    BY <1>5, <1>6, Zenon DEF Rooms
  <2> QED  BY <1>4, <2>1
<1>9. /\ s.st = "acquiring" /\ s.newer = newer
      /\ s.tr = q.tr /\ s.overlap = q.overlap /\ s.cause = q.cause
      /\ s.leases = q.leases /\ s.holders = q.holders /\ s.owned = q.owned
      /\ s.unwinding = q.unwinding /\ s.closing = q.closing /\ s.stopping = q.stopping
      /\ s.armed = q.armed /\ s.settleable = q.settleable /\ s.disposal = q.disposal
      /\ s.pc = q.pc /\ s.handle = q.handle /\ s.spun = q.spun /\ s.dropped = q.dropped
  BY <1>4, <1>6, ZenonT(60) DEF Rooms
<1> HIDE DEF s
<1>10. Places(s)
  BY <1>7, <1>9 DEF RoomFits, Places
<1>11. Flights(s)
  BY <1>1, <1>7, <1>9 DEF RoomFits, Flights, Handles, InFlight
<1>12. Handles(s)
  BY <1>7, <1>9 DEF RoomFits, Handles
<1>13. Ends(s)
  BY <1>7, <1>9 DEF RoomFits, Ends, Accepted
<1>14. Pending(s)
  BY <1>7, <1>9 DEF RoomFits, Pending, Closing
<1>15. Signals(s)
  BY <1>7, <1>9 DEF RoomFits, Signals, Accepted, Closing
<1>16. Waits(s)
  BY <1>7, <1>9 DEF RoomFits, Waits, Closing, newer
<1> QED  BY <1>7, <1>8, <1>9, <1>10, <1>11, <1>12, <1>13, <1>14, <1>15, <1>16 DEF RoomFits, s

\* One pass of _ensure_resident by a worker that has its lease.
LEMMA ResidentStepFits ==
    ASSUME NEW r \in Rooms, NEW x \in Workers, RoomFits(r), r.pc[x] \in Leased
    PROVE  ResidentStep(r, x) \in Rooms /\ RoomFits(ResidentStep(r, x))
<1>1. Leave(r, x) \in Rooms /\ RoomFits(Leave(r, x))
  BY FitsUnscheduled, FitsButOne, LeaveFits
<1>2. CASE r.n[x] = MaxResidency \/ Closing(r)
  BY <1>1, <1>2 DEF ResidentStep
<1>3. CASE ~(r.n[x] = MaxResidency \/ Closing(r)) /\ InFlight(r)
  <2>1. ResidentStep(r, x) = At(r, x, "rjoin")
    BY <1>3 DEF ResidentStep
  <2>2. "rjoin" \in Leased
    BY DEF Leased
  <2> QED  BY <2>1, <2>2, GoesOnFits
<1>4. CASE ~(r.n[x] = MaxResidency \/ Closing(r)) /\ ~InFlight(r)
  <2>1. CASE r.st = "resident"
    <3>1. ResidentStep(r, x) = At(r, x, "work")
      BY <1>4, <2>1 DEF ResidentStep
    <3>2. "work" \in Leased
      BY DEF Leased
    <3> QED  BY <2>1, <3>1, <3>2, GoesOnFits
  <2>2. CASE r.st = "suspended" /\ r.cause = "none"
    <3>1. ResidentStep(r, x) = At(StartAcquire(r), x, "init")
      BY <1>4, <2>2 DEF ResidentStep
    <3>2. /\ StartAcquire(r) \in Rooms /\ RoomFits(StartAcquire(r))
          /\ StartAcquire(r).st = "acquiring" /\ StartAcquire(r).pc = r.pc
      BY <1>4, <2>2, StartAcquireFits
    <3>3. "init" \in Leased
      BY DEF Leased
    <3> QED  BY <3>1, <3>2, <3>3, GoesOnFits
  <2>3. CASE ~(r.st = "resident" \/ (r.st = "suspended" /\ r.cause = "none"))
    BY <1>1, <1>4, <2>3 DEF ResidentStep
  <2> QED  BY <2>1, <2>2, <2>3
<1> QED  BY <1>2, <1>3, <1>4

-----------------------------------------------------------------------------
(* Disposal and wait_released() *)

\* Two rooms the invariant does not tell apart.
Alike(s, r) ==
    /\ s.leases = r.leases /\ s.holders = r.holders /\ s.owned = r.owned
    /\ s.unwinding = r.unwinding /\ s.cause = r.cause /\ s.st = r.st /\ s.tr = r.tr
    /\ s.overlap = r.overlap /\ s.closing = r.closing /\ s.stopping = r.stopping
    /\ s.armed = r.armed /\ s.settleable = r.settleable /\ s.disposal = r.disposal
    /\ s.newer = r.newer /\ s.handle = r.handle /\ s.spun = r.spun
    /\ s.dropped = r.dropped /\ s.pc = r.pc

LEMMA AlikeFits ==
    ASSUME NEW r, NEW s, Alike(s, r), RoomFits(r)
    PROVE  RoomFits(s)
<1>1. Places(s) /\ Handles(s)
  BY DEF Alike, RoomFits, Places, Handles
<1>2. Flights(s) /\ Signals(s) /\ Ends(s)
  BY DEF Alike, RoomFits, Flights, Signals, Ends, InFlight, Accepted, Closing
<1>3. Pending(s) /\ Waits(s)
  BY DEF Alike, RoomFits, Pending, Waits, Closing
<1> QED  BY <1>1, <1>2, <1>3 DEF RoomFits

\* The disposal of a closing room goes on, short of dispose() itself.
LEMMA DisposalAtFits ==
    ASSUME NEW r \in Rooms, RoomFits(r), r.closing = TRUE,
           r.disposal \notin {"dispose", "done"},
           NEW d \in {"start", "grace", "drain", "join", "release", "failed"},
           d = "release" => Accepted(r) = {}
    PROVE  /\ [r EXCEPT !.disposal = d] \in Rooms /\ RoomFits([r EXCEPT !.disposal = d])
           /\ [r EXCEPT !.disposal = d].closing = TRUE
           /\ [r EXCEPT !.disposal = d].pc = r.pc
<1> DEFINE u == [r EXCEPT !.disposal = d]
<1>1. d \in {"none", "start", "grace", "drain", "join", "release", "dispose", "failed", "done"}
  BY Zenon
<1>2. u \in Rooms
  BY <1>1, Zenon DEF Rooms
<1>3. /\ u.disposal = d
      /\ u.cause = r.cause /\ u.st = r.st /\ u.tr = r.tr /\ u.overlap = r.overlap
      /\ u.leases = r.leases /\ u.holders = r.holders /\ u.owned = r.owned
      /\ u.unwinding = r.unwinding /\ u.closing = r.closing /\ u.stopping = r.stopping
      /\ u.armed = r.armed /\ u.settleable = r.settleable /\ u.pc = r.pc
      /\ u.newer = r.newer /\ u.handle = r.handle /\ u.spun = r.spun
      /\ u.dropped = r.dropped
  BY Zenon DEF Rooms
<1> HIDE DEF u
<1>4. Places(u) /\ Handles(u)
  BY <1>3 DEF RoomFits, Places, Handles
<1>5. Flights(u) /\ Signals(u)
  BY <1>3 DEF RoomFits, Flights, Signals, InFlight, Accepted, Closing
<1>6. Ends(u)
  BY <1>3 DEF RoomFits, Ends, Accepted
<1>7. Pending(u) /\ Waits(u)
  BY <1>3 DEF RoomFits, Pending, Waits, Closing
<1> QED  BY <1>2, <1>3, <1>4, <1>5, <1>6, <1>7 DEF RoomFits, u

\* Disposal begins: the room is closing, and a final release is pending.
LEMMA BeginDisposalFits ==
    ASSUME NEW r \in Rooms, RoomFits(r)
    PROVE  /\ BeginDisposal(r) \in Rooms /\ RoomFits(BeginDisposal(r))
           /\ BeginDisposal(r).closing = TRUE /\ BeginDisposal(r).pc = r.pc
<1> DEFINE new == StrongerCause(r.cause, "final")
           q == [r EXCEPT !.closing = TRUE]
           s == [q EXCEPT !.cause = new]
           c == Schedule(s)
           u == [c EXCEPT !.disposal = "start"]
<1>1. new \in Causes /\ new = "final"
  BY CauseFacts DEF Rooms, Causes
<1>2. q \in Rooms /\ q.cause = r.cause
  BY Zenon DEF Rooms
<1>3. Request(q, "final") = s
  BY <1>2, Zenon DEF Request
<1>4. BeginDisposal(r) = IF c.disposal \in {"none", "failed"} THEN u ELSE c
  BY <1>3, Zenon DEF BeginDisposal
<1> HIDE DEF new
<1>5. s \in Rooms
  BY <1>1, <1>2, ZenonT(60) DEF Rooms
<1>6. /\ s.cause = new /\ s.closing = TRUE
      /\ s.st = r.st /\ s.tr = r.tr /\ s.overlap = r.overlap
      /\ s.leases = r.leases /\ s.holders = r.holders /\ s.owned = r.owned
      /\ s.unwinding = r.unwinding /\ s.stopping = r.stopping
      /\ s.disposal = r.disposal /\ s.pc = r.pc /\ s.newer = r.newer
      /\ s.handle = r.handle /\ s.spun = r.spun /\ s.dropped = r.dropped
  BY Zenon DEF Rooms
<1> HIDE DEF s
<1>7. Places(s) /\ Handles(s)
  BY <1>6 DEF RoomFits, Places, Handles
<1>8. Flights(s) /\ Ends(s)
  BY <1>6 DEF RoomFits, Flights, Ends, InFlight, Accepted
<1>9. Pending(s) /\ Waits(s)
  BY <1>6 DEF RoomFits, Pending, Waits, Closing
<1>10. /\ c \in Rooms /\ RoomFits(c)
       /\ c.closing = TRUE /\ c.pc = r.pc /\ c.disposal = r.disposal
  BY <1>5, <1>6, <1>7, <1>8, <1>9, ScheduleFits, ScheduleKeeps DEF Unscheduled
<1> HIDE DEF c
<1>11. ASSUME c.disposal \in {"none", "failed"}
       PROVE  u \in Rooms /\ RoomFits(u) /\ u.closing = TRUE /\ u.pc = r.pc
  BY <1>10, <1>11, DisposalAtFits
<1> QED  BY <1>4, <1>10, <1>11

\* A wait that ends leaves the others as they were.
LEMMA WaitEndsFits ==
    ASSUME NEW r \in Rooms, NEW x \in Workers, RoomFits(r), r.pc[x] \in Waiting \cup {"out"}
    PROVE  WaitEnds(r, x) \in Rooms /\ RoomFits(WaitEnds(r, x))
<1> DEFINE pc == [r.pc EXCEPT ![x] = "out"]
           n == [r.n EXCEPT ![x] = 0]
           res == [r.res EXCEPT ![x] = "none"]
           newer == r.newer \ {x}
           s == [r EXCEPT !.pc = pc, !.n = n, !.res = res, !.newer = newer]
<1>1. WaitEnds(r, x) = s
  BY Zenon DEF WaitEnds
<1>2. /\ n \in [Workers -> Nat] /\ newer \in SUBSET Workers
      /\ res \in [Workers -> {"none", "ok", "error", "cancelled"}]
      /\ \A y \in Workers : y # x => (y \in newer <=> y \in r.newer)
  BY DEF Rooms
<1>3. /\ pc \in [Workers -> Points] /\ pc[x] = "out"
      /\ \A y \in Workers : y # x => pc[y] = r.pc[y]
  BY DEF Rooms, Points
<1> HIDE DEF pc, n, res, newer
<1>4. s \in Rooms
  <2> DEFINE q == [r EXCEPT !.pc = pc, !.n = n]
  <2>1. q \in Rooms
    BY <1>2, <1>3, Zenon DEF Rooms
  <2> HIDE DEF q
  <2>2. [q EXCEPT !.res = res, !.newer = newer] \in Rooms
    BY <1>2, <2>1, Zenon DEF Rooms
  <2> QED  BY <2>2, Zenon DEF q
<1>5. /\ s.pc = pc /\ s.newer = newer
      /\ s.leases = r.leases /\ s.holders = r.holders
      /\ s.cause = r.cause /\ s.st = r.st /\ s.tr = r.tr /\ s.overlap = r.overlap
      /\ s.owned = r.owned
      /\ s.unwinding = r.unwinding /\ s.closing = r.closing /\ s.stopping = r.stopping
      /\ s.armed = r.armed /\ s.settleable = r.settleable
      /\ s.disposal = r.disposal /\ s.handle = r.handle /\ s.spun = r.spun
      /\ s.dropped = r.dropped
  BY Zenon DEF Rooms
<1> HIDE DEF s
<1>6. Places(s)
  <2>1. r.pc[x] \notin InUse /\ r.pc[x] \notin Leased /\ "out" \notin InUse \cup Leased
    BY DEF InUse, Leased, Waiting
  <2> QED  BY <2>1, <1>3, <1>5 DEF RoomFits, Places
<1>7. Flights(s) /\ Handles(s)
  BY <1>3, <1>5 DEF RoomFits, Flights, Handles, InFlight
<1>8. Ends(s) /\ Signals(s)
  BY <1>5 DEF RoomFits, Ends, Signals, Accepted, Closing
<1>9. Pending(s)
  BY <1>3, <1>5 DEF RoomFits, Pending, Closing
<1>10. Waits(s)
  BY <1>2, <1>3, <1>5 DEF RoomFits, Waits, Closing, Waiting
<1> QED  BY <1>1, <1>4, <1>6, <1>7, <1>8, <1>9, <1>10 DEF RoomFits

\* One pass of _wait_released, by a worker whose wait has a reason.
LEMMA WaitStepFits ==
    ASSUME NEW r \in Rooms, NEW x \in Workers, RoomFits(r), r.pc[x] \in Waiting \cup {"out"},
           \/ x \in r.newer \/ Closing(r) \/ r.cause \in {"recovery", "final"}
           \/ r.st \in {"suspended", "closed"}
    PROVE  WaitStep(r, x) \in Rooms /\ RoomFits(WaitStep(r, x))
<1>1. ASSUME NEW q \in Rooms, RoomFits(q), q.pc = r.pc, NEW point \in Waiting,
             \/ x \in q.newer \/ Closing(q) \/ q.cause \in {"recovery", "final"}
      PROVE  At(q, x, point) \in Rooms /\ RoomFits(At(q, x, point))
  <2> DEFINE s == At(q, x, point)
  <2>1. /\ point \in Points /\ point \notin {"work", "init"}
        /\ q.pc[x] \notin InUse /\ q.pc[x] \notin Leased
        /\ point \notin InUse /\ point \notin Leased
    BY <1>1 DEF Points, InUse, Leased, Waiting
  <2>2. /\ Flights(s) /\ Handles(s) /\ Ends(s) /\ Pending(s) /\ Signals(s) /\ Waits(s)
    BY <1>1, <2>1, RestKept DEF RoomFits
  <2>3. s \in Rooms /\ Moved(s, q, x, point)
    BY <2>1, AtEffect
  <2> HIDE DEF s
  <2>4. Places(s)
    BY <1>1, <2>1, <2>3 DEF RoomFits, Places, Moved
  <2> QED  BY <2>2, <2>3, <2>4 DEF RoomFits, s
<1>2. CASE r.n[x] = MaxSettle \/ x \in r.newer \/ r.st \in {"suspended", "closed"}
  <2>1. WaitStep(r, x) = WaitEnds(r, x)
    BY <1>2 DEF WaitStep
  <2> QED  BY <2>1, WaitEndsFits
<1>3. CASE ~(r.n[x] = MaxSettle \/ x \in r.newer \/ r.st \in {"suspended", "closed"})
  <2>1. CASE Closing(r)
    <3>1. WaitStep(r, x) = At(BeginDisposal(r), x, "wdisp")
      BY <1>3, <2>1 DEF WaitStep
    <3>2. /\ BeginDisposal(r) \in Rooms /\ RoomFits(BeginDisposal(r))
          /\ Closing(BeginDisposal(r)) /\ BeginDisposal(r).pc = r.pc
      BY BeginDisposalFits DEF Closing
    <3> QED  BY <1>1, <3>1, <3>2 DEF Waiting
  <2>2. CASE ~Closing(r) /\ InFlight(r)
    <3>1. \E point \in {"wacq", "wjoin"} : WaitStep(r, x) = At(r, x, point)
      BY <1>3, <2>2 DEF WaitStep
    <3> QED  BY <1>1, <1>3, <2>2, <3>1 DEF Waiting
  <2>3. CASE ~Closing(r) /\ ~InFlight(r) /\ r.leases # {}
    <3>1. ~r.settleable
      BY <1>3, <2>3 DEF RoomFits, Signals
    <3>2. WaitStep(r, x) = At(r, x, "wsig")
      BY <1>3, <2>3, <3>1 DEF WaitStep
    <3> QED  BY <1>1, <1>3, <2>3, <3>2 DEF Waiting
  <2>4. CASE ~Closing(r) /\ ~InFlight(r) /\ r.leases = {}
    <3>1. r.cause = "recovery"
      BY <1>3, <2>4 DEF RoomFits, Pending, Closing
    <3>2. WaitStep(r, x) = At(StartRelease(r, r.cause, FALSE), x, "wjoin")
      BY <1>3, <2>4, <3>1 DEF WaitStep
    <3>3. /\ r.cause \in Causes /\ FALSE \in BOOLEAN
          /\ r.st \notin {"suspended", "disposing", "closed"}
      BY <1>3, <2>4, <3>1 DEF RoomFits, Ends, Closing, Causes
    <3>4. LET q == StartRelease(r, r.cause, FALSE)
          IN /\ q \in Rooms /\ RoomFits(q) /\ q.pc = r.pc /\ q.cause \in {"recovery", "final"}
      BY <2>4, <3>1, <3>3, ReleaseFits
    <3> QED  BY <1>1, <3>2, <3>4 DEF Waiting
  <2> QED  BY <2>1, <2>2, <2>3, <2>4
<1> QED  BY <1>2, <1>3

\* dispose() begins, confirms or fails on a suspended room without accepted work.
LEMMA DisposeStepFits ==
    ASSUME NEW r \in Rooms, RoomFits(r), r.closing = TRUE, Accepted(r) = {},
           r.st \in {"suspended", "disposing"},
           NEW st, NEW d,
           \/ st = "disposing" /\ d = "dispose"
           \/ st = "closed" /\ d = "done"
           \/ st = "suspended" /\ d = "failed"
    PROVE  /\ [r EXCEPT !.st = st, !.disposal = d] \in Rooms
           /\ RoomFits([r EXCEPT !.st = st, !.disposal = d])
<1> DEFINE u == [r EXCEPT !.st = st, !.disposal = d]
<1>1. /\ st \in States
      /\ d \in {"none", "start", "grace", "drain", "join", "release", "dispose", "failed",
                "done"}
  BY DEF States
<1>2. u \in Rooms
  BY <1>1, Zenon DEF Rooms
<1>3. /\ u.disposal = d /\ u.st = st
      /\ u.cause = r.cause /\ u.tr = r.tr /\ u.overlap = r.overlap
      /\ u.leases = r.leases /\ u.holders = r.holders /\ u.owned = r.owned
      /\ u.unwinding = r.unwinding /\ u.closing = r.closing /\ u.stopping = r.stopping
      /\ u.armed = r.armed /\ u.settleable = r.settleable /\ u.pc = r.pc
      /\ u.newer = r.newer /\ u.handle = r.handle /\ u.spun = r.spun
      /\ u.dropped = r.dropped
  BY Zenon DEF Rooms
<1> HIDE DEF u
<1>4. ~InFlight(r) /\ r.handle = "none" /\ ~r.armed /\ r.leases = {}
  BY DEF RoomFits, Flights, Handles, Signals, Places, Accepted, InUse
<1>5. Places(u)
  BY <1>3 DEF RoomFits, Places
<1>6. Flights(u)
  BY <1>3, <1>4 DEF RoomFits, Flights, InFlight
<1>7. Handles(u)
  BY <1>3, <1>4 DEF RoomFits, Handles
<1>8. Ends(u) /\ Signals(u)
  BY <1>3, <1>4 DEF RoomFits, Ends, Signals, Accepted, Closing
<1>9. Pending(u) /\ Waits(u)
  BY <1>3 DEF RoomFits, Pending, Waits, Closing
<1> QED  BY <1>2, <1>5, <1>6, <1>7, <1>8, <1>9 DEF RoomFits, u

\* The end of the drain: a final release, or dispose() itself on a suspended room.
LEMMA DrainedFits ==
    ASSUME NEW r \in Rooms, RoomFits(r), r.disposal \in {"start", "grace", "drain", "join"}
    PROVE  Drained(r) \in Rooms /\ RoomFits(Drained(r))
<1>1. r.closing = TRUE /\ r.disposal \notin {"none", "dispose", "done"}
  BY DEF RoomFits, Ends, Rooms
<1>2. CASE Accepted(r) # {}
  BY <1>1, <1>2, DisposalAtFits DEF Drained
<1>3. CASE Accepted(r) = {} /\ InFlight(r)
  BY <1>1, <1>3, DisposalAtFits DEF Drained
<1>4. CASE Accepted(r) = {} /\ ~InFlight(r) /\ r.st # "suspended"
  <2> DEFINE s == StartRelease(r, "final", FALSE)
  <2>1. Drained(r) = [s EXCEPT !.disposal = "release"]
    BY <1>4 DEF Drained, FinalRelease
  <2>2. r.leases = {} /\ r.st \notin {"disposing", "closed"}
    BY <1>1, <1>4 DEF RoomFits, Places, Ends, Accepted, InUse
  <2>3. "final" \in Causes /\ FALSE \in BOOLEAN
    BY DEF Causes
  <2>4. s \in Rooms /\ RoomFits(s) /\ s.disposal = r.disposal /\ s.pc = r.pc /\ s.owned = r.owned
    BY <1>1, <1>4, <2>2, <2>3, ReleaseFits
  <2> HIDE DEF s
  <2>5. Accepted(s) = {}
    BY <1>4, <2>4 DEF RoomFits, Places, Accepted
  <2>6. s.closing = TRUE
    BY <1>1, <2>4 DEF RoomFits, Ends, Rooms
  <2> QED  BY <1>1, <2>1, <2>4, <2>5, <2>6, DisposalAtFits
<1>5. CASE Accepted(r) = {} /\ ~InFlight(r) /\ r.st = "suspended"
  <2> DEFINE u == [r EXCEPT !.st = "disposing", !.disposal = "dispose"]
  <2>1. Drained(r) = u
    BY <1>5 DEF Drained, FinalRelease
  <2>2. u \in Rooms /\ RoomFits(u)
    BY <1>1, <1>5, DisposeStepFits
  <2> QED  BY <2>1, <2>2
<1> QED  BY <1>2, <1>3, <1>4, <1>5

\* The work that may be cancelled is told, and so is an acquisition in progress.
LEMMA CancelWorkFits ==
    ASSUME NEW r \in Rooms, RoomFits(r), r.disposal \in {"start", "grace"}
    PROVE  CancelWork(r) \in Rooms /\ RoomFits(CancelWork(r))
<1> DEFINE told == r.told \cup Uncancelled(r)
           c == [r EXCEPT !.workCancelled = TRUE, !.told = told]
           d == IF r.st = "acquiring" THEN CancelAcquisition(c) ELSE c
<1>1. CancelWork(r) = Drained(d)
  BY Zenon DEF CancelWork
<1>2. told \in SUBSET Workers
  BY DEF Rooms, Uncancelled
<1> HIDE DEF told
<1>3. c \in Rooms
  BY <1>2, Zenon DEF Rooms
<1>4. Alike(c, r)
  BY Zenon DEF Rooms, Alike
<1>5. c.disposal = r.disposal
  BY <1>4 DEF Alike
<1>6. RoomFits(c)
  BY <1>4, AlikeFits
<1> HIDE DEF c
<1>7. d \in Rooms /\ RoomFits(d) /\ d.disposal = r.disposal
  BY <1>3, <1>5, <1>6, CancelAcquisitionFits DEF RoomFits
<1> QED  BY <1>1, <1>7, DrainedFits

-----------------------------------------------------------------------------
(* The actions *)

\* Whatever bound an action counts against, it is enough that its room fits.
LEMMA StepFits ==
    ASSUME TypeOK, NEW s, s \in Rooms, RoomFits(s), Do(s) \/ Call(s) \/ Fault(s)
    PROVE  RetentionInv'
<1>1. t' = s /\ calls' \in 0..MaxCalls /\ faults' \in 0..MaxFaults
  BY BoundsAssumption DEF TypeOK, Do, Call, Fault
<1>2. TypeOK'
  BY <1>1 DEF TypeOK
<1>3. RoomFits(t')
  BY <1>1
<1> QED  BY <1>2, <1>3 DEF RetentionInv

\* use() to its first await: the worker is a holder before it is anywhere.
LEMMA EnterFits ==
    ASSUME RetentionInv, NEW x \in Workers, Enter(x)
    PROVE  RetentionInv'
<1> DEFINE holders == t.holders \cup {x}
           e == [t EXCEPT !.holders = holders]
           s == SettleStep(Schedule(e), x)
<1>1. /\ t \in Rooms /\ RoomFits(t) /\ TypeOK
      /\ t.pc[x] \in {"out", "own"} /\ ~Closing(t)
  BY DEF RetentionInv, TypeOK, Enter
<1>2. Call(s)
  BY Zenon DEF Enter
<1>3. holders \in SUBSET Workers
  BY <1>1 DEF Rooms
<1> HIDE DEF holders
<1>4. e \in Rooms
  BY <1>1, <1>3, Zenon DEF Rooms
<1>5. /\ e.holders = holders
      /\ e.leases = t.leases /\ e.owned = t.owned
      /\ e.unwinding = t.unwinding /\ e.cause = t.cause /\ e.st = t.st /\ e.tr = t.tr
      /\ e.overlap = t.overlap /\ e.closing = t.closing /\ e.stopping = t.stopping
      /\ e.disposal = t.disposal
      /\ e.newer = t.newer /\ e.handle = t.handle /\ e.spun = t.spun
      /\ e.dropped = t.dropped /\ e.pc = t.pc
  BY <1>1, Zenon DEF Rooms
<1> HIDE DEF e
<1>6. Settling(e, x)
  BY <1>1, <1>5 DEF RoomFits, Places, Settling, holders
<1>7. Flights(e) /\ Handles(e)
  BY <1>1, <1>5 DEF RoomFits, Flights, Handles, InFlight
<1>8. Ends(e)
  BY <1>1, <1>5 DEF RoomFits, Ends, Closing
<1>9. Pending(e) /\ Waits(e)
  BY <1>1, <1>5 DEF RoomFits, Pending, Waits, Closing
<1>10. Schedule(e) \in Rooms
  BY <1>4, ScheduleType
<1>11. /\ Settling(Schedule(e), x)
       /\ Flights(Schedule(e)) /\ Handles(Schedule(e)) /\ Ends(Schedule(e))
       /\ Pending(Schedule(e)) /\ Signals(Schedule(e)) /\ Waits(Schedule(e))
  BY <1>4, <1>6, <1>7, <1>8, <1>9, ScheduleKeeps
<1>12. s \in Rooms /\ RoomFits(s)
  BY <1>10, <1>11, SettleStepFits
<1> HIDE DEF s
<1> QED  BY <1>1, <1>2, <1>12, StepFits

LEMMA LeaveTFits ==
    ASSUME RetentionInv, NEW x \in Workers
    PROVE  Leave(t, x) \in Rooms /\ RoomFits(Leave(t, x))
  BY FitsUnscheduled, FitsButOne, LeaveFits DEF RetentionInv, TypeOK

LEMMA PrepareEndsFits ==
    ASSUME RetentionInv, NEW x \in Workers, PrepareEnds(x)
    PROVE  RetentionInv'
<1>1. /\ t \in Rooms /\ RoomFits(t) /\ TypeOK /\ t.pc[x] \in Leased
      /\ Do(ResidentStep(t, x)) \/ Fault(Leave(t, x))
  BY DEF RetentionInv, TypeOK, PrepareEnds, Leased
<1>2. ResidentStep(t, x) \in Rooms /\ RoomFits(ResidentStep(t, x))
  BY <1>1, ResidentStepFits
<1>3. CASE Do(ResidentStep(t, x))
  BY <1>1, <1>2, <1>3, StepFits
<1>4. CASE Fault(Leave(t, x))
  BY <1>1, <1>4, LeaveTFits, StepFits
<1> QED  BY <1>1, <1>3, <1>4

LEMMA JoinedFits ==
    ASSUME RetentionInv, NEW x \in Workers, Joined(x)
    PROVE  RetentionInv'
<1>1. /\ t \in Rooms /\ RoomFits(t) /\ TypeOK /\ t.pc[x] \in Joining \cup {"sig"}
      /\ Do(IF t.res[x] = "error" THEN Leave(t, x) ELSE Loop(t, x))
  BY DEF RetentionInv, TypeOK, Joined
<1>2. Loop(t, x) \in Rooms /\ RoomFits(Loop(t, x))
  <2>1. CASE t.pc[x] \in {"join", "sig"}
    <3>1. Settling(t, x)
      BY <1>1, <2>1 DEF RoomFits, Places, Settling, InUse
    <3>2. SettleStep(t, x) \in Rooms /\ RoomFits(SettleStep(t, x))
      BY <1>1, <3>1, SettleStepFits DEF RoomFits
    <3> QED  BY <2>1, <3>2 DEF Loop
  <2>2. CASE t.pc[x] \notin {"join", "sig"}
    <3>1. t.pc[x] \in Leased
      BY <1>1, <2>2 DEF Joining, Leased
    <3> QED  BY <1>1, <2>2, <3>1, ResidentStepFits DEF Loop
  <2> QED  BY <2>1, <2>2
<1>3. CASE t.res[x] = "error"
  BY <1>1, <1>3, LeaveTFits, StepFits
<1>4. CASE t.res[x] # "error"
  BY <1>1, <1>2, <1>4, StepFits
<1> QED  BY <1>3, <1>4

\* A wait of _join that ends without its transition: an acquisition is abandoned.
LEMMA UnjoinedFits ==
    ASSUME RetentionInv, NEW x \in Workers, t.pc[x] \in InUse
    PROVE  /\ Unjoined(x) \in Rooms /\ RoomFits(Unjoined(x))
           /\ Unjoined(x).pc[x] \in {"own", "out"}
<1>1. t \in Rooms /\ RoomFits(t) /\ Unscheduled(t)
  BY FitsUnscheduled DEF RetentionInv, TypeOK
<1>2. CASE t.pc[x] = "init"
  <2> DEFINE a == Abandon(t)
             b == AbandonAcquisition(t)
  <2>1. Closing(t) \/ t.st # "suspended"
    BY <1>1, <1>2 DEF RoomFits, Pending
  <2>2. a \in Rooms /\ Unscheduled(a)
    BY <1>1, <2>1, AbandonFits DEF Unscheduled
  <2>3. b = CancelAcquisition(a) \/ b = a
    BY DEF AbandonAcquisition
  <2> HIDE DEF a
  <2>4. b \in Rooms /\ Unscheduled(b)
    BY <2>2, <2>3, CancelAcquisitionFits DEF Unscheduled
  <2>5. Unjoined(x) = Leave(b, x)
    BY <1>2 DEF Unjoined
  <2> HIDE DEF b
  <2> QED  BY <2>4, <2>5, FitsButOne, LeaveFits
<1>3. CASE t.pc[x] # "init"
  BY <1>1, <1>3, FitsButOne, LeaveFits DEF Unjoined
<1> QED  BY <1>2, <1>3

LEMMA JoinTimesOutFits ==
    ASSUME RetentionInv, NEW x \in Workers, JoinTimesOut(x)
    PROVE  RetentionInv'
<1>1. TypeOK /\ t.pc[x] \in InUse /\ Do(Unjoined(x))
  BY DEF RetentionInv, JoinTimesOut, Joining, InUse, Leased
<1> QED  BY <1>1, UnjoinedFits, StepFits

LEMMA WorkEndsFits ==
    ASSUME RetentionInv, NEW x \in Workers, WorkEnds(x)
    PROVE  RetentionInv'
  BY LeaveTFits, StepFits DEF WorkEnds, RetentionInv

\* A cancelled worker is outside use() and outside wait_released().
LEMMA CancelledFits ==
    ASSUME RetentionInv, NEW x \in Workers, Cancelled(x)
    PROVE  RetentionInv'
<1> DEFINE r == IF t.pc[x] \in InUse THEN Unjoined(x) ELSE t
           point == IF x \in t.owned THEN "end" ELSE "out"
           told == r.told \ {x}
           newer == r.newer \ {x}
           pc == [r.pc EXCEPT ![x] = point]
           n == [r.n EXCEPT ![x] = 0]
           res == [r.res EXCEPT ![x] = "none"]
           s == [r EXCEPT !.told = told, !.newer = newer, !.n = n, !.res = res, !.pc = pc]
<1>1. TypeOK /\ Do(s)
  BY ZenonT(60) DEF RetentionInv, Cancelled
<1>2. r \in Rooms /\ RoomFits(r) /\ r.pc[x] \notin InUse
  BY UnjoinedFits DEF RetentionInv, TypeOK, InUse, Leased
<1> HIDE DEF r
<1>3. /\ told \in SUBSET Workers /\ newer \in SUBSET Workers
      /\ n \in [Workers -> Nat]
      /\ res \in [Workers -> {"none", "ok", "error", "cancelled"}]
      /\ \A y \in Workers : y # x => (y \in newer <=> y \in r.newer)
  BY <1>2 DEF Rooms
<1>4. /\ pc \in [Workers -> Points] /\ pc[x] = point
      /\ \A y \in Workers : y # x => pc[y] = r.pc[y]
      /\ point \in {"end", "out"}
  BY <1>2 DEF Rooms, Points
<1> HIDE DEF told, newer, n, res, pc, point
<1>5. s \in Rooms
  <2> DEFINE q == [r EXCEPT !.told = told, !.newer = newer]
  <2>1. q \in Rooms
    BY <1>2, <1>3, Zenon DEF Rooms
  <2> HIDE DEF q
  <2>2. [q EXCEPT !.n = n, !.res = res, !.pc = pc] \in Rooms
    BY <1>3, <1>4, <2>1, Zenon DEF Rooms
  <2> QED  BY <2>2, Zenon DEF q
<1>6. /\ s.pc = pc /\ s.newer = newer
      /\ s.leases = r.leases /\ s.holders = r.holders
      /\ s.cause = r.cause /\ s.st = r.st /\ s.tr = r.tr /\ s.overlap = r.overlap
      /\ s.owned = r.owned
      /\ s.unwinding = r.unwinding /\ s.closing = r.closing /\ s.stopping = r.stopping
      /\ s.armed = r.armed /\ s.settleable = r.settleable
      /\ s.disposal = r.disposal /\ s.handle = r.handle /\ s.spun = r.spun
      /\ s.dropped = r.dropped
  BY <1>2, Zenon DEF Rooms
<1> HIDE DEF s
<1>7. Places(s)
  <2>1. r.pc[x] \notin Leased /\ pc[x] \notin InUse \cup Leased
    BY <1>2, <1>4 DEF InUse, Leased
  <2> QED  BY <1>2, <2>1, <1>4, <1>6 DEF RoomFits, Places
<1>8. Flights(s) /\ Handles(s)
  BY <1>2, <1>4, <1>6 DEF RoomFits, Flights, Handles, InFlight
<1>9. Ends(s) /\ Signals(s)
  BY <1>2, <1>6 DEF RoomFits, Ends, Signals, Accepted, Closing
<1>10. Pending(s)
  BY <1>2, <1>4, <1>6 DEF RoomFits, Pending, Closing
<1>11. Waits(s)
  BY <1>2, <1>3, <1>4, <1>6 DEF RoomFits, Waits, Closing, Waiting
<1> QED  BY <1>1, <1>5, <1>7, <1>8, <1>9, <1>10, <1>11, StepFits DEF RoomFits

LEMMA CancelFits ==
    ASSUME RetentionInv, NEW x \in Workers, Cancel(x)
    PROVE  RetentionInv'
<1> DEFINE told == t.told \cup {x}
           s == [t EXCEPT !.told = told]
<1>1. t \in Rooms /\ RoomFits(t) /\ TypeOK /\ Fault(s)
  BY Zenon DEF RetentionInv, TypeOK, Cancel
<1>2. told \in SUBSET Workers
  BY <1>1 DEF Rooms
<1> HIDE DEF told
<1>3. s \in Rooms
  BY <1>1, <1>2, Zenon DEF Rooms
<1>4. Alike(s, t)
  BY <1>1, Zenon DEF Rooms, Alike
<1> HIDE DEF s
<1> QED  BY <1>1, <1>3, <1>4, AlikeFits, StepFits

LEMMA OwnFits ==
    ASSUME RetentionInv, NEW x \in Workers, Own(x)
    PROVE  RetentionInv'
<1> DEFINE owned == t.owned \cup {x}
           pc == [t.pc EXCEPT ![x] = "own"]
           s == [t EXCEPT !.owned = owned, !.pc = pc]
<1>1. /\ t \in Rooms /\ RoomFits(t) /\ TypeOK /\ t.pc[x] = "out" /\ ~Closing(t)
      /\ Call(Schedule(s))
  BY Zenon DEF RetentionInv, TypeOK, Own
<1>2. /\ owned \in SUBSET Workers /\ t.owned \subseteq owned
      /\ pc \in [Workers -> Points] /\ pc[x] = "own"
      /\ \A y \in Workers : y # x => pc[y] = t.pc[y]
  BY <1>1 DEF Rooms, Points
<1> HIDE DEF owned, pc
<1>3. s \in Rooms
  BY <1>1, <1>2, Zenon DEF Rooms
<1>4. /\ s.owned = owned /\ s.pc = pc
      /\ s.leases = t.leases /\ s.holders = t.holders
      /\ s.unwinding = t.unwinding /\ s.cause = t.cause /\ s.st = t.st /\ s.tr = t.tr
      /\ s.overlap = t.overlap /\ s.closing = t.closing /\ s.stopping = t.stopping
      /\ s.disposal = t.disposal /\ s.newer = t.newer /\ s.handle = t.handle
      /\ s.spun = t.spun /\ s.dropped = t.dropped
  BY <1>1, Zenon DEF Rooms
<1> HIDE DEF s
<1>5. Places(s)
  BY <1>1, <1>2, <1>4 DEF RoomFits, Places, InUse, Leased
<1>6. Flights(s) /\ Handles(s)
  BY <1>1, <1>2, <1>4 DEF RoomFits, Flights, Handles, InFlight
<1>7. Ends(s)
  BY <1>1, <1>4 DEF RoomFits, Ends, Closing
<1>8. Pending(s) /\ Waits(s)
  BY <1>1, <1>2, <1>4 DEF RoomFits, Pending, Waits, Closing, Waiting
<1>9. Schedule(s) \in Rooms /\ RoomFits(Schedule(s))
  BY <1>3, <1>5, <1>6, <1>7, <1>8, ScheduleFits DEF Unscheduled
<1> QED  BY <1>1, <1>9, StepFits

LEMMA OwnEndsFits ==
    ASSUME RetentionInv, NEW x \in Workers, OwnEnds(x)
    PROVE  RetentionInv'
<1> DEFINE owned == t.owned \ {x}
           unwinding == t.unwinding \ {x}
           pc == [t.pc EXCEPT ![x] = "out"]
           s == [t EXCEPT !.owned = owned, !.unwinding = unwinding, !.pc = pc]
<1>1. /\ t \in Rooms /\ RoomFits(t) /\ TypeOK /\ t.pc[x] \in {"own", "end"}
      /\ Do(Schedule(s))
  BY Zenon DEF RetentionInv, TypeOK, OwnEnds
<1>2. /\ owned \in SUBSET Workers /\ unwinding \in SUBSET Workers
      /\ owned \subseteq t.owned /\ unwinding \subseteq owned
      /\ pc \in [Workers -> Points] /\ pc[x] = "out"
      /\ \A y \in Workers : y # x => pc[y] = t.pc[y]
  BY <1>1 DEF Rooms, Points, RoomFits, Places
<1> HIDE DEF owned, unwinding, pc
<1>3. s \in Rooms
  BY <1>1, <1>2, Zenon DEF Rooms
<1>4. /\ s.owned = owned /\ s.pc = pc /\ s.unwinding = unwinding
      /\ s.leases = t.leases /\ s.holders = t.holders
      /\ s.cause = t.cause /\ s.st = t.st /\ s.tr = t.tr
      /\ s.overlap = t.overlap /\ s.closing = t.closing /\ s.stopping = t.stopping
      /\ s.disposal = t.disposal /\ s.newer = t.newer /\ s.handle = t.handle
      /\ s.spun = t.spun /\ s.dropped = t.dropped
  BY <1>1, Zenon DEF Rooms
<1> HIDE DEF s
<1>5. Places(s)
  BY <1>1, <1>2, <1>4 DEF RoomFits, Places, InUse, Leased
<1>6. Flights(s) /\ Handles(s)
  BY <1>1, <1>2, <1>4 DEF RoomFits, Flights, Handles, InFlight
<1>7. Ends(s)
  BY <1>1, <1>2, <1>4 DEF RoomFits, Ends, Accepted
<1>8. Pending(s) /\ Waits(s)
  BY <1>1, <1>2, <1>4 DEF RoomFits, Pending, Waits, Closing, Waiting
<1>9. Schedule(s) \in Rooms /\ RoomFits(Schedule(s))
  BY <1>3, <1>5, <1>6, <1>7, <1>8, ScheduleFits DEF Unscheduled
<1> QED  BY <1>1, <1>9, StepFits

\* A wider exemption, and admission that closes, keep a room that fits.
LEMMA ExemptFits ==
    ASSUME NEW r \in Rooms, RoomFits(r), NEW unwinding \in SUBSET r.owned
    PROVE  /\ [r EXCEPT !.unwinding = unwinding] \in Rooms
           /\ RoomFits([r EXCEPT !.unwinding = unwinding])
<1> DEFINE s == [r EXCEPT !.unwinding = unwinding]
<1>1. unwinding \in SUBSET Workers
  BY DEF Rooms
<1>2. s \in Rooms
  BY <1>1, Zenon DEF Rooms
<1>3. /\ s.unwinding = unwinding
      /\ s.owned = r.owned /\ s.pc = r.pc
      /\ s.leases = r.leases /\ s.holders = r.holders
      /\ s.cause = r.cause /\ s.st = r.st /\ s.tr = r.tr
      /\ s.overlap = r.overlap /\ s.closing = r.closing /\ s.stopping = r.stopping
      /\ s.armed = r.armed /\ s.settleable = r.settleable
      /\ s.disposal = r.disposal /\ s.newer = r.newer /\ s.handle = r.handle
      /\ s.spun = r.spun /\ s.dropped = r.dropped
  BY Zenon DEF Rooms
<1> HIDE DEF s
<1>4. Places(s) /\ Handles(s)
  BY <1>3 DEF RoomFits, Places, Handles
<1>5. Flights(s) /\ Signals(s) /\ Ends(s)
  BY <1>3 DEF RoomFits, Flights, Signals, Ends, InFlight, Accepted, Closing
<1>6. Pending(s) /\ Waits(s)
  BY <1>3 DEF RoomFits, Pending, Waits, Closing
<1> QED  BY <1>2, <1>4, <1>5, <1>6 DEF RoomFits, s

LEMMA BeginSettlementFits ==
    ASSUME RetentionInv, NEW x \in Workers, BeginSettlement(x)
    PROVE  RetentionInv'
<1> DEFINE unwinding == t.unwinding \cup {x}
           s == [t EXCEPT !.unwinding = unwinding]
<1>1. t \in Rooms /\ RoomFits(t) /\ TypeOK /\ x \in t.owned /\ Fault(s)
  BY Zenon DEF RetentionInv, TypeOK, BeginSettlement
<1>2. unwinding \in SUBSET t.owned
  BY <1>1 DEF RoomFits, Places
<1> HIDE DEF unwinding
<1>3. s \in Rooms /\ RoomFits(s)
  BY <1>1, <1>2, ExemptFits
<1> HIDE DEF s
<1> QED  BY <1>1, <1>3, StepFits

LEMMA RequestDisposalFits ==
    ASSUME RetentionInv, NEW x \in Workers, RequestDisposal(x)
    PROVE  RetentionInv'
<1> DEFINE unwinding == t.unwinding \cup ({x} \cap t.owned)
           s == [t EXCEPT !.unwinding = unwinding]
<1>1. t \in Rooms /\ RoomFits(t) /\ TypeOK /\ Do(BeginDisposal(s))
  BY Zenon DEF RetentionInv, TypeOK, RequestDisposal
<1>2. unwinding \in SUBSET t.owned
  BY <1>1 DEF RoomFits, Places
<1> HIDE DEF unwinding
<1>3. s \in Rooms /\ RoomFits(s)
  BY <1>1, <1>2, ExemptFits
<1> HIDE DEF s
<1>4. BeginDisposal(s) \in Rooms /\ RoomFits(BeginDisposal(s))
  BY <1>3, BeginDisposalFits
<1> QED  BY <1>1, <1>4, StepFits

LEMMA StopFits ==
    ASSUME RetentionInv, NEW x \in Workers, Stop(x)
    PROVE  RetentionInv'
<1> DEFINE unwinding == t.unwinding \cup ({x} \cap t.owned)
           s == [t EXCEPT !.stopping = TRUE, !.shutdown = "due", !.unwinding = unwinding]
<1>1. t \in Rooms /\ RoomFits(t) /\ TypeOK /\ Do(s)
  BY Zenon DEF RetentionInv, TypeOK, Stop
<1>2. unwinding \in SUBSET Workers /\ unwinding \subseteq t.owned
  BY <1>1 DEF RoomFits, Places, Rooms
<1> HIDE DEF unwinding
<1>3. s \in Rooms
  BY <1>1, <1>2, Zenon DEF Rooms
<1>4. /\ s.stopping = TRUE /\ s.unwinding = unwinding
      /\ s.owned = t.owned /\ s.pc = t.pc
      /\ s.leases = t.leases /\ s.holders = t.holders
      /\ s.cause = t.cause /\ s.st = t.st /\ s.tr = t.tr
      /\ s.overlap = t.overlap /\ s.closing = t.closing
      /\ s.armed = t.armed /\ s.settleable = t.settleable
      /\ s.disposal = t.disposal /\ s.newer = t.newer /\ s.handle = t.handle
      /\ s.spun = t.spun /\ s.dropped = t.dropped
  BY <1>1, Zenon DEF Rooms
<1> HIDE DEF s
<1>5. Places(s) /\ Handles(s)
  BY <1>1, <1>2, <1>4 DEF RoomFits, Places, Handles
<1>6. Flights(s) /\ Signals(s) /\ Ends(s)
  BY <1>1, <1>4 DEF RoomFits, Flights, Signals, Ends, InFlight, Accepted, Closing
<1>7. Pending(s) /\ Waits(s)
  BY <1>1, <1>4 DEF RoomFits, Pending, Waits, Closing
<1> QED  BY <1>1, <1>3, <1>5, <1>6, <1>7, StepFits DEF RoomFits

LEMMA WaitReleasedFits ==
    ASSUME RetentionInv, NEW x \in Workers, WaitReleased(x)
    PROVE  RetentionInv'
<1>1. /\ t \in Rooms /\ RoomFits(t) /\ TypeOK /\ t.pc[x] \in Waiting \cup {"out"}
      /\ Closing(t) \/ t.cause = "recovery"
      /\ Call(WaitStep(t, x))
  BY DEF RetentionInv, TypeOK, WaitReleased
<1>2. WaitStep(t, x) \in Rooms /\ RoomFits(WaitStep(t, x))
  BY <1>1, WaitStepFits
<1> QED  BY <1>1, <1>2, StepFits

LEMMA WaitResumesFits ==
    ASSUME RetentionInv, NEW x \in Workers, WaitResumes(x) \/ WaitTimesOut(x)
    PROVE  RetentionInv'
<1>1. /\ t \in Rooms /\ RoomFits(t) /\ TypeOK /\ t.pc[x] \in Waiting
      /\ Do(WaitEnds(t, x)) \/ Do(WaitStep(t, x))
  BY DEF RetentionInv, TypeOK, WaitResumes, WaitTimesOut
<1>2. WaitEnds(t, x) \in Rooms /\ RoomFits(WaitEnds(t, x))
  BY <1>1, WaitEndsFits
<1>3. WaitStep(t, x) \in Rooms /\ RoomFits(WaitStep(t, x))
  BY <1>1, WaitStepFits DEF RoomFits, Waits
<1> QED  BY <1>1, <1>2, <1>3, StepFits

\* An observation changes nothing but what the deadline is derived from.
LEMMA ObserveFits ==
    ASSUME RetentionInv, NEW quiet \in BOOLEAN, Observe(quiet)
    PROVE  RetentionInv'
<1> DEFINE s == [t EXCEPT !.quiet = quiet]
<1>1. t \in Rooms /\ RoomFits(t) /\ TypeOK /\ Do(Schedule(s))
  BY Zenon DEF RetentionInv, TypeOK, Observe
<1>2. s \in Rooms
  BY <1>1, Zenon DEF Rooms
<1>3. Alike(s, t)
  BY <1>1, Zenon DEF Rooms, Alike
<1> HIDE DEF s
<1>4. Schedule(s) \in Rooms /\ RoomFits(Schedule(s))
  BY <1>1, <1>2, <1>3, AlikeFits, FitsUnscheduled, ScheduleFits
<1> QED  BY <1>1, <1>4, StepFits

\* A room whose signals need deriving, and another like it.
LEMMA AlikeUnscheduled ==
    ASSUME NEW r, NEW s, Alike(s, r), Unscheduled(r)
    PROVE  Unscheduled(s)
<1>1. Places(s) /\ Handles(s)
  BY DEF Alike, Unscheduled, Places, Handles
<1>2. Flights(s) /\ Ends(s)
  BY DEF Alike, Unscheduled, Flights, Ends, InFlight, Accepted
<1>3. Pending(s) /\ Waits(s)
  BY DEF Alike, Unscheduled, Pending, Waits, Closing
<1> QED  BY <1>1, <1>2, <1>3 DEF Unscheduled

LEMMA RecoverFits ==
    ASSUME RetentionInv, Recover
    PROVE  RetentionInv'
<1> DEFINE a == Abandon(t)
           s == [a EXCEPT !.quiet = FALSE]
           u == StartRequestedRecovery(Schedule(s))
<1>1. /\ t \in Rooms /\ RoomFits(t) /\ Unscheduled(t) /\ TypeOK /\ t.st # "suspended"
      /\ Fault(u)
  BY FitsUnscheduled DEF RetentionInv, TypeOK, Recover, HasAuthority
<1>2. a \in Rooms /\ Unscheduled(a)
  BY <1>1, AbandonFits DEF Unscheduled
<1> HIDE DEF a
<1>3. s \in Rooms
  BY <1>2, Zenon DEF Rooms
<1>4. Alike(s, a)
  BY <1>2, Zenon DEF Rooms, Alike
<1> HIDE DEF s
<1>5. Schedule(s) \in Rooms /\ RoomFits(Schedule(s))
  BY <1>2, <1>3, <1>4, AlikeUnscheduled, ScheduleFits
<1>6. u \in Rooms /\ RoomFits(u)
  BY <1>5, RecoveryFits
<1> HIDE DEF u
<1> QED  BY <1>1, <1>6, StepFits

\* The deadline is armed only when nothing runs and nobody is there.
LEMMA IdleDueFits ==
    ASSUME RetentionInv, IdleDue
    PROVE  RetentionInv'
<1>1. /\ t \in Rooms /\ RoomFits(t) /\ TypeOK /\ t.armed /\ Do(StartRelease(t, "idle", TRUE))
  BY DEF RetentionInv, TypeOK, IdleDue
<1>2. t.st \in {"resident", "cleanup"} /\ Accepted(t) = {}
  BY <1>1 DEF RoomFits, Signals
<1>3. ~InFlight(t) /\ t.leases = {}
  BY <1>1, <1>2 DEF RoomFits, Flights, Places, Accepted, InUse
<1>4. "idle" \in Causes /\ TRUE \in BOOLEAN /\ "idle" # "final"
      /\ t.st \notin {"suspended", "disposing", "closed"}
  BY <1>2 DEF Causes
<1>5. StartRelease(t, "idle", TRUE) \in Rooms /\ RoomFits(StartRelease(t, "idle", TRUE))
  BY <1>1, <1>3, <1>4, ReleaseFits, Zenon
<1> QED  BY <1>1, <1>5, StepFits

-----------------------------------------------------------------------------
(* The transition task *)

\* What holds while a transition writes its outcome: all that is not about it.
Landing(r) ==
    ~r.overlap /\ Places(r) /\ Handles(r) /\ Ends(r) /\ Pending(r) /\ Waits(r)

LEMMA LandedFits ==
    ASSUME NEW r \in Rooms, Landing(r), NEW result \in Results
    PROVE  /\ Schedule(r) \in Rooms /\ Landing(Schedule(r))
           /\ Ended(Schedule(r), result) \in Rooms
           /\ RoomFits(Ended(Schedule(r), result))
<1>1. /\ Schedule(r) \in Rooms /\ Landing(Schedule(r)) /\ Signals(Schedule(r))
  BY ScheduleType, ScheduleKeeps DEF Landing
<1> QED  BY <1>1, EndedFits DEF Landing

\* The transition writes the state, the handle and the cause, and nothing else the
\* invariant speaks of but the transition itself.
Outcome(s, r, st, handle, cause) ==
    /\ s.st = st /\ s.handle = handle /\ s.cause = cause
    /\ s.leases = r.leases /\ s.holders = r.holders /\ s.owned = r.owned
    /\ s.unwinding = r.unwinding /\ s.overlap = r.overlap
    /\ s.closing = r.closing /\ s.stopping = r.stopping
    /\ s.disposal = r.disposal /\ s.newer = r.newer
    /\ s.spun = r.spun /\ s.dropped = r.dropped /\ s.pc = r.pc

\* What a transition in flight may write.
Admissible(r, st, handle, cause) ==
    /\ st \in {"suspended", "resident", "cleanup"}
    /\ st = "resident" => handle = "open"
    /\ st = "suspended" => handle = "none" /\ (Closing(r) \/ cause = "none")
    /\ st = "suspended" => r.tr.kind = "release" \/ Closing(r)
    /\ cause = "final" => r.cause = "final"
    /\ st # "suspended" /\ r.cause \in {"recovery", "final"} =>
          cause \in {"recovery", "final"}

LEMMA OutcomeLands ==
    ASSUME NEW r \in Rooms, Unscheduled(r), InFlight(r), NEW st, NEW handle, NEW cause,
           Admissible(r, st, handle, cause),
           NEW s \in Rooms, Outcome(s, r, st, handle, cause)
    PROVE  Landing(s)
<1> USE DEF Outcome, Admissible
<1>1. /\ r.st \in {"acquiring", "suspending"}
      /\ r.tr.kind = "release" => r.leases = {}
  BY DEF Unscheduled, Flights
<1>2. \A x \in Workers : r.pc[x] # "work"
  BY <1>1 DEF Unscheduled, Handles
<1>3. \A x \in Workers : r.pc[x] = "init" => Closing(r) \/ st # "suspended"
  <2>1. SUFFICES ASSUME NEW x \in Workers, r.pc[x] = "init", r.tr.kind = "release" PROVE FALSE
    OBVIOUS
  <2> QED  BY <1>1, <2>1 DEF Unscheduled, Places, Leased
<1>4. ~s.overlap /\ Places(s)
  BY DEF Unscheduled, Flights, Places
<1>5. Handles(s)
  BY <1>2 DEF Handles
<1>6. Ends(s)
  BY <1>1 DEF Unscheduled, Ends, Accepted
<1>7. Pending(s)
  BY <1>3 DEF Unscheduled, Pending, Closing
<1>8. Waits(s)
  BY <1>1 DEF Unscheduled, Waits, Closing
<1> QED  BY <1>4, <1>5, <1>6, <1>7, <1>8 DEF Landing

\* A refused idle release lands: as resident when its handle is intact.
LEMMA RefusedLands ==
    ASSUME NEW r \in Rooms, Unscheduled(r), InFlight(r), NEW intact \in BOOLEAN,
           intact => r.handle = "open", NEW result \in Results
    PROVE  /\ RefuseIdleRelease(r, intact) \in Rooms /\ Landing(RefuseIdleRelease(r, intact))
           /\ Ended(RefuseIdleRelease(r, intact), result) \in Rooms
           /\ RoomFits(Ended(RefuseIdleRelease(r, intact), result))
<1> DEFINE kept == [r EXCEPT !.cause = "none", !.st = "resident"]
           lost == [r EXCEPT !.st = "cleanup"]
<1>1. {"resident", "cleanup"} \subseteq States /\ "none" \in Causes
  BY DEF States, Causes
<1>2. CASE r.cause = "idle" /\ intact
  <2>1. RefuseIdleRelease(r, intact) = Schedule(kept)
    BY <1>2, Zenon DEF RefuseIdleRelease
  <2>2. kept \in Rooms
    BY <1>1, Zenon DEF Rooms
  <2>3. Outcome(kept, r, "resident", r.handle, "none")
    BY Zenon DEF Rooms, Outcome
  <2>4. Admissible(r, "resident", r.handle, "none")
    BY <1>2 DEF Admissible
  <2> HIDE DEF kept
  <2> QED  BY <2>1, <2>2, <2>3, <2>4, OutcomeLands, LandedFits
<1>3. CASE ~(r.cause = "idle" /\ intact)
  <2>1. RefuseIdleRelease(r, intact) = Schedule(lost)
    BY <1>3, Zenon DEF RefuseIdleRelease
  <2>2. lost \in Rooms
    BY <1>1, Zenon DEF Rooms
  <2>3. Outcome(lost, r, "cleanup", r.handle, r.cause)
    BY Zenon DEF Rooms, Outcome
  <2>4. Admissible(r, "cleanup", r.handle, r.cause)
    BY DEF Admissible
  <2> HIDE DEF lost
  <2> QED  BY <2>1, <2>2, <2>3, <2>4, OutcomeLands, LandedFits
<1> QED  BY <1>2, <1>3

LEMMA TransitionBeginsFits ==
    ASSUME RetentionInv, TransitionBegins
    PROVE  RetentionInv'
<1> DEFINE io == [t EXCEPT !.tr.at = "io"]
           result == IF t.tr.auto THEN "ok" ELSE "error"
<1>1. /\ t \in Rooms /\ RoomFits(t) /\ Unscheduled(t) /\ TypeOK
      /\ t.tr.at = "new" /\ InFlight(t)
  BY FitsUnscheduled DEF RetentionInv, TypeOK, TransitionBegins, InFlight
<1>2. \/ t.tr.kind = "acquire" /\ Closing(t)
            /\ Do(Ended(Schedule([t EXCEPT !.st = "suspended"]), "error"))
      \/ t.tr.kind = "acquire" /\ Do([io EXCEPT !.handle = "partial"])
      \/ Do(Ended(RefuseIdleRelease(t, t.tr.intact), result))
      \/ t.tr.kind # "acquire" /\ Do(io)
  BY DEF TransitionBegins
<1>3. "error" \in Results /\ result \in Results
  BY DEF Results
<1> HIDE DEF result
<1>4. CASE t.tr.kind = "acquire" /\ Closing(t)
            /\ Do(Ended(Schedule([t EXCEPT !.st = "suspended"]), "error"))
  <2> DEFINE s == [t EXCEPT !.st = "suspended"]
  <2>1. "suspended" \in States
    BY DEF States
  <2>2. s \in Rooms
    BY <1>1, <2>1, Zenon DEF Rooms
  <2>3. Outcome(s, t, "suspended", t.handle, t.cause)
    BY <1>1, Zenon DEF Rooms, Outcome
  <2> HIDE DEF s
  <2>4. Admissible(t, "suspended", t.handle, t.cause)
    BY <1>1, <1>4 DEF Admissible, RoomFits, Flights
  <2>5. Landing(s)
    BY <1>1, <2>2, <2>3, <2>4, OutcomeLands
  <2>6. Ended(Schedule(s), "error") \in Rooms /\ RoomFits(Ended(Schedule(s), "error"))
    BY <1>3, <2>2, <2>5, LandedFits
  <2> QED  BY <1>1, <1>4, <2>6, StepFits DEF s
<1>5. ASSUME NEW handle, NEW s \in Rooms, t.tr.kind = "acquire" \/ handle = t.handle,
             Outcome(s, t, t.st, handle, t.cause),
             s.tr.at = "io", s.tr.kind = t.tr.kind, s.armed = t.armed,
             s.settleable = t.settleable
      PROVE  RoomFits(s)
  <2>1. \/ t.tr.kind = "acquire" /\ t.st = "acquiring"
        \/ t.tr.kind = "release" /\ t.st = "suspending" /\ t.leases = {}
    BY <1>1 DEF RoomFits, Flights
  <2>2. Places(s) /\ Flights(s)
    BY <1>1, <1>5, <2>1 DEF Outcome, RoomFits, Places, Flights, InFlight
  <2>3. Handles(s)
    BY <1>1, <1>5, <2>1 DEF Outcome, RoomFits, Handles
  <2>4. Ends(s) /\ Signals(s)
    BY <1>1, <1>5 DEF Outcome, RoomFits, Ends, Signals, Accepted, Closing
  <2>5. Pending(s) /\ Waits(s)
    BY <1>1, <1>5 DEF Outcome, RoomFits, Pending, Waits, Closing
  <2> QED  BY <2>2, <2>3, <2>4, <2>5 DEF RoomFits
<1> DEFINE tr == [t.tr EXCEPT !.at = "io"]
<1>6. io = [t EXCEPT !.tr = tr]
  BY Zenon
<1>7. tr \in Transitions /\ tr.at = "io" /\ tr.kind = t.tr.kind
  <2>1. t.tr \in Transitions
    BY <1>1, Zenon DEF Rooms
  <2> QED  BY <2>1, Zenon DEF Transitions
<1> HIDE DEF tr, io
<1>8. io \in Rooms /\ io.tr = tr
  BY <1>1, <1>6, <1>7, Zenon DEF Rooms
<1>9. Outcome(io, t, t.st, t.handle, t.cause) /\ io.armed = t.armed
      /\ io.settleable = t.settleable
  BY <1>1, <1>6, Zenon DEF Rooms, Outcome
<1>10. CASE t.tr.kind = "acquire" /\ Do([io EXCEPT !.handle = "partial"])
  <2> DEFINE s == [io EXCEPT !.handle = "partial"]
  <2>1. s \in Rooms /\ s.tr = tr /\ s.armed = io.armed /\ s.settleable = io.settleable
    BY <1>8, Zenon DEF Rooms
  <2>2. Outcome(s, io, io.st, "partial", io.cause)
    BY <1>8, Zenon DEF Rooms, Outcome
  <2> HIDE DEF s
  <2>3. Outcome(s, t, t.st, "partial", t.cause)
    BY <1>9, <2>2 DEF Outcome
  <2>4. RoomFits(s)
    BY <1>5, <1>7, <1>9, <1>10, <2>1, <2>3
  <2> QED  BY <1>1, <1>10, <2>1, <2>4, StepFits DEF s
<1>11. CASE Do(Ended(RefuseIdleRelease(t, t.tr.intact), result))
  <2>1. t.tr.intact \in BOOLEAN
    BY <1>1 DEF Rooms, Transitions
  <2>2. t.tr.intact => t.handle = "open"
    BY <1>1 DEF RoomFits, Flights
  <2>3. /\ Ended(RefuseIdleRelease(t, t.tr.intact), result) \in Rooms
        /\ RoomFits(Ended(RefuseIdleRelease(t, t.tr.intact), result))
    BY <1>1, <1>3, <2>1, <2>2, RefusedLands
  <2> QED  BY <1>1, <1>11, <2>3, StepFits
<1>12. CASE Do(io)
  <2>1. RoomFits(io)
    BY <1>5, <1>7, <1>8, <1>9
  <2> QED  BY <1>1, <1>8, <1>12, <2>1, StepFits
<1> QED  BY <1>2, <1>4, <1>10, <1>11, <1>12

LEMMA AcquiredFits ==
    ASSUME RetentionInv, Acquired
    PROVE  RetentionInv'
<1> DEFINE st == IF t.cause = "none" THEN "resident" ELSE "cleanup"
           s == [t EXCEPT !.handle = "open", !.st = st]
<1>1. /\ t \in Rooms /\ RoomFits(t) /\ Unscheduled(t) /\ TypeOK /\ InFlight(t)
      /\ Do(Ended(Schedule(s), "ok"))
  BY FitsUnscheduled DEF RetentionInv, TypeOK, Acquired, InFlight
<1>2. st \in States /\ "ok" \in Results /\ Admissible(t, st, "open", t.cause)
  BY DEF States, Results, Admissible
<1> HIDE DEF st
<1>3. s \in Rooms
  BY <1>1, <1>2, Zenon DEF Rooms
<1>4. Outcome(s, t, st, "open", t.cause)
  BY <1>1, Zenon DEF Rooms, Outcome
<1> HIDE DEF s
<1>5. Ended(Schedule(s), "ok") \in Rooms /\ RoomFits(Ended(Schedule(s), "ok"))
  BY <1>1, <1>2, <1>3, <1>4, OutcomeLands, LandedFits
<1> QED  BY <1>1, <1>5, StepFits

LEMMA AcquireFailsFits ==
    ASSUME RetentionInv, NEW result \in {"error", "cancelled"}, AcquireFails(result)
    PROVE  RetentionInv'
<1> DEFINE a == Abandon(t)
           s == [a EXCEPT !.st = "cleanup"]
<1>1. /\ t \in Rooms /\ RoomFits(t) /\ Unscheduled(t) /\ TypeOK /\ InFlight(t)
      /\ Do(Ended(Schedule(s), result)) \/ Fault(Ended(Schedule(s), result))
  BY FitsUnscheduled DEF RetentionInv, TypeOK, AcquireFails, InFlight
<1>2. t.st # "suspended" /\ "cleanup" \in States /\ result \in Results
  BY <1>1 DEF RoomFits, Flights, States, Results
<1>3. a \in Rooms /\ Unscheduled(a) /\ InFlight(a)
  BY <1>1, <1>2, AbandonFits DEF Unscheduled, InFlight
<1> HIDE DEF a
<1>4. s \in Rooms
  BY <1>2, <1>3, Zenon DEF Rooms
<1>5. Outcome(s, a, "cleanup", a.handle, a.cause)
  BY <1>3, Zenon DEF Rooms, Outcome
<1>6. Admissible(a, "cleanup", a.handle, a.cause)
  BY DEF Admissible
<1> HIDE DEF s
<1>7. Ended(Schedule(s), result) \in Rooms /\ RoomFits(Ended(Schedule(s), result))
  BY <1>2, <1>3, <1>4, <1>5, <1>6, OutcomeLands, LandedFits
<1> QED  BY <1>1, <1>7, StepFits

\* A confirmed release suspends the room, unless something stronger is pending by now.
LEMMA ReleasedFits ==
    ASSUME RetentionInv, Released
    PROVE  RetentionInv'
<1> DEFINE q == [t EXCEPT !.handle = "none"]
           s == CommitRelease(q, t.tr.cause)
           left == IF t.cause = "final" THEN "final" ELSE "none"
<1>1. /\ t \in Rooms /\ RoomFits(t) /\ Unscheduled(t) /\ TypeOK /\ InFlight(t)
      /\ t.tr.kind = "release" /\ Do(Ended(Schedule(s), "ok"))
  BY FitsUnscheduled DEF RetentionInv, TypeOK, Released, InFlight
<1>2. q \in Rooms /\ q.cause = t.cause
  BY <1>1, Zenon DEF Rooms
<1>3. Outcome(q, t, t.st, "none", t.cause)
  BY <1>1, Zenon DEF Rooms, Outcome
<1> HIDE DEF q
<1>4. {"suspended", "cleanup"} \subseteq States /\ "ok" \in Results /\ left \in Causes
  BY DEF States, Results, Causes
<1>5. s \in Rooms /\ Landing(s)
  <2>1. CASE StrongerCause(t.tr.cause, q.cause) # t.tr.cause
    <3> DEFINE u == [q EXCEPT !.st = "cleanup"]
    <3>1. s = u
      BY <2>1, Zenon DEF CommitRelease
    <3>2. u \in Rooms
      BY <1>2, <1>4, Zenon DEF Rooms
    <3>3. Outcome(u, q, "cleanup", q.handle, q.cause)
      BY <1>2, Zenon DEF Rooms, Outcome
    <3> HIDE DEF u
    <3>4. Outcome(u, t, "cleanup", "none", t.cause)
      BY <1>3, <3>3 DEF Outcome
    <3>5. Admissible(t, "cleanup", "none", t.cause)
      BY DEF Admissible
    <3> QED  BY <1>1, <3>1, <3>2, <3>4, <3>5, OutcomeLands
  <2>2. CASE StrongerCause(t.tr.cause, q.cause) = t.tr.cause
    <3> DEFINE u == [q EXCEPT !.st = "suspended", !.cause = left]
    <3>1. left = IF q.cause = "final" THEN q.cause ELSE "none"
      BY <1>2
    <3>2. s = u
      BY <2>2, <3>1, <1>2, Zenon DEF CommitRelease, Rooms
    <3>3. /\ Closing(t) \/ left = "none"
          /\ left = "final" => t.cause = "final"
      BY <1>1 DEF RoomFits, Pending, Closing
    <3> HIDE DEF left
    <3>4. u \in Rooms
      BY <1>2, <1>4, Zenon DEF Rooms
    <3>5. Outcome(u, q, "suspended", q.handle, left)
      BY <1>2, Zenon DEF Rooms, Outcome
    <3> HIDE DEF u
    <3>6. Outcome(u, t, "suspended", "none", left)
      BY <1>3, <3>5 DEF Outcome
    <3>7. Admissible(t, "suspended", "none", left)
      BY <1>1, <3>3 DEF Admissible
    <3> QED  BY <1>1, <3>2, <3>4, <3>6, <3>7, OutcomeLands
  <2> QED  BY <2>1, <2>2
<1> HIDE DEF s
<1>6. Ended(Schedule(s), "ok") \in Rooms /\ RoomFits(Ended(Schedule(s), "ok"))
  BY <1>4, <1>5, LandedFits
<1> QED  BY <1>1, <1>6, StepFits

LEMMA ReleaseBusyFits ==
    ASSUME RetentionInv, ReleaseBusy
    PROVE  RetentionInv'
<1> DEFINE q == [t EXCEPT !.quiet = FALSE]
           s == RefuseIdleRelease(q, TRUE)
<1>1. /\ t \in Rooms /\ RoomFits(t) /\ Unscheduled(t) /\ TypeOK /\ InFlight(t)
      /\ t.handle = "open" /\ Fault(Ended(Schedule(s), "ok"))
  BY FitsUnscheduled DEF RetentionInv, TypeOK, ReleaseBusy, InFlight
<1>2. q \in Rooms
  BY <1>1, Zenon DEF Rooms
<1>3. Alike(q, t)
  BY <1>1, Zenon DEF Rooms, Alike
<1> HIDE DEF q
<1>4. Unscheduled(q) /\ InFlight(q) /\ q.handle = "open"
  BY <1>1, <1>3, AlikeUnscheduled DEF Alike, InFlight
<1>5. "ok" \in Results /\ TRUE \in BOOLEAN
  BY DEF Results
<1>6. s \in Rooms /\ Landing(s)
  BY <1>2, <1>4, <1>5, RefusedLands
<1> HIDE DEF s
<1>7. Ended(Schedule(s), "ok") \in Rooms /\ RoomFits(Ended(Schedule(s), "ok"))
  BY <1>5, <1>6, LandedFits
<1> QED  BY <1>1, <1>7, StepFits

LEMMA ReleaseFailsFits ==
    ASSUME RetentionInv, ReleaseFails
    PROVE  RetentionInv'
<1> DEFINE s == [t EXCEPT !.handle = "partial", !.st = "cleanup"]
<1>1. /\ t \in Rooms /\ RoomFits(t) /\ Unscheduled(t) /\ TypeOK /\ InFlight(t)
      /\ Fault(Ended(Schedule(s), "error"))
  BY FitsUnscheduled DEF RetentionInv, TypeOK, ReleaseFails, InFlight
<1>2. "cleanup" \in States /\ "error" \in Results
      /\ Admissible(t, "cleanup", "partial", t.cause)
  BY DEF States, Results, Admissible
<1>3. s \in Rooms
  BY <1>1, <1>2, Zenon DEF Rooms
<1>4. Outcome(s, t, "cleanup", "partial", t.cause)
  BY <1>1, Zenon DEF Rooms, Outcome
<1> HIDE DEF s
<1>5. Ended(Schedule(s), "error") \in Rooms /\ RoomFits(Ended(Schedule(s), "error"))
  BY <1>1, <1>2, <1>3, <1>4, OutcomeLands, LandedFits
<1> QED  BY <1>1, <1>5, StepFits

LEMMA RecoveryCallbackFits ==
    ASSUME RetentionInv, RecoveryCallback
    PROVE  RetentionInv'
<1> DEFINE s == [t EXCEPT !.callback = FALSE]
<1>1. t \in Rooms /\ RoomFits(t) /\ TypeOK /\ Do(StartRequestedRecovery(s))
  BY DEF RetentionInv, TypeOK, RecoveryCallback
<1>2. s \in Rooms
  BY <1>1, Zenon DEF Rooms
<1>3. Alike(s, t)
  BY <1>1, Zenon DEF Rooms, Alike
<1> HIDE DEF s
<1>4. StartRequestedRecovery(s) \in Rooms /\ RoomFits(StartRequestedRecovery(s))
  BY <1>1, <1>2, <1>3, AlikeFits, RecoveryFits
<1> QED  BY <1>1, <1>4, StepFits

-----------------------------------------------------------------------------
(* Disposal and shutdown *)

\* The tasks of the disposal and of stop().
LEMMA DisposalFits ==
    ASSUME RetentionInv, Disposal
    PROVE  RetentionInv'
<1>1. t \in Rooms /\ RoomFits(t) /\ TypeOK
  BY DEF RetentionInv, TypeOK
<1>2. t.disposal # "none" => t.closing = TRUE
  BY <1>1 DEF RoomFits, Ends, Rooms
<1>3. CASE RunStop
  <2> DEFINE b == BeginDisposal(t)
             s == [b EXCEPT !.shutdown = "running"]
  <2>1. Do(s)
    BY <1>3 DEF RunStop
  <2>2. b \in Rooms /\ RoomFits(b)
    BY <1>1, BeginDisposalFits
  <2> HIDE DEF b
  <2>3. s \in Rooms
    BY <2>2, Zenon DEF Rooms
  <2>4. Alike(s, b)
    BY <2>2, Zenon DEF Rooms, Alike
  <2> HIDE DEF s
  <2> QED  BY <1>1, <2>1, <2>2, <2>3, <2>4, AlikeFits, StepFits
<1>4. CASE StopFails
  <2> DEFINE s == [t EXCEPT !.shutdown = "none"]
  <2>1. Do(s)
    BY <1>4 DEF StopFails
  <2>2. s \in Rooms
    BY <1>1, Zenon DEF Rooms
  <2>3. Alike(s, t)
    BY <1>1, Zenon DEF Rooms, Alike
  <2> HIDE DEF s
  <2> QED  BY <1>1, <2>1, <2>2, <2>3, AlikeFits, StepFits
<1>5. CASE DisposalBegins
  <2> DEFINE s == [t EXCEPT !.disposal = "grace"]
  <2>1. t.disposal = "start" /\ (Do(s) \/ Do(Drained(t)) \/ Do(CancelWork(t)))
    BY <1>5 DEF DisposalBegins
  <2>2. s \in Rooms /\ RoomFits(s)
    BY <1>1, <1>2, <2>1, DisposalAtFits
  <2>3. Drained(t) \in Rooms /\ RoomFits(Drained(t))
    BY <1>1, <2>1, DrainedFits
  <2>4. CancelWork(t) \in Rooms /\ RoomFits(CancelWork(t))
    BY <1>1, <2>1, CancelWorkFits
  <2> HIDE DEF s
  <2> QED  BY <1>1, <2>1, <2>2, <2>3, <2>4, StepFits
<1>6. CASE GraceEnds
  <2>1. t.disposal = "grace" /\ Do(CancelWork(t))
    BY <1>6 DEF GraceEnds
  <2>2. CancelWork(t) \in Rooms /\ RoomFits(CancelWork(t))
    BY <1>1, <2>1, CancelWorkFits
  <2> QED  BY <1>1, <2>1, <2>2, StepFits
<1>7. CASE DisposalResumes
  <2>1. t.disposal \in {"drain", "join"} /\ Do(Drained(t))
    BY <1>7 DEF DisposalResumes
  <2>2. Drained(t) \in Rooms /\ RoomFits(Drained(t))
    BY <1>1, <2>1, DrainedFits
  <2> QED  BY <1>1, <2>1, <2>2, StepFits
<1>8. CASE FinalReleased
  <2> DEFINE s == [t EXCEPT !.st = "disposing", !.disposal = "dispose"]
             u == [t EXCEPT !.disposal = "failed"]
  <2>1. /\ t.disposal = "release"
        /\ (t.st = "suspended" /\ Do(s)) \/ Do(u)
    BY <1>8 DEF FinalReleased
  <2>2. Accepted(t) = {}
    BY <1>1, <2>1 DEF RoomFits, Ends
  <2>3. CASE t.st = "suspended" /\ Do(s)
    <3>1. s \in Rooms /\ RoomFits(s)
      BY <1>1, <1>2, <2>1, <2>2, <2>3, DisposeStepFits
    <3> HIDE DEF s
    <3> QED  BY <1>1, <2>3, <3>1, StepFits
  <2>4. CASE Do(u)
    <3>1. u \in Rooms /\ RoomFits(u)
      BY <1>1, <1>2, <2>1, DisposalAtFits
    <3> HIDE DEF u
    <3> QED  BY <1>1, <2>4, <3>1, StepFits
  <2> QED  BY <2>1, <2>3, <2>4
<1>9. CASE Disposed \/ DisposeFails
  <2> DEFINE s == [t EXCEPT !.st = "closed", !.disposal = "done"]
             u == [t EXCEPT !.st = "suspended", !.disposal = "failed"]
  <2>1. t.disposal = "dispose" /\ (Do(Schedule(s)) \/ Fault(Schedule(u)))
    BY <1>9 DEF Disposed, DisposeFails
  <2>2. Accepted(t) = {} /\ t.st = "disposing"
    BY <1>1, <2>1 DEF RoomFits, Ends
  <2>3. s \in Rooms /\ RoomFits(s)
    BY <1>1, <1>2, <2>1, <2>2, DisposeStepFits
  <2>4. u \in Rooms /\ RoomFits(u)
    BY <1>1, <1>2, <2>1, <2>2, DisposeStepFits
  <2> HIDE DEF s, u
  <2>5. Schedule(s) \in Rooms /\ RoomFits(Schedule(s))
    BY <2>3, FitsUnscheduled, ScheduleFits
  <2>6. Schedule(u) \in Rooms /\ RoomFits(Schedule(u))
    BY <2>4, FitsUnscheduled, ScheduleFits
  <2> QED  BY <1>1, <2>1, <2>5, <2>6, StepFits
<1> QED  BY <1>3, <1>4, <1>5, <1>6, <1>7, <1>8, <1>9 DEF Disposal

-----------------------------------------------------------------------------
(* The invariant *)

\* A new room is suspended, with nobody in it.
LEMMA InitFits ==
    ASSUME Init
    PROVE  RetentionInv
<1>1. t = InitRoom /\ calls = 0 /\ faults = 0
  BY DEF Init
<1>2. /\ "suspended" \in States /\ "none" \in Causes /\ NoTransition \in Transitions
      /\ [x \in Workers |-> "out"] \in [Workers -> Points]
  BY DEF States, Causes, Points, NoTransition, Transitions
<1>3. InitRoom \in Rooms
  BY <1>2, Zenon DEF InitRoom, Rooms
<1>4. TypeOK
  BY <1>1, <1>3, BoundsAssumption DEF TypeOK
<1>5. Places(InitRoom)
  BY DEF InitRoom, Places, InUse, Leased
<1>6. Flights(InitRoom)
  BY DEF InitRoom, Flights, InFlight, NoTransition
<1>7. Handles(InitRoom)
  BY DEF InitRoom, Handles
<1>8. Ends(InitRoom) /\ Signals(InitRoom)
  BY DEF InitRoom, Ends, Signals, Accepted
<1>9. Pending(InitRoom) /\ Waits(InitRoom)
  BY DEF InitRoom, Pending, Waits, Waiting
<1> QED  BY <1>1, <1>4, <1>5, <1>6, <1>7, <1>8, <1>9 DEF RetentionInv, RoomFits

\* Every step of the workers, the transition, the disposal and the timers keeps it.
LEMMA NextFits ==
    ASSUME RetentionInv, [Next]_vars
    PROVE  RetentionInv'
<1>1. ASSUME NEW x \in Workers, Worker(x) PROVE RetentionInv'
  BY <1>1, EnterFits, PrepareEndsFits, JoinedFits, JoinTimesOutFits, WorkEndsFits,
     CancelledFits, CancelFits, OwnFits, OwnEndsFits, BeginSettlementFits,
     RequestDisposalFits, StopFits, WaitReleasedFits, WaitResumesFits DEF Worker
<1>2. ASSUME Transition PROVE RetentionInv'
  BY <1>2, TransitionBeginsFits, AcquiredFits, AcquireFailsFits, ReleasedFits,
     ReleaseBusyFits, ReleaseFailsFits, RecoveryCallbackFits DEF Transition
<1>3. ASSUME UNCHANGED vars PROVE RetentionInv'
  BY <1>3 DEF vars, RetentionInv, TypeOK
<1> QED  BY <1>1, <1>2, <1>3, DisposalFits, ObserveFits, RecoverFits, IdleDueFits DEF Next

\* RetentionInv is an invariant of the room, for any workers and any budgets.
THEOREM RetentionInductive == Spec => []RetentionInv
<1>1. Init => RetentionInv
  BY InitFits
<1>2. RetentionInv /\ [Next]_vars => RetentionInv'
  BY NextFits
<1> QED  BY <1>1, <1>2, PTL DEF Spec

\* Residency transitions are serialized: the idle deadline, a recovery, a settling
\* operation, a wait for a release and the disposal never start one beside another, and
\* dispose() runs beside none.
THEOREM Serialized == Spec => []TransitionsSerialized
<1>1. RetentionInv => TransitionsSerialized
  BY DEF RetentionInv, RoomFits, Flights, TransitionsSerialized
<1> QED  BY <1>1, RetentionInductive, PTL

\* Work has an open handle that no release is closing; a handle is acquired, and a room
\* disposed, only over a handle that was confirmed closed; a closed room has no work.
THEOREM HandlesOwned == Spec => []HandleIsOwned
<1>1. RetentionInv => HandleIsOwned
  BY DEF RetentionInv, RoomFits, Flights, Handles, Ends, HandleIsOwned
<1> QED  BY <1>1, RetentionInductive, PTL

\* No operation that waits for the leases spins on a stale signal, and no retirement
\* that somebody waits for is dropped.
THEOREM WaitsReal == Spec => []WaitsAreReal
<1>1. RetentionInv => WaitsAreReal
  BY DEF RetentionInv, RoomFits, Waits, WaitsAreReal
<1> QED  BY <1>1, RetentionInductive, PTL

================================================================================
