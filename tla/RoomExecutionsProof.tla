------------------------ MODULE RoomExecutionsProof ------------------------
(***************************************************************************)
(* What TLAPS proves of RoomExecutions, for every set of rooms and every   *)
(* bound.                                                                  *)
(***************************************************************************)
EXTENDS RoomExecutions, TLAPS

Results == {"none", "waiting", "graceful", "forced", "error"}

\* The constants and the empty queue are of the types the record uses.
LEMMA Typical ==
    /\ MaxSteps \in Nat /\ MaxSteps \in 0..MaxSteps /\ MaxSteps >= 3
    /\ <<>> \in Seq(Events) /\ None \in Nat /\ 0 \in Nat
BY StepsAssumption DEF None

----------------------------------------------------------------------------
(* Type correctness, operator by operator. *)

\* Answering the waiter of a convergence keeps the record's type.
LEMMA AnswerType ==
    ASSUME NEW rm \in RoomType, NEW v \in Results
    PROVE  Answer(rm, v) \in RoomType
<1>1. \A w \in Results : [rm EXCEPT !.convergence = "none", !.waiter = w] \in RoomType
  BY Zenon DEF RoomType, Results
<1>2. (IF rm.waiter = "waiting" THEN v ELSE rm.waiter) \in Results
  BY SMT DEF RoomType, Results
<1> QED BY <1>1, <1>2 DEF Answer

\* Settling answers with the graceful flag, failing with an error.
LEMMA SettleType ==
    ASSUME NEW rm \in RoomType
    PROVE  Settle(rm) \in RoomType /\ Fail(rm) \in RoomType
<1>1. rm.convergence \in Results BY SMT DEF RoomType, Results
<1>2. "error" \in Results BY DEF Results
<1> QED BY <1>1, <1>2, AnswerType DEF Settle, Fail

\* The record a forgotten room leaves is well typed.
LEMMA FreshType ==
    ASSUME NEW rm \in RoomType
    PROVE  FreshRoom(rm) \in RoomType
<1>1. rm.epoch + 1 \in Nat BY SMT DEF RoomType
<1> QED BY <1>1, Typical, SMT DEF FreshRoom, RoomType, RoomStates

\* Spawning a step, or tripping the breaker, keeps the type.
LEMMA StepType ==
    ASSUME NEW rm \in RoomType,
           NEW s \in {"STARTING", "RETIRING"}, NEW t \in {"start", "retire"}
    PROVE  Step(rm, s, t) \in RoomType
<1> DEFINE c == IF rm.convergence = "none" THEN "graceful" ELSE rm.convergence
           opened == [rm EXCEPT !.convergence = c]
<1>1. c \in {"none", "graceful", "forced"} BY SMT DEF RoomType
<1>2. opened \in RoomType BY <1>1, ZenonT(60) DEF RoomType
<1>3. [Fail(opened) EXCEPT !.tripped = TRUE] \in RoomType
  <2>1. \A x \in RoomType : [x EXCEPT !.tripped = TRUE] \in RoomType
    BY ZenonT(60) DEF RoomType
  <2> QED BY <1>2, <2>1, SettleType
<1>4. ASSUME rm.stepsLeft # 0
      PROVE  [opened EXCEPT !.stepsLeft = @ - 1, !.state = s, !.task = t] \in RoomType
  <2>0. opened.stepsLeft = rm.stepsLeft BY SMT DEF RoomType
  <2>1. rm.stepsLeft - 1 \in 0..MaxSteps BY <1>4, Typical, SMT DEF RoomType
  <2>2. s \in RoomStates BY DEF RoomStates
  <2>3. t \in {"none", "start", "starting", "delivering", "resyncing",
               "retire", "stopping", "releasing"} OBVIOUS
  <2> HIDE DEF opened
  <2> QED BY <1>2, <2>0, <2>1, <2>2, <2>3, ZenonT(60) DEF RoomType
<1> QED BY <1>3, <1>4 DEF Step

\* _advance keeps the type.
LEMMA AdvanceType ==
    ASSUME NEW rm \in RoomType, NEW acc \in BOOLEAN
    PROVE  Advance(rm, acc) \in RoomType
<1>1. Forget(rm) \in RoomType BY SettleType, FreshType DEF Forget
<1>2. Step(rm, "STARTING", "start") \in RoomType BY StepType
<1>3. [rm EXCEPT !.routed = None] \in RoomType BY Typical, Zenon DEF RoomType
<1>4. Step([rm EXCEPT !.routed = None], "RETIRING", "retire") \in RoomType
  BY <1>3, StepType
<1> QED BY <1>1, <1>2, <1>4, SettleType DEF Advance

\* A signal keeps the type.
LEMMA SignalType ==
    ASSUME NEW rm \in RoomType, NEW acc \in BOOLEAN
    PROVE  Signal(rm, acc) \in RoomType
<1>1. [rm EXCEPT !.stepsLeft = MaxSteps] \in RoomType
  BY Typical, Zenon DEF RoomType
<1> QED BY <1>1, AdvanceType DEF Signal

\* Fencing, admission, holding and live delivery keep the type.
LEMMA FenceType ==
    ASSUME NEW rm \in RoomType
    PROVE  Fence(rm) \in RoomType
<1>1. rm.generation + 1 \in Nat /\ rm.epoch + 1 \in Nat BY SMTT(30) DEF RoomType
<1> QED BY <1>1, Typical, ZenonT(30) DEF Fence, RoomType

LEMMA RequestAdmissionType ==
    ASSUME NEW rm \in RoomType, NEW acc \in BOOLEAN
    PROVE  RequestAdmission(rm, acc) \in RoomType
<1>1. [rm EXCEPT !.known = TRUE, !.wanted = TRUE] \in RoomType
  BY Zenon DEF RoomType
<1> QED BY <1>1, SignalType DEF RequestAdmission

LEMMA NewEventType ==
    ASSUME NEW rm \in RoomType
    PROVE  NewEvent(rm) \in Events
BY SMT DEF NewEvent, Events, RoomType

LEMMA HoldType ==
    ASSUME NEW rm \in RoomType, NEW acc \in BOOLEAN
    PROVE  Hold(rm, acc) \in RoomType
<1>1. rm.held \in Seq(Events) /\ rm.arrivals + 1 \in Nat BY SMT DEF RoomType
<1>2. Push(rm.held, NewEvent(rm)) \in Seq(Events)
  BY <1>1, NewEventType, HeldAssumption, SMT DEF Push
<1>3. (rm.lossy \/ Len(rm.held) = MaxHeld) \in BOOLEAN OBVIOUS
<1>4. [rm EXCEPT !.held = Push(@, NewEvent(rm)), !.arrivals = @ + 1,
                 !.lossy = @ \/ Len(rm.held) = MaxHeld] \in RoomType
  BY <1>1, <1>2, <1>3, ZenonT(30) DEF RoomType
<1> QED BY <1>4, SignalType DEF Hold

LEMMA GiveRoutedType ==
    ASSUME NEW rm \in RoomType
    PROVE  GiveRouted(rm) \in RoomType
<1>1. rm.inbox \in Seq(Events) /\ rm.arrivals + 1 \in Nat BY SMT DEF RoomType
<1>2. Append(rm.inbox, NewEvent(rm)) \in Seq(Events) BY <1>1, NewEventType, SMT
<1> QED BY <1>1, <1>2, Zenon DEF RoomType, GiveRouted

\* The step tasks' segments keep the type.
LEMMA FinishStartType ==
    ASSUME NEW rm \in RoomType
    PROVE  FinishStart(rm) \in RoomType
<1> DEFINE s == IF Serving(rm) THEN "SERVING" ELSE "IDLE"
<1>1. s \in RoomStates BY DEF RoomStates
<1> HIDE DEF s
<1>2. [rm EXCEPT !.state = s] \in RoomType BY <1>1, Zenon DEF RoomType
<1>3. Ended([rm EXCEPT !.state = s]) \in RoomType
  BY <1>2, ZenonT(60) DEF Ended, RoomType
<1> QED BY <1>3 DEF FinishStart, s

LEMMA RouteType ==
    ASSUME NEW rm \in RoomType, NEW acc \in BOOLEAN
    PROVE  Route(rm, acc) \in RoomType
<1>1. rm.execution \in Nat BY SMT DEF RoomType
<1>2. [rm EXCEPT !.routed = rm.execution, !.task = "resyncing"] \in RoomType
  BY <1>1, Zenon DEF RoomType
<1> QED BY <1>2, FinishStartType DEF Route

LEMMA RaisedType ==
    ASSUME NEW rm \in RoomType
    PROVE  Raised(rm) \in RoomType
<1>1. (rm.lossy \/ rm.inbox # <<>> \/ rm.batch # <<>>) \in BOOLEAN OBVIOUS
<1> QED BY <1>1, Typical, ZenonT(90) DEF Raised, RoomType

LEMMA BuildType ==
    ASSUME NEW rm \in RoomType
    PROVE  Build(rm) \in RoomType
<1>1. /\ rm.generation \in Nat /\ rm.builds + 1 \in Nat /\ rm.epoch \in Nat
      /\ (rm.live \cup {rm.builds + 1}) \in SUBSET Nat
  BY SMT DEF RoomType
<1> QED BY <1>1, Typical, ZenonT(60) DEF Build, RoomType

LEMMA HandOverType ==
    ASSUME NEW rm \in RoomType, NEW b \in Seq(Events), b # <<>>
    PROVE  HandOver(rm, b) \in RoomType
<1>1. rm.inbox \in Seq(Events) /\ rm.handed + 1 \in Nat BY SMT DEF RoomType
<1>2. Append(rm.inbox, Head(b)) \in Seq(Events) /\ Tail(b) \in Seq(Events)
  BY <1>1, SMT
<1> QED BY <1>1, <1>2, ZenonT(30) DEF HandOver, RoomType

LEMMA DeliverHeldType ==
    ASSUME NEW rm \in RoomType, NEW acc \in BOOLEAN
    PROVE  DeliverHeld(rm, acc) \in RoomType
<1>1. rm.held \in Seq(Events) /\ rm.batch \in Seq(Events) BY SMT DEF RoomType
<1>2. [rm EXCEPT !.held = <<>>] \in RoomType BY Typical, Zenon DEF RoomType
<1>3. [rm EXCEPT !.batch = <<>>] \in RoomType BY Typical, Zenon DEF RoomType
<1>4. DropHeld(rm) \in RoomType
  <2>1. (rm.lossy \/ rm.batch # <<>> \/ rm.held # <<>>) \in BOOLEAN OBVIOUS
  <2> QED BY <2>1, Typical, Zenon DEF DropHeld, RoomType
<1>5. rm.held # <<>> => HandOver([rm EXCEPT !.held = <<>>], rm.held) \in RoomType
  BY <1>1, <1>2, HandOverType
<1>6. rm.batch # <<>> => HandOver(rm, rm.batch) \in RoomType
  BY <1>1, HandOverType
<1>7. /\ Route(rm, acc) \in RoomType
      /\ Route([rm EXCEPT !.batch = <<>>], acc) \in RoomType
      /\ Route(DropHeld(rm), acc) \in RoomType
  BY <1>3, <1>4, RouteType
<1> QED BY <1>5, <1>6, <1>7 DEF DeliverHeld

LEMMA RetiredType ==
    ASSUME NEW rm \in RoomType
    PROVE  Retired(rm) \in RoomType
<1> DEFINE c == IF rm.convergence = "graceful" THEN rm.verdict ELSE rm.convergence
           e == [rm EXCEPT !.execution = None, !.state = "IDLE",
                           !.live = @ \ {rm.execution}, !.convergence = c]
<1>0. rm.verdict \in {"none", "graceful", "forced"}
        /\ rm.convergence \in {"none", "graceful", "forced"} /\ rm.live \in SUBSET Nat
  BY SMT DEF RoomType
<1>1. /\ c \in {"none", "graceful", "forced"}
      /\ (rm.live \ {rm.execution}) \in SUBSET Nat
      /\ "IDLE" \in RoomStates
  BY <1>0 DEF RoomStates
<1> HIDE DEF c
<1>2. e \in RoomType BY <1>1, Typical, ZenonT(30) DEF RoomType
<1> HIDE DEF e
<1>3. Ended(e) \in RoomType BY <1>2, ZenonT(60) DEF Ended, RoomType
<1> QED BY <1>3 DEF Retired, e, c

LEMMA StepDoneType ==
    ASSUME NEW rm \in RoomType, NEW acc \in BOOLEAN, rm.done # "none"
    PROVE  StepDone(rm, acc) \in RoomType
<1> DEFINE called == [rm EXCEPT !.done = "none"]
           idle == [called EXCEPT !.state = "IDLE"]
<1>1. called \in RoomType BY Zenon DEF RoomType
<1>2. idle \in RoomType BY <1>1, ZenonT(60) DEF RoomType, RoomStates
<1>3. rm.done \in {"ok", "failed", "stale"} BY SMT DEF RoomType
<1>4. [FreshRoom(rm) EXCEPT !.done = "none"] \in RoomType
  <2>1. \A x \in RoomType : [x EXCEPT !.done = "none"] \in RoomType
    BY ZenonT(60) DEF RoomType
  <2> QED BY <2>1, FreshType
<1>5. Advance(called, acc) \in RoomType /\ Advance(idle, acc) \in RoomType
  BY <1>1, <1>2, AdvanceType
<1>6. Fail(idle) \in RoomType BY <1>2, SettleType
<1> QED BY <1>1, <1>3, <1>4, <1>5, <1>6 DEF StepDone

----------------------------------------------------------------------------
\* Every state of every behaviour is of the declared types.
THEOREM TypeCorrect == Spec => []TypeOK
<1>1. Init => TypeOK
  <2>1. NoRoom \in RoomType BY Typical, SMT DEF NoRoom, RoomType, RoomStates
  <2>2. ASSUME Init PROVE room \in [Rooms -> RoomType]
    BY <2>1, <2>2 DEF Init
  <2>3. ASSUME Init PROVE TypeOK
    <3> USE <2>3 DEF Init
    <3>1. todo \in SUBSET Rooms /\ waiting \in SUBSET Rooms /\ faults \in Nat OBVIOUS
    <3> QED BY <2>2, <3>1 DEF TypeOK
  <2> QED BY <2>3
<1>2. TypeOK /\ [Next]_vars => TypeOK'
  <2> SUFFICES ASSUME TypeOK, [Next]_vars PROVE TypeOK'
    OBVIOUS
  <2>0. /\ \A r \in Rooms : room[r] \in RoomType
        /\ accepting \in BOOLEAN /\ faults \in Nat
        /\ \A r \in Rooms, rm \in RoomType : [room EXCEPT ![r] = rm] \in [Rooms -> RoomType]
    BY DEF TypeOK
  <2>1. CASE Presence
    <3>1. ASSUME NEW r \in Rooms, OnRoomJoined(r) PROVE TypeOK'
      BY <2>0, <3>1, RequestAdmissionType DEF OnRoomJoined, Put, OwnerUnchanged, TypeOK
    <3>2. ASSUME NEW r \in Rooms, OnRoomLeft(r) PROVE TypeOK'
      BY <2>0, <3>2, FenceType, SignalType DEF OnRoomLeft, Put, OwnerUnchanged, TypeOK
    <3>3. ASSUME NEW r \in Rooms, OnRoomEvent(r) PROVE TypeOK'
      BY <2>0, <3>3, HoldType, GiveRoutedType DEF OnRoomEvent, Put, OwnerUnchanged, TypeOK
    <3>4. ASSUME OnReconnected PROVE TypeOK'
      <4>1. room' \in [Rooms -> RoomType]
        BY <2>0, <3>4, SignalType DEF OnReconnected
      <4> QED BY <3>4, <4>1 DEF OnReconnected, OwnerUnchanged, TypeOK
    <3> QED BY <2>1, <3>1, <3>2, <3>3, <3>4 DEF Presence
  <2>2. CASE Owner
    <3>1. ASSUME Start \/ StartEnds \/ Stop \/ StopEnds \/ Disconnected PROVE TypeOK'
      <4>1. faults' \in Nat
        BY <2>0, <3>1 DEF Start, StartEnds, Stop, StopEnds, Disconnected, Fault
      <4>2. todo' \in SUBSET Rooms /\ waiting' \in SUBSET Rooms
        BY <3>1 DEF Start, StartEnds, Stop, StopEnds, Disconnected, TypeOK
      <4> QED BY <3>1, <4>1, <4>2, Zenon
              DEF Start, StartEnds, Stop, StopEnds, Disconnected, TypeOK
    <3>2. \A w \in Results, rm \in RoomType : [rm EXCEPT !.waiter = w] \in RoomType
      BY ZenonT(60) DEF RoomType, Results
    <3>3. ASSUME NEW r \in Rooms, Destroy(r) PROVE TypeOK'
      <4> DEFINE fenced == [Fence(room[r]) EXCEPT !.waiter = "waiting"]
                 rm == Signal(fenced, accepting)
      <4>1. rm \in RoomType BY <2>0, <3>2, FenceType, SignalType DEF Results
      <4>2. [rm EXCEPT !.waiter = "none"] \in RoomType BY <4>1, <3>2 DEF Results
      <4> HIDE DEF fenced, rm
      <4>3. room' \in [Rooms -> RoomType] /\ waiting' \in SUBSET Rooms
        BY <2>0, <3>3, <4>1, <4>2 DEF Destroy, Put, TypeOK, rm, fenced
      <4> QED BY <3>3, <4>3 DEF Destroy, TypeOK
    <3>4. ASSUME NEW r \in Rooms, DestroyReturns(r) \/ StopCancelled(r) PROVE TypeOK'
      <4>1. [room[r] EXCEPT !.waiter = "none"] \in RoomType BY <2>0, <3>2 DEF Results
      <4>2. room' \in [Rooms -> RoomType]
        BY <2>0, <3>4, <4>1 DEF DestroyReturns, StopCancelled, Put
      <4>3. waiting' \in SUBSET Rooms /\ todo' \in SUBSET Rooms
        BY <3>4 DEF DestroyReturns, StopCancelled, TypeOK
      <4>4. clean' \in BOOLEAN /\ stopGraceful' \in BOOLEAN
        BY <3>4, Zenon DEF DestroyReturns, StopCancelled, TypeOK
      <4>5. faults' \in Nat
        BY <2>0, <3>4 DEF DestroyReturns, StopCancelled, Fault
      <4> QED BY <3>4, <4>2, <4>3, <4>4, <4>5 DEF DestroyReturns, StopCancelled, TypeOK
    <3> QED BY <2>2, <3>1, <3>3, <3>4 DEF Owner
  <2>3. ASSUME NEW r \in Rooms, StepTask(r) PROVE TypeOK'
    <3>0. room[r] \in RoomType BY <2>0
    <3>1. CASE BeginStart(r)
      BY <2>0, <3>1, BuildType, RaisedType DEF BeginStart, Put, Fault, OwnerUnchanged, TypeOK
    <3>2. CASE StartReturns(r)
      BY <2>0, <3>2, DeliverHeldType, RaisedType
      DEF StartReturns, Put, Fault, OwnerUnchanged, TypeOK
    <3>3. CASE OnEventReturns(r)
      BY <2>0, <3>3, DeliverHeldType, RaisedType
      DEF OnEventReturns, Put, Fault, OwnerUnchanged, TypeOK
    <3>4. CASE ResyncReturns(r)
      BY <2>0, <3>4, FinishStartType DEF ResyncReturns, Put, OwnerUnchanged, TypeOK
    <3>5. CASE BeginRetire(r)
      <4>1. [room[r] EXCEPT !.task = "stopping"] \in RoomType
        BY <3>0, Zenon DEF RoomType
      <4> QED BY <2>0, <3>5, <4>1 DEF BeginRetire, Put, OwnerUnchanged, TypeOK
    <3>6. CASE StopReturns(r)
      <4>1. \A v \in {"graceful", "forced"} :
              [room[r] EXCEPT !.task = "releasing", !.verdict = v] \in RoomType
        BY <3>0, Zenon DEF RoomType
      <4> QED BY <2>0, <3>6, <4>1, RaisedType DEF StopReturns, Put, Fault, OwnerUnchanged, TypeOK
    <3>7. CASE ReleaseReturns(r)
      <4>1. room' \in [Rooms -> RoomType]
        BY <2>0, <3>7, RetiredType, RaisedType DEF ReleaseReturns, Put
      <4>2. faults' \in Nat BY <2>0, <3>7 DEF ReleaseReturns, Fault
      <4> QED BY <3>7, <4>1, <4>2 DEF ReleaseReturns, TypeOK
    <3>8. CASE OnStepDone(r)
      BY <2>0, <3>8, StepDoneType DEF OnStepDone, Put, OwnerUnchanged, TypeOK
    <3> QED BY <2>3, <3>1, <3>2, <3>3, <3>4, <3>5, <3>6, <3>7, <3>8 DEF StepTask
  <2>4. CASE UNCHANGED vars BY <2>4 DEF vars, TypeOK
  <2> QED BY <2>1, <2>2, <2>3, <2>4 DEF Next
<1> QED BY <1>1, <1>2, PTL DEF Spec

----------------------------------------------------------------------------
(* The inductive invariant, operator by operator. *)

Good(rm, acc) == Shape(rm) /\ Served(rm) /\ Isolated(rm) /\ Budget(rm, acc)

\* The fields Good reads.
Same(x, rm) ==
    /\ x.known = rm.known /\ x.wanted = rm.wanted /\ x.generation = rm.generation
    /\ x.state = rm.state /\ x.execution = rm.execution
    /\ x.stepsLeft = rm.stepsLeft /\ x.held = rm.held /\ x.routed = rm.routed
    /\ x.done = rm.done /\ x.task = rm.task /\ x.startGen = rm.startGen
    /\ x.batch = rm.batch /\ x.live = rm.live /\ x.epoch = rm.epoch
    /\ x.execEpoch = rm.execEpoch /\ x.inbox = rm.inbox
    /\ x.tripped = rm.tripped

\* Good depends on those fields only.
LEMMA SameGood ==
    ASSUME NEW x, NEW rm, NEW acc, Same(x, rm)
    PROVE  /\ Shape(rm) => Shape(x)
           /\ Isolated(rm) => Isolated(x)
           /\ Served(rm) => Served(x)
           /\ Ready(rm, acc) => Ready(x, acc)
           /\ Budget(rm, acc) => Budget(x, acc)
<1>1. Shape(rm) => Shape(x) BY DEF Same, Shape, Serving
<1>2. Isolated(rm) => Isolated(x) BY DEF Same, Isolated, AllOf
<1>3. Ready(rm, acc) => Ready(x, acc) BY DEF Same, Ready, Admits
<1>4. Served(rm) => Served(x) BY DEF Same, Served
<1> QED BY <1>1, <1>2, <1>3, <1>4 DEF Same, Budget

\* Answering a waiter touches none of those fields.
LEMMA AnswerSame ==
    ASSUME NEW rm \in RoomType, NEW v
    PROVE  Same(Answer(rm, v), rm)
BY SMT DEF Answer, Same, RoomType

\* A room without an execution leaves the table with nothing live or routed.
LEMMA ForgetGood ==
    ASSUME NEW rm \in RoomType, NEW acc \in BOOLEAN, Shape(rm), Isolated(rm),
           rm.known, ~rm.tripped, rm.execution = None, rm.state = "IDLE",
           rm.done # "stale"
    PROVE  Good(Forget(rm), acc)
<1> DEFINE x == Settle(rm)
<1>1. x \in RoomType /\ Same(x, rm) BY SettleType, AnswerSame DEF Settle
<1>2. Shape(x) /\ Isolated(x) BY <1>1, SameGood
<1>3. x.done # "stale" /\ rm.done # "stale" BY <1>1, SMT DEF Shape, Same, RoomType
<1>4. Forget(rm) = FreshRoom(x) BY <1>3 DEF Forget, InTable
<1>5. x.done # "failed" /\ x.routed = None /\ x.live = {} /\ ~x.tripped
  BY <1>1, <1>2, SMT DEF Shape, Same, RoomType, None
<1> HIDE DEF x
<1>6. Shape(FreshRoom(x)) BY <1>5, SMT DEF FreshRoom, Shape, Starting, Stopping, None, Serving
<1>7. Isolated(FreshRoom(x)) BY <1>2, SMT DEF FreshRoom, Isolated, AllOf
<1>8. Budget(FreshRoom(x), acc) BY <1>5, SMT DEF FreshRoom, Budget
<1>9. Served(FreshRoom(x)) BY SMT DEF FreshRoom, Served
<1> QED BY <1>4, <1>6, <1>7, <1>8, <1>9 DEF Good

\* The fields of Good that only _step writes aside.
Kept(x, rm) ==
    /\ x.known = rm.known /\ x.wanted = rm.wanted /\ x.generation = rm.generation
    /\ x.execution = rm.execution /\ x.held = rm.held
    /\ x.done = rm.done /\ x.startGen = rm.startGen /\ x.batch = rm.batch
    /\ x.live = rm.live /\ x.epoch = rm.epoch /\ x.execEpoch = rm.execEpoch
    /\ x.inbox = rm.inbox /\ x.tripped = rm.tripped

\* What spawning a step writes, with and without unrouting first.
LEMMA StepFields ==
    ASSUME NEW rm \in RoomType, NEW s, NEW t, rm.stepsLeft # 0
    PROVE  /\ Kept(Step(rm, s, t), rm)
           /\ Step(rm, s, t).routed = rm.routed
           /\ Step(rm, s, t).state = s /\ Step(rm, s, t).task = t
           /\ Step(rm, s, t).stepsLeft = rm.stepsLeft - 1
BY SMT DEF Step, RoomType, Kept

LEMMA UnrouteFields ==
    ASSUME NEW rm \in RoomType
    PROVE  /\ [rm EXCEPT !.routed = None] \in RoomType
           /\ Kept([rm EXCEPT !.routed = None], rm)
           /\ [rm EXCEPT !.routed = None].routed = None
           /\ [rm EXCEPT !.routed = None].stepsLeft = rm.stepsLeft
<1>1. [rm EXCEPT !.routed = None] \in RoomType BY Typical, Zenon DEF RoomType
<1>2. Kept([rm EXCEPT !.routed = None], rm) BY SMT DEF RoomType, Kept
<1>3. /\ [rm EXCEPT !.routed = None].routed = None
      /\ [rm EXCEPT !.routed = None].stepsLeft = rm.stepsLeft
  BY SMT DEF RoomType
<1> QED BY <1>1, <1>2, <1>3

\* Spawning the start of a room that owns nothing.
LEMMA StepStartGood ==
    ASSUME NEW rm \in RoomType, NEW acc \in BOOLEAN, Shape(rm), Isolated(rm),
           rm.known, ~rm.tripped, rm.execution = None, rm.state = "IDLE",
           rm.stepsLeft >= 2
    PROVE  Good(Step(rm, "STARTING", "start"), acc)
<1> DEFINE x == Step(rm, "STARTING", "start")
<1>1. /\ Kept(x, rm) /\ x.routed = rm.routed
      /\ x.state = "STARTING" /\ x.task = "start" /\ x.stepsLeft = rm.stepsLeft - 1
  BY StepFields
<1>0. rm.stepsLeft \in Nat /\ rm.done # "failed" BY SMT DEF RoomType, Shape
<1> HIDE DEF x
<1>2. Shape(x)
  BY <1>0, <1>1, SMT DEF Shape, Starting, Stopping, None, Serving, Kept
<1>3. Isolated(x) BY <1>1, SMT DEF Isolated, AllOf, Kept
<1>4. Budget(x, acc) BY <1>0, <1>1, SMT DEF Budget, Ready, Admits, Kept
<1>5. Served(x) BY <1>1 DEF Served
<1> QED BY <1>2, <1>3, <1>4, <1>5 DEF Good, x

\* Spawning the retirement of an owned execution, unrouting it first.
LEMMA StepRetireGood ==
    ASSUME NEW rm \in RoomType, NEW acc \in BOOLEAN, Shape(rm), Isolated(rm),
           rm.known, ~rm.tripped, rm.execution # None, rm.state \in {"IDLE", "SERVING"},
           rm.stepsLeft >= 1, Admits(rm, acc) => rm.stepsLeft >= 3
    PROVE  Good(Step([rm EXCEPT !.routed = None], "RETIRING", "retire"), acc)
<1> DEFINE y == [rm EXCEPT !.routed = None]
           x == Step(y, "RETIRING", "retire")
<1>1. y \in RoomType /\ Kept(y, rm) /\ y.routed = None /\ y.stepsLeft = rm.stepsLeft
  BY UnrouteFields
<1> HIDE DEF y
<1>2. /\ Kept(x, y) /\ x.routed = None
      /\ x.state = "RETIRING" /\ x.task = "retire" /\ x.stepsLeft = rm.stepsLeft - 1
  BY <1>1, StepFields
<1>0. rm.stepsLeft \in Nat /\ rm.done # "failed" BY SMT DEF RoomType, Shape
<1> HIDE DEF x
<1>3. Kept(x, rm) BY <1>1, <1>2 DEF Kept
<1>4. Shape(x)
  BY <1>0, <1>2, <1>3, SMT DEF Shape, Starting, Stopping, None, Serving, Kept
<1>5. Isolated(x) BY <1>3, SMT DEF Isolated, AllOf, Kept
<1>6. Budget(x, acc) BY <1>0, <1>2, <1>3, SMT DEF Budget, Ready, Admits, Kept
<1>7. Served(x) BY <1>2, <1>3, <1>4 DEF Served, Shape, Kept
<1> QED BY <1>4, <1>5, <1>6, <1>7 DEF Good, x, y

\* _advance, called with enough steps left, never trips the breaker and keeps
\* the invariant.
LEMMA AdvanceGood ==
    ASSUME NEW rm \in RoomType, NEW acc \in BOOLEAN, Shape(rm), Isolated(rm),
           Ready(rm, acc), rm.known,
           rm.done = "stale" => Admits(rm, acc) \/ rm.task = "start"
    PROVE  Good(Advance(rm, acc), acc)
<1>0. ~rm.tripped /\ rm.state \in RoomStates BY SMT DEF Ready, RoomType
<1>1. Budget(rm, acc) BY <1>0 DEF Budget
<1>2. CASE rm.state \in {"STARTING", "RETIRING"}
  <2>0. rm.done = "stale" => rm.task = "start"
    BY <1>2, SMT DEF Shape, Starting, Stopping, RoomType
  <2>1. Good(rm, acc) BY <1>1, <1>2, <2>0 DEF Good, Served
  <2>2. Advance(rm, acc) = rm BY <1>2 DEF Advance
  <2> QED BY <2>1, <2>2
<1>3. CASE rm.state = "SERVING" /\ Admits(rm, acc)
  <2>1. Good(rm, acc) BY <1>1, <1>3 DEF Good, Served, Admits, Shape
  <2>2. Same(Settle(rm), rm) BY AnswerSame DEF Settle
  <2>3. Good(Settle(rm), acc) BY <2>1, <2>2, SameGood DEF Good
  <2>4. Advance(rm, acc) = Settle(rm) BY <1>3 DEF Advance
  <2> QED BY <2>3, <2>4
<1>4. CASE rm.state \in {"IDLE", "SERVING"} /\ ~Admits(rm, acc) /\ rm.execution = None
  <2>1. rm.state = "IDLE" BY <1>4 DEF Shape
  <2>2. Advance(rm, acc) = Forget(rm) BY <1>4, <2>1 DEF Advance
  <2>4. rm.done # "stale" BY <1>4, <2>1 DEF Shape
  <2>3. Good(Forget(rm), acc) BY <1>0, <1>4, <2>1, <2>4, ForgetGood
  <2> QED BY <2>2, <2>3
<1>5. CASE rm.state = "IDLE" /\ Admits(rm, acc) /\ rm.execution = None
  <2>1. rm.stepsLeft >= 2 BY <1>5 DEF Ready
  <2>2. Advance(rm, acc) = Step(rm, "STARTING", "start") BY <1>5 DEF Advance
  <2>3. Good(Step(rm, "STARTING", "start"), acc) BY <1>0, <1>5, <2>1, StepStartGood
  <2> QED BY <2>2, <2>3
<1>6. CASE rm.execution # None /\ (rm.state = "IDLE" \/ (rm.state = "SERVING" /\ ~Admits(rm, acc)))
  <2>1. rm.stepsLeft >= 1 /\ (Admits(rm, acc) => rm.stepsLeft >= 3)
    BY <1>6 DEF Ready
  <2>2. Advance(rm, acc) = Step([rm EXCEPT !.routed = None], "RETIRING", "retire")
    BY <1>6 DEF Advance
  <2>3. Good(Step([rm EXCEPT !.routed = None], "RETIRING", "retire"), acc)
    BY <1>0, <1>6, <2>1, StepRetireGood
  <2> QED BY <2>2, <2>3
<1>7. rm.state = "SERVING" => rm.execution # None BY DEF Shape
<1>8. CASE rm.execution = None
  <2>1. rm.state \in {"IDLE", "STARTING", "RETIRING"} BY <1>0, <1>7, <1>8 DEF RoomStates
  <2>2. CASE Admits(rm, acc) BY <1>2, <1>5, <1>8, <2>1, <2>2
  <2>3. CASE ~Admits(rm, acc) BY <1>2, <1>4, <1>8, <2>1, <2>3
  <2> QED BY <2>2, <2>3
<1>9. CASE rm.execution # None
  <2>1. rm.state \in {"STARTING", "RETIRING"} \/ rm.state = "IDLE" \/ rm.state = "SERVING"
    BY <1>0 DEF RoomStates
  <2>2. CASE rm.state = "IDLE" BY <1>6, <1>9, <2>2
  <2>3. CASE rm.state = "SERVING" /\ Admits(rm, acc) BY <1>3, <2>3
  <2>4. CASE rm.state = "SERVING" /\ ~Admits(rm, acc) BY <1>6, <1>9, <2>4
  <2> QED BY <1>2, <2>1, <2>2, <2>3, <2>4
<1> QED BY <1>8, <1>9

\* What resetting the steps, fencing and the other updates of a signal write.
LEMMA ResetFields ==
    ASSUME NEW rm \in RoomType
    PROVE  LET x == [rm EXCEPT !.stepsLeft = MaxSteps]
           IN  /\ x \in RoomType /\ Kept(x, rm) /\ x.stepsLeft = MaxSteps
               /\ x.routed = rm.routed /\ x.state = rm.state /\ x.task = rm.task
<1> DEFINE x == [rm EXCEPT !.stepsLeft = MaxSteps]
<1>1. x \in RoomType BY Typical, Zenon DEF RoomType
<1>2. Kept(x, rm) BY SMT DEF RoomType, Kept
<1>3. x.stepsLeft = MaxSteps /\ x.routed = rm.routed /\ x.state = rm.state /\ x.task = rm.task
  BY SMT DEF RoomType
<1> QED BY <1>1, <1>2, <1>3

\* A signal resets the steps, whatever the room was doing.
LEMMA SignalGood ==
    ASSUME NEW rm \in RoomType, NEW acc \in BOOLEAN, Shape(rm), Isolated(rm),
           rm.known, ~rm.tripped,
           rm.done = "stale" => Admits(rm, acc) \/ rm.task = "start"
    PROVE  Good(Signal(rm, acc), acc)
<1> DEFINE x == [rm EXCEPT !.stepsLeft = MaxSteps]
<1>1. /\ x \in RoomType /\ Kept(x, rm) /\ x.stepsLeft = MaxSteps
      /\ x.routed = rm.routed /\ x.state = rm.state /\ x.task = rm.task
  BY ResetFields
<1> HIDE DEF x
<1>4. Shape(x) BY <1>1, SMT DEF Shape, Serving, Kept
<1>5. Isolated(x) BY <1>1, SMT DEF Isolated, AllOf, Kept
<1>6. Ready(x, acc) BY <1>1, Typical, SMT DEF Ready, Kept
<1>7. x.known /\ (x.done = "stale" => Admits(x, acc) \/ x.task = "start")
  BY <1>1 DEF Kept, Admits
<1>8. Good(Advance(x, acc), acc) BY <1>1, <1>4, <1>5, <1>6, <1>7, AdvanceGood
<1> QED BY <1>8 DEF Signal, x

\* What fencing writes.
LEMMA FenceFields ==
    ASSUME NEW rm \in RoomType
    PROVE  /\ Fence(rm).routed = None /\ Fence(rm).wanted = FALSE
           /\ Fence(rm).generation = rm.generation + 1 /\ Fence(rm).held = <<>>
           /\ Fence(rm).epoch = rm.epoch + 1
           /\ Fence(rm).known = rm.known /\ Fence(rm).state = rm.state
           /\ Fence(rm).execution = rm.execution /\ Fence(rm).done = rm.done
           /\ Fence(rm).task = rm.task /\ Fence(rm).startGen = rm.startGen
           /\ Fence(rm).batch = rm.batch /\ Fence(rm).live = rm.live
           /\ Fence(rm).execEpoch = rm.execEpoch /\ Fence(rm).inbox = rm.inbox
           /\ Fence(rm).tripped = rm.tripped
BY SMT DEF Fence, RoomType

\* A fence leaves nothing routed or held; a start or resync under way has lost
\* its generation.
LEMMA FenceGood ==
    ASSUME NEW rm \in RoomType, Shape(rm), Isolated(rm), rm.known, ~rm.tripped
    PROVE  /\ Fence(rm) \in RoomType /\ Shape(Fence(rm)) /\ Isolated(Fence(rm))
           /\ Fence(rm).known /\ ~Fence(rm).tripped
<1> DEFINE x == Fence(rm)
<1>1. x \in RoomType BY FenceType
<1>2. /\ x.routed = None /\ x.wanted = FALSE
      /\ x.generation = rm.generation + 1 /\ x.held = <<>>
      /\ x.epoch = rm.epoch + 1
      /\ x.known = rm.known /\ x.state = rm.state
      /\ x.execution = rm.execution /\ x.done = rm.done
      /\ x.task = rm.task /\ x.startGen = rm.startGen
      /\ x.batch = rm.batch /\ x.live = rm.live
      /\ x.execEpoch = rm.execEpoch /\ x.inbox = rm.inbox
      /\ x.tripped = rm.tripped
  BY FenceFields
<1>3. rm.generation \in Nat /\ rm.startGen \in Nat /\ rm.epoch \in Nat /\ rm.execEpoch \in Nat
  BY SMT DEF RoomType
<1> HIDE DEF x
<1>4. Shape(x) BY <1>2, <1>3, SMTT(30) DEF Shape, Starting, Stopping, Serving, None
<1>5. Isolated(x) BY <1>2, SMT DEF Isolated, AllOf
<1> QED BY <1>1, <1>2, <1>4, <1>5 DEF x

\* Requesting admission: the record joins the table, then is signalled.
LEMMA RequestAdmissionGood ==
    ASSUME NEW rm \in RoomType, Good(rm, TRUE)
    PROVE  Good(RequestAdmission(rm, TRUE), TRUE)
<1> DEFINE x == [rm EXCEPT !.known = TRUE, !.wanted = TRUE]
<1>1. x \in RoomType BY Zenon DEF RoomType
<1>2. /\ x.known = TRUE /\ x.wanted = TRUE
      /\ x.routed = rm.routed /\ x.generation = rm.generation /\ x.held = rm.held
      /\ x.epoch = rm.epoch /\ x.state = rm.state
      /\ x.execution = rm.execution /\ x.done = rm.done
      /\ x.task = rm.task /\ x.startGen = rm.startGen
      /\ x.batch = rm.batch /\ x.live = rm.live
      /\ x.execEpoch = rm.execEpoch /\ x.inbox = rm.inbox
      /\ x.tripped = rm.tripped
  BY SMT DEF RoomType
<1> HIDE DEF x
<1>3. Shape(rm) /\ Served(rm) /\ Isolated(rm) /\ ~rm.tripped
  BY DEF Good, Budget
<1>4. Shape(x) BY <1>2, <1>3, SMTT(30) DEF Shape, Served, Starting, Stopping, Serving, None
<1>5. Isolated(x) BY <1>2, <1>3, SMT DEF Isolated, AllOf
<1>6. Admits(x, TRUE) BY <1>2 DEF Admits
<1>7. x.known /\ ~x.tripped BY <1>2, <1>3
<1> QED BY <1>1, <1>4, <1>5, <1>6, <1>7, SignalGood DEF RequestAdmission, x

\* Appending events, and dropping the oldest, keeps them of one admission.
LEMMA AppendAll ==
    ASSUME NEW s \in Seq(Events), NEW e \in Events, NEW a, AllOf(s, a), e.adm = a
    PROVE  AllOf(Append(s, e), a)
<1> SUFFICES ASSUME NEW i \in 1..Len(Append(s, e)) PROVE Append(s, e)[i].adm = a
  BY DEF AllOf
<1>1. CASE i = Len(s) + 1 BY <1>1, SMT
<1>2. CASE i # Len(s) + 1
  <2>1. i \in 1..Len(s) /\ Append(s, e)[i] = s[i] BY <1>2, SMT
  <2> QED BY <2>1 DEF AllOf
<1> QED BY <1>1, <1>2

LEMMA TailAll ==
    ASSUME NEW s \in Seq(Events), NEW a, AllOf(s, a), s # <<>>
    PROVE  AllOf(Tail(s), a) /\ Head(s).adm = a
<1>1. Head(s).adm = a
  <2>1. 1 \in 1..Len(s) /\ Head(s) = s[1] BY SMT
  <2> QED BY <2>1 DEF AllOf
<1>2. ASSUME NEW i \in 1..Len(Tail(s)) PROVE Tail(s)[i].adm = a
  <2>1. i + 1 \in 1..Len(s) /\ Tail(s)[i] = s[i + 1] BY SMT
  <2> QED BY <2>1 DEF AllOf
<1> QED BY <1>1, <1>2 DEF AllOf

\* What holding writes.
HeldOnly(w, rm) ==
    /\ w.known = rm.known /\ w.wanted = rm.wanted
    /\ w.routed = rm.routed /\ w.generation = rm.generation
    /\ w.epoch = rm.epoch /\ w.state = rm.state
    /\ w.execution = rm.execution /\ w.done = rm.done
    /\ w.task = rm.task /\ w.startGen = rm.startGen
    /\ w.batch = rm.batch /\ w.live = rm.live
    /\ w.execEpoch = rm.execEpoch /\ w.inbox = rm.inbox
    /\ w.tripped = rm.tripped

LEMMA HoldFields ==
    ASSUME NEW rm \in RoomType, NEW h, NEW n, NEW z
    PROVE  /\ [rm EXCEPT !.held = h, !.arrivals = n, !.lossy = z].held = h
           /\ HeldOnly([rm EXCEPT !.held = h, !.arrivals = n, !.lossy = z], rm)
BY SMT DEF RoomType, HeldOnly

\* Holding an event of the admission that stands.
LEMMA HoldGood ==
    ASSUME NEW rm \in RoomType, NEW acc \in BOOLEAN, Good(rm, acc), rm.known,
           rm.routed = None
    PROVE  Good(Hold(rm, acc), acc)
<1> DEFINE q == Push(rm.held, NewEvent(rm))
           k == rm.arrivals + 1
           l == (rm.lossy \/ Len(rm.held) = MaxHeld)
           x == [rm EXCEPT !.held = q, !.arrivals = k, !.lossy = l]
<1>0. rm.held \in Seq(Events) /\ NewEvent(rm) \in Events /\ NewEvent(rm).adm = rm.epoch
  BY NewEventType, SMTT(30) DEF RoomType, NewEvent
<1>1. q \in Seq(Events) /\ k \in Nat /\ l \in BOOLEAN
  <2>1. k \in Nat BY SMT DEF RoomType
  <2>2. q \in Seq(Events) BY <1>0, HeldAssumption, SMT DEF Push
  <2> QED BY <2>1, <2>2
<1>2. Shape(rm) /\ Served(rm) /\ Isolated(rm) /\ ~rm.tripped
  BY DEF Good, Budget
<1>3. AllOf(q, rm.epoch)
  <2>1. AllOf(rm.held, rm.epoch) BY <1>2 DEF Isolated
  <2>2. CASE Len(rm.held) = MaxHeld
    <3>1. rm.held # <<>> /\ Tail(rm.held) \in Seq(Events) BY <1>0, <2>2, HeldAssumption, SMT
    <3> QED BY <1>0, <2>1, <2>2, <3>1, TailAll, AppendAll DEF Push
  <2>3. CASE Len(rm.held) # MaxHeld BY <1>0, <2>1, <2>3, AppendAll DEF Push
  <2> QED BY <2>2, <2>3
<1> HIDE DEF q, k, l
<1>4. x \in RoomType BY <1>1, ZenonT(30) DEF RoomType
<1>5. x.held = q /\ HeldOnly(x, rm) BY HoldFields
<1> HIDE DEF x
<1>6. Shape(x) BY <1>2, <1>5, SMTT(30) DEF Shape, HeldOnly, Starting, Stopping, Serving, None
<1>7. Isolated(x) BY <1>2, <1>3, <1>5, SMT DEF Isolated, HeldOnly, AllOf
<1>8. x.known /\ ~x.tripped /\ (x.done = "stale" => x.task = "start")
  BY <1>2, <1>5 DEF Served, HeldOnly
<1>9. Good(Signal(x, acc), acc) BY <1>4, <1>6, <1>7, <1>8, SignalGood
<1> QED BY <1>9 DEF Hold, x, q, k, l

\* A live event goes to the execution of the admission that stands.
LEMMA GiveRoutedGood ==
    ASSUME NEW rm \in RoomType, NEW acc \in BOOLEAN, Good(rm, acc), rm.routed # None
    PROVE  Good(GiveRouted(rm), acc)
<1> DEFINE x == GiveRouted(rm)
<1>1. /\ x.inbox = Append(rm.inbox, NewEvent(rm)) /\ x.held = rm.held
      /\ x.known = rm.known /\ x.wanted = rm.wanted
      /\ x.routed = rm.routed /\ x.generation = rm.generation
      /\ x.epoch = rm.epoch /\ x.state = rm.state
      /\ x.execution = rm.execution /\ x.done = rm.done
      /\ x.task = rm.task /\ x.startGen = rm.startGen
      /\ x.batch = rm.batch /\ x.live = rm.live
      /\ x.execEpoch = rm.execEpoch
      /\ x.tripped = rm.tripped /\ x.stepsLeft = rm.stepsLeft
  BY SMT DEF GiveRouted, RoomType
<1>2. Shape(rm) /\ Served(rm) /\ Isolated(rm) /\ Budget(rm, acc) BY DEF Good
<1>3. rm.inbox \in Seq(Events) /\ NewEvent(rm) \in Events /\ NewEvent(rm).adm = rm.epoch
  BY NewEventType, SMTT(30) DEF RoomType, NewEvent
<1>4. rm.execEpoch = rm.epoch
  BY <1>2, SMT DEF Shape, RoomType, None
<1>5. AllOf(Append(rm.inbox, NewEvent(rm)), rm.execEpoch)
  BY <1>2, <1>3, <1>4, AppendAll DEF Isolated
<1> HIDE DEF x
<1>6. Shape(x) BY <1>1, <1>2, SMTT(30) DEF Shape, Starting, Stopping, Serving, None
<1>7. Isolated(x) BY <1>1, <1>2, <1>5, SMT DEF Isolated
<1>8. Served(x) BY <1>1, <1>2 DEF Served
<1>9. Budget(x, acc) BY <1>1, <1>2 DEF Budget, Ready, Admits
<1> QED BY <1>6, <1>7, <1>8, <1>9 DEF Good, x

(* The step tasks. *)

\* What ending a start writes.
LEMMA FinishFields ==
    ASSUME NEW rm \in RoomType
    PROVE  LET x == FinishStart(rm) IN
      /\ x.state = (IF Serving(rm) THEN "SERVING" ELSE "IDLE") /\ x.task = "none" /\ x.done = "ok"
      /\ x.known = rm.known /\ x.wanted = rm.wanted /\ x.generation = rm.generation
      /\ x.execution = rm.execution /\ x.stepsLeft = rm.stepsLeft /\ x.held = rm.held
      /\ x.routed = rm.routed /\ x.startGen = rm.startGen
      /\ x.batch = rm.batch /\ x.live = rm.live /\ x.epoch = rm.epoch
      /\ x.execEpoch = rm.execEpoch /\ x.inbox = rm.inbox
      /\ x.tripped = rm.tripped
BY SMT DEF FinishStart, Ended, RoomType

\* The step ends, serving or not.
LEMMA FinishStartGood ==
    ASSUME NEW rm \in RoomType, NEW acc \in BOOLEAN, Shape(rm), Isolated(rm),
           Ready(rm, acc), rm.state = "STARTING", rm.execution # None, rm.done = "none",
           rm.batch = <<>>, rm.known,
           Serving(rm) \/ ~Current(rm, acc)
    PROVE  Good(FinishStart(rm), acc)
<1> DEFINE x == FinishStart(rm)
<1>1. /\ x.state = (IF Serving(rm) THEN "SERVING" ELSE "IDLE") /\ x.task = "none" /\ x.done = "ok"
      /\ x.known = rm.known /\ x.wanted = rm.wanted /\ x.generation = rm.generation
      /\ x.execution = rm.execution /\ x.stepsLeft = rm.stepsLeft /\ x.held = rm.held
      /\ x.routed = rm.routed /\ x.startGen = rm.startGen
      /\ x.batch = rm.batch /\ x.live = rm.live /\ x.epoch = rm.epoch
      /\ x.execEpoch = rm.execEpoch /\ x.inbox = rm.inbox
      /\ x.tripped = rm.tripped
  BY FinishFields
<1>2. rm.stepsLeft \in Nat /\ rm.routed \in Nat BY SMT DEF RoomType
<1> HIDE DEF x
<1>3. Shape(x) BY <1>1, <1>2, SMTT(30) DEF Shape, Starting, Stopping, Serving, None
<1>4. Isolated(x) BY <1>1, SMT DEF Isolated
<1>5. Served(x) BY <1>1, SMT DEF Served, Shape, Serving, None
<1>6. Budget(x, acc)
  BY <1>1, <1>2, Typical, SMTT(30) DEF Budget, Ready, Admits, Current, Serving
<1> QED BY <1>3, <1>4, <1>5, <1>6 DEF Good, x

LEMMA RouteFields ==
    ASSUME NEW rm \in RoomType
    PROVE  LET x == [rm EXCEPT !.routed = rm.execution, !.task = "resyncing"]
           IN  /\ Kept(x, rm) /\ x.routed = rm.execution /\ x.task = "resyncing"
               /\ x.state = rm.state /\ x.stepsLeft = rm.stepsLeft
BY SMT DEF RoomType, Kept

\* Routing, with the admission just checked.
LEMMA RouteGood ==
    ASSUME NEW rm \in RoomType, NEW acc \in BOOLEAN, Shape(rm), Isolated(rm),
           Ready(rm, acc), rm.state = "STARTING", rm.task \in Starting,
           rm.batch = <<>>, Current(rm, acc) => rm.held = <<>>,
           rm.routed = None
    PROVE  Good(Route(rm, acc), acc)
<1>0. rm.execution # None /\ rm.done = "none" /\ rm.known
  BY SMT DEF Shape, Starting
<1>1. CASE Current(rm, acc)
  <2> DEFINE x == [rm EXCEPT !.routed = rm.execution, !.task = "resyncing"]
  <2>1. Kept(x, rm) /\ x.routed = rm.execution /\ x.task = "resyncing"
        /\ x.state = rm.state /\ x.stepsLeft = rm.stepsLeft
    BY RouteFields
  <2> HIDE DEF x
  <2>2. Shape(x)
    BY <1>0, <1>1, <2>1, SMTT(30) DEF Shape, Starting, Stopping, Serving, None, Kept, Current, Admits
  <2>3. Isolated(x) BY <2>1, SMT DEF Isolated, Kept
  <2>4. Served(x) BY <1>0, <2>1, SMT DEF Served, Kept
  <2>5. Budget(x, acc) BY <2>1, SMT DEF Budget, Ready, Admits, Kept
  <2>6. Route(rm, acc) = x BY <1>1 DEF Route, x
  <2> QED BY <2>2, <2>3, <2>4, <2>5, <2>6 DEF Good
<1>2. CASE ~Current(rm, acc)
  <2>1. Good(FinishStart(rm), acc) BY <1>0, <1>2, FinishStartGood
  <2> QED BY <1>2, <2>1 DEF Route
<1> QED BY <1>1, <1>2

\* What clearing a queue, dropping both and handing an event over write.
QueueOnly(w, rm) ==
    /\ w.known = rm.known /\ w.wanted = rm.wanted
    /\ w.routed = rm.routed /\ w.generation = rm.generation
    /\ w.epoch = rm.epoch /\ w.state = rm.state
    /\ w.execution = rm.execution /\ w.done = rm.done
    /\ w.startGen = rm.startGen /\ w.live = rm.live
    /\ w.execEpoch = rm.execEpoch /\ w.tripped = rm.tripped
    /\ w.stepsLeft = rm.stepsLeft

LEMMA ClearFields ==
    ASSUME NEW rm \in RoomType
    PROVE  /\ QueueOnly([rm EXCEPT !.held = <<>>], rm)
           /\ [rm EXCEPT !.held = <<>>].held = <<>>
           /\ [rm EXCEPT !.held = <<>>].batch = rm.batch
           /\ [rm EXCEPT !.held = <<>>].inbox = rm.inbox
           /\ [rm EXCEPT !.held = <<>>].task = rm.task
           /\ QueueOnly([rm EXCEPT !.batch = <<>>], rm)
           /\ [rm EXCEPT !.batch = <<>>].batch = <<>>
           /\ [rm EXCEPT !.batch = <<>>].held = rm.held
           /\ [rm EXCEPT !.batch = <<>>].inbox = rm.inbox
           /\ [rm EXCEPT !.batch = <<>>].task = rm.task
<1>1. QueueOnly([rm EXCEPT !.held = <<>>], rm) BY SMT DEF RoomType, QueueOnly
<1>2. QueueOnly([rm EXCEPT !.batch = <<>>], rm) BY SMT DEF RoomType, QueueOnly
<1>3. /\ [rm EXCEPT !.held = <<>>].held = <<>>
      /\ [rm EXCEPT !.held = <<>>].batch = rm.batch
      /\ [rm EXCEPT !.held = <<>>].inbox = rm.inbox
      /\ [rm EXCEPT !.held = <<>>].task = rm.task
  BY SMT DEF RoomType
<1>4. /\ [rm EXCEPT !.batch = <<>>].batch = <<>>
      /\ [rm EXCEPT !.batch = <<>>].held = rm.held
      /\ [rm EXCEPT !.batch = <<>>].inbox = rm.inbox
      /\ [rm EXCEPT !.batch = <<>>].task = rm.task
  BY SMT DEF RoomType
<1> QED BY <1>1, <1>2, <1>3, <1>4

LEMMA DropFields ==
    ASSUME NEW rm \in RoomType
    PROVE  /\ QueueOnly(DropHeld(rm), rm)
           /\ DropHeld(rm).held = <<>> /\ DropHeld(rm).batch = <<>>
           /\ DropHeld(rm).inbox = rm.inbox /\ DropHeld(rm).task = rm.task
<1>1. QueueOnly(DropHeld(rm), rm) BY SMT DEF RoomType, QueueOnly, DropHeld
<1>2. /\ DropHeld(rm).held = <<>> /\ DropHeld(rm).batch = <<>>
      /\ DropHeld(rm).inbox = rm.inbox /\ DropHeld(rm).task = rm.task
  BY SMT DEF RoomType, DropHeld
<1> QED BY <1>1, <1>2

LEMMA HandOverFields ==
    ASSUME NEW rm \in RoomType, NEW b
    PROVE  /\ QueueOnly(HandOver(rm, b), rm)
           /\ HandOver(rm, b).held = rm.held /\ HandOver(rm, b).batch = Tail(b)
           /\ HandOver(rm, b).inbox = Append(rm.inbox, Head(b))
           /\ HandOver(rm, b).task = "delivering"
<1>1. QueueOnly(HandOver(rm, b), rm) BY SMT DEF RoomType, QueueOnly, HandOver
<1>2. /\ HandOver(rm, b).held = rm.held /\ HandOver(rm, b).batch = Tail(b)
      /\ HandOver(rm, b).inbox = Append(rm.inbox, Head(b))
      /\ HandOver(rm, b).task = "delivering"
  BY SMT DEF RoomType, HandOver
<1> QED BY <1>1, <1>2

\* A start between two events: unrouted, its task in the delivery loop.
Handing(rm, acc) ==
    /\ Shape(rm) /\ Ready(rm, acc)
    /\ rm.state = "STARTING" /\ rm.task \in {"starting", "delivering"}
    /\ rm.routed = None

\* Clearing queues keeps a start where it is.
LEMMA QueueHanding ==
    ASSUME NEW x, NEW rm, NEW acc, QueueOnly(x, rm), Handing(rm, acc),
           x.task \in {"starting", "delivering"},
           x.task = "starting" => x.batch = <<>>
    PROVE  Handing(x, acc)
<1>1. Shape(x) BY SMTT(30) DEF Handing, QueueOnly, Shape, Starting, Stopping, Serving, None
<1>2. Ready(x, acc) BY DEF Handing, QueueOnly, Ready, Admits
<1> QED BY <1>1, <1>2 DEF Handing, QueueOnly

\* A start in its delivery loop satisfies the invariant.
LEMMA HandingGood ==
    ASSUME NEW rm, NEW acc, Handing(rm, acc), Isolated(rm)
    PROVE  Good(rm, acc)
BY DEF Handing, Good, Budget, Served, Ready, Shape, Starting

\* One event handed over, the admission just checked.
LEMMA HandOverGood ==
    ASSUME NEW rm \in RoomType, NEW acc, NEW b \in Seq(Events), b # <<>>,
           Handing(rm, acc), AllOf(rm.held, rm.epoch), AllOf(rm.inbox, rm.execEpoch),
           AllOf(b, rm.execEpoch)
    PROVE  Good(HandOver(rm, b), acc)
<1> DEFINE x == HandOver(rm, b)
<1>1. /\ QueueOnly(x, rm) /\ x.held = rm.held /\ x.batch = Tail(b)
      /\ x.inbox = Append(rm.inbox, Head(b)) /\ x.task = "delivering"
  BY HandOverFields
<1>2. rm.inbox \in Seq(Events) /\ Head(b) \in Events BY SMT DEF RoomType
<1>3. AllOf(Tail(b), rm.execEpoch) /\ Head(b).adm = rm.execEpoch BY TailAll
<1>4. AllOf(Append(rm.inbox, Head(b)), rm.execEpoch) BY <1>2, <1>3, AppendAll
<1> HIDE DEF x
<1>5. Handing(x, acc) BY <1>1, QueueHanding
<1>6. Isolated(x) BY <1>1, <1>3, <1>4 DEF Isolated, QueueOnly
<1> QED BY <1>5, <1>6, HandingGood DEF x

\* The end of the delivery loop.
LEMMA HandingRoute ==
    ASSUME NEW rm \in RoomType, NEW acc \in BOOLEAN, Handing(rm, acc), Isolated(rm),
           rm.batch = <<>>, Current(rm, acc) => rm.held = <<>>
    PROVE  Good(Route(rm, acc), acc)
<1>1. rm.task \in Starting BY DEF Handing, Starting
<1> QED BY <1>1, RouteGood DEF Handing

\* One segment of _deliver_held.
LEMMA DeliverHeldGood ==
    ASSUME NEW rm \in RoomType, NEW acc \in BOOLEAN, Good(rm, acc),
           rm.task \in {"starting", "delivering"}
    PROVE  Good(DeliverHeld(rm, acc), acc)
<1>1. Handing(rm, acc) /\ Isolated(rm)
  BY SMT DEF Good, Budget, Handing, Shape, Starting
<1>2. rm.held \in Seq(Events) /\ rm.batch \in Seq(Events) BY SMT DEF RoomType
<1>3. AllOf(rm.held, rm.epoch) /\ AllOf(rm.batch, rm.execEpoch) /\ AllOf(rm.inbox, rm.execEpoch)
  BY <1>1 DEF Isolated
<1>4. Current(rm, acc) => rm.execEpoch = rm.epoch
  BY <1>1, SMT DEF Handing, Shape, Starting, RoomType, Current
<1>5. CASE rm.batch = <<>> /\ (rm.held = <<>> \/ ~Current(rm, acc))
  <2>1. Good(Route(rm, acc), acc) BY <1>1, <1>5, HandingRoute
  <2> QED BY <1>5, <2>1 DEF DeliverHeld
<1>6. CASE rm.batch = <<>> /\ rm.held # <<>> /\ Current(rm, acc) /\ rm.handed < MaxDelivery
  <2> DEFINE y == [rm EXCEPT !.held = <<>>]
  <2>1. /\ QueueOnly(y, rm) /\ y.held = <<>> /\ y.batch = rm.batch
        /\ y.inbox = rm.inbox /\ y.task = rm.task
    BY ClearFields
  <2>2. y \in RoomType BY Typical, Zenon DEF RoomType
  <2> HIDE DEF y
  <2>3. Handing(y, acc) BY <1>1, <1>6, <2>1, QueueHanding DEF Handing
  <2>4. AllOf(y.held, y.epoch) BY <2>1 DEF AllOf
  <2>5. AllOf(y.inbox, y.execEpoch) /\ AllOf(rm.held, y.execEpoch)
    BY <1>3, <1>4, <1>6, <2>1 DEF QueueOnly
  <2>6. Good(HandOver(y, rm.held), acc)
    BY <1>2, <1>6, <2>2, <2>3, <2>4, <2>5, HandOverGood
  <2>7. DeliverHeld(rm, acc) = HandOver(y, rm.held) BY <1>6 DEF DeliverHeld, y
  <2> QED BY <2>6, <2>7
<1>7. CASE rm.batch # <<>> /\ ~Current(rm, acc)
  <2> DEFINE y == [rm EXCEPT !.batch = <<>>]
  <2>1. /\ QueueOnly(y, rm) /\ y.batch = <<>> /\ y.held = rm.held
        /\ y.inbox = rm.inbox /\ y.task = rm.task
    BY ClearFields
  <2>2. y \in RoomType BY Typical, Zenon DEF RoomType
  <2> HIDE DEF y
  <2>3. Handing(y, acc) BY <1>1, <2>1, QueueHanding DEF Handing
  <2>4. Isolated(y) BY <1>1, <2>1 DEF Isolated, AllOf, QueueOnly
  <2>5. ~Current(y, acc) BY <1>7, <2>1 DEF Current, Admits, QueueOnly
  <2>6. Good(Route(y, acc), acc) BY <2>1, <2>2, <2>3, <2>4, <2>5, HandingRoute
  <2>7. DeliverHeld(rm, acc) = Route(y, acc) BY <1>7 DEF DeliverHeld, y
  <2> QED BY <2>6, <2>7
<1>8. CASE rm.batch # <<>> /\ Current(rm, acc) /\ rm.handed < MaxDelivery
  <2>1. Good(HandOver(rm, rm.batch), acc) BY <1>1, <1>2, <1>3, <1>8, HandOverGood
  <2>2. DeliverHeld(rm, acc) = HandOver(rm, rm.batch) BY <1>8 DEF DeliverHeld
  <2> QED BY <2>1, <2>2
<1>9. CASE Current(rm, acc) /\ ~(rm.batch = <<>> /\ rm.held = <<>>) /\ ~(rm.handed < MaxDelivery)
  <2> DEFINE y == DropHeld(rm)
  <2>1. /\ QueueOnly(y, rm) /\ y.held = <<>> /\ y.batch = <<>>
        /\ y.inbox = rm.inbox /\ y.task = rm.task
    BY DropFields
  <2>2. y \in RoomType
    <3>1. (rm.lossy \/ rm.batch # <<>> \/ rm.held # <<>>) \in BOOLEAN OBVIOUS
    <3> QED BY <3>1, Typical, Zenon DEF DropHeld, RoomType
  <2> HIDE DEF y
  <2>3. Handing(y, acc) BY <1>1, <2>1, QueueHanding DEF Handing
  <2>4. Isolated(y) BY <1>1, <2>1 DEF Isolated, AllOf, QueueOnly
  <2>5. Good(Route(y, acc), acc) BY <2>1, <2>2, <2>3, <2>4, HandingRoute
  <2>6. DeliverHeld(rm, acc) = Route(y, acc) BY <1>9 DEF DeliverHeld, y
  <2> QED BY <2>5, <2>6
<1> QED BY <1>5, <1>6, <1>7, <1>8, <1>9

\* The fields no step task writes.
Outside(w, rm) ==
    /\ w.known = rm.known /\ w.wanted = rm.wanted /\ w.routed = rm.routed
    /\ w.generation = rm.generation /\ w.epoch = rm.epoch /\ w.held = rm.held
    /\ w.tripped = rm.tripped /\ w.stepsLeft = rm.stepsLeft

\* What a raising step writes.
LEMMA RaisedFields ==
    ASSUME NEW rm \in RoomType
    PROVE  /\ Outside(Raised(rm), rm)
           /\ Raised(rm).task = "none" /\ Raised(rm).done = "failed"
           /\ Raised(rm).batch = <<>> /\ Raised(rm).inbox = rm.inbox
           /\ Raised(rm).state = rm.state /\ Raised(rm).execution = rm.execution
           /\ Raised(rm).startGen = rm.startGen /\ Raised(rm).live = rm.live
           /\ Raised(rm).execEpoch = rm.execEpoch
BY SMT DEF RoomType, Raised, Outside

\* A step that raised leaves its execution owned and unrouted.
LEMMA RaisedGood ==
    ASSUME NEW rm \in RoomType, NEW acc \in BOOLEAN, Good(rm, acc), rm.done = "none",
           rm.task \in {"start", "starting", "delivering", "stopping", "releasing"}
    PROVE  Good(Raised(rm), acc)
<1> DEFINE x == Raised(rm)
<1>1. /\ Outside(x, rm) /\ x.task = "none" /\ x.done = "failed"
      /\ x.batch = <<>> /\ x.inbox = rm.inbox
      /\ x.state = rm.state /\ x.execution = rm.execution
      /\ x.startGen = rm.startGen /\ x.live = rm.live
      /\ x.execEpoch = rm.execEpoch
  BY RaisedFields
<1>2. Shape(rm) /\ Served(rm) /\ Isolated(rm) /\ Budget(rm, acc) BY DEF Good
<1>3. rm.state \in {"STARTING", "RETIRING"} /\ rm.known /\ rm.routed = None
  BY <1>2, SMT DEF Shape, Starting, Stopping
<1> HIDE DEF x
<1>4. Shape(x)
  BY <1>1, <1>2, <1>3, SMTT(30) DEF Shape, Starting, Stopping, Serving, None, Outside
<1>5. Isolated(x) BY <1>1, <1>2, SMT DEF Isolated, AllOf, Outside
<1>6. Served(x) BY <1>1, <1>3 DEF Served
<1>7. Budget(x, acc) BY <1>1, <1>2, <1>3, SMT DEF Budget, Ready, Admits, Outside
<1> QED BY <1>4, <1>5, <1>6, <1>7 DEF Good, x

\* What building an execution writes.
LEMMA BuildFields ==
    ASSUME NEW rm \in RoomType
    PROVE  /\ Outside(Build(rm), rm)
           /\ Build(rm).task = "starting" /\ Build(rm).done = rm.done
           /\ Build(rm).batch = rm.batch /\ Build(rm).inbox = <<>>
           /\ Build(rm).state = rm.state /\ Build(rm).execution = rm.builds + 1
           /\ Build(rm).startGen = rm.generation
           /\ Build(rm).live = rm.live \cup {rm.builds + 1}
           /\ Build(rm).execEpoch = rm.epoch
BY SMT DEF RoomType, Build, Outside

\* The new execution is the only live one and belongs to the standing admission.
LEMMA BuildGood ==
    ASSUME NEW rm \in RoomType, NEW acc \in BOOLEAN, Good(rm, acc), rm.done = "none",
           rm.task = "start"
    PROVE  Good(Build(rm), acc)
<1> DEFINE x == Build(rm)
           e == rm.builds + 1
<1>1. /\ Outside(x, rm) /\ x.task = "starting" /\ x.done = rm.done
      /\ x.batch = rm.batch /\ x.inbox = <<>>
      /\ x.state = rm.state /\ x.execution = e
      /\ x.startGen = rm.generation
      /\ x.live = rm.live \cup {e}
      /\ x.execEpoch = rm.epoch
  BY BuildFields
<1>2. Shape(rm) /\ Served(rm) /\ Isolated(rm) /\ Budget(rm, acc) BY DEF Good
<1>3. /\ rm.state = "STARTING" /\ rm.execution = None /\ rm.live = {} /\ rm.known
      /\ rm.routed = None /\ rm.batch = <<>>
  BY <1>2, SMT DEF Shape, Starting, Stopping
<1>4. rm.generation \in Nat /\ rm.epoch \in Nat /\ e # None BY SMT DEF RoomType, None
<1>5. x.live = {e} BY <1>1, <1>3
<1> HIDE DEF x, e
<1>6. Shape(x)
  BY <1>1, <1>2, <1>3, <1>4, <1>5, SMTT(30)
  DEF Shape, Starting, Stopping, Serving, Outside
<1>7. Isolated(x) BY <1>1, <1>2, <1>3, SMT DEF Isolated, AllOf, Outside
<1>8. Served(x) BY <1>1, <1>3 DEF Served
<1>9. Budget(x, acc) BY <1>1, <1>2, <1>3, SMT DEF Budget, Ready, Admits, Outside
<1> QED BY <1>6, <1>7, <1>8, <1>9 DEF Good, x

\* After the resync the room serves, unless a leave fenced it meanwhile.
LEMMA ResyncGood ==
    ASSUME NEW rm \in RoomType, NEW acc \in BOOLEAN, Good(rm, acc), rm.task = "resyncing"
    PROVE  Good(FinishStart(rm), acc)
<1>1. Shape(rm) /\ Isolated(rm) /\ Budget(rm, acc) BY DEF Good
<1>2. /\ rm.state = "STARTING" /\ rm.execution # None /\ rm.done = "none"
      /\ rm.batch = <<>> /\ rm.known
  BY <1>1, SMT DEF Shape, Starting
<1>3. Ready(rm, acc) BY <1>1, <1>2 DEF Budget
<1>4. Serving(rm) \/ ~Current(rm, acc) BY <1>1, <1>2, SMT DEF Shape, Serving, Current
<1> QED BY <1>1, <1>2, <1>3, <1>4, FinishStartGood

LEMMA RetireTaskFields ==
    ASSUME NEW rm \in RoomType, NEW v
    PROVE  /\ Kept([rm EXCEPT !.task = "stopping"], rm)
           /\ [rm EXCEPT !.task = "stopping"].task = "stopping"
           /\ [rm EXCEPT !.task = "stopping"].routed = rm.routed
           /\ [rm EXCEPT !.task = "stopping"].state = rm.state
           /\ [rm EXCEPT !.task = "stopping"].stepsLeft = rm.stepsLeft
           /\ Kept([rm EXCEPT !.task = "releasing", !.verdict = v], rm)
           /\ [rm EXCEPT !.task = "releasing", !.verdict = v].task = "releasing"
           /\ [rm EXCEPT !.task = "releasing", !.verdict = v].routed = rm.routed
           /\ [rm EXCEPT !.task = "releasing", !.verdict = v].state = rm.state
           /\ [rm EXCEPT !.task = "releasing", !.verdict = v].stepsLeft = rm.stepsLeft
BY SMT DEF RoomType, Kept

\* A retirement moves on with its execution still owned.
LEMMA RetireTaskGood ==
    ASSUME NEW rm, NEW x, NEW acc \in BOOLEAN, Good(rm, acc), rm.done = "none",
           rm.task \in {"retire", "stopping"}, Kept(x, rm), x.routed = rm.routed,
           x.state = rm.state, x.stepsLeft = rm.stepsLeft, x.task \in Stopping
    PROVE  Good(x, acc)
<1>1. Shape(rm) /\ Served(rm) /\ Isolated(rm) /\ Budget(rm, acc) BY DEF Good
<1>2. Shape(x) BY <1>1, SMTT(30) DEF Shape, Starting, Stopping, Serving, None, Kept
<1>3. Isolated(x) BY <1>1, SMT DEF Isolated, AllOf, Kept
<1>4. Served(x) BY <1>1, SMT DEF Served, Kept
<1>5. Budget(x, acc) BY <1>1, SMT DEF Budget, Ready, Admits, Kept
<1> QED BY <1>2, <1>3, <1>4, <1>5 DEF Good

\* What the end of a retirement writes.
LEMMA RetiredFields ==
    ASSUME NEW rm \in RoomType
    PROVE  /\ Outside(Retired(rm), rm)
           /\ Retired(rm).task = "none" /\ Retired(rm).done = "ok"
           /\ Retired(rm).batch = rm.batch /\ Retired(rm).inbox = rm.inbox
           /\ Retired(rm).state = "IDLE" /\ Retired(rm).execution = None
           /\ Retired(rm).live = rm.live \ {rm.execution}
           /\ Retired(rm).execEpoch = rm.execEpoch
BY SMT DEF RoomType, Retired, Ended, Outside

\* The cleaned-up execution was the only live one.
LEMMA RetiredGood ==
    ASSUME NEW rm \in RoomType, NEW acc \in BOOLEAN, Good(rm, acc), rm.task = "releasing"
    PROVE  Good(Retired(rm), acc)
<1> DEFINE x == Retired(rm)
<1>1. /\ Outside(x, rm) /\ x.task = "none" /\ x.done = "ok"
      /\ x.batch = rm.batch /\ x.inbox = rm.inbox
      /\ x.state = "IDLE" /\ x.execution = None
      /\ x.live = rm.live \ {rm.execution}
      /\ x.execEpoch = rm.execEpoch
  BY RetiredFields
<1>2. Shape(rm) /\ Served(rm) /\ Isolated(rm) /\ Budget(rm, acc) BY DEF Good
<1>3. /\ rm.state = "RETIRING" /\ rm.execution # None /\ rm.live = {rm.execution} /\ rm.known
      /\ rm.routed = None /\ rm.batch = <<>>
  BY <1>2, SMT DEF Shape, Starting, Stopping
<1>4. x.live = {} BY <1>1, <1>3
<1> HIDE DEF x
<1>5. Shape(x)
  BY <1>1, <1>3, <1>4, SMTT(30) DEF Shape, Starting, Stopping, Serving, Outside
<1>6. Isolated(x) BY <1>1, <1>2, SMT DEF Isolated, AllOf, Outside
<1>7. Served(x) BY <1>1 DEF Served
<1>8. Budget(x, acc) BY <1>1, <1>2, <1>3, SMT DEF Budget, Ready, Admits, Outside
<1> QED BY <1>5, <1>6, <1>7, <1>8 DEF Good, x

\* What the done-callback writes before it decides.
LEMMA CalledFields ==
    ASSUME NEW rm \in RoomType
    PROVE  LET called == [rm EXCEPT !.done = "none"]
               idle == [called EXCEPT !.state = "IDLE"]
           IN  /\ Outside(called, rm) /\ called.task = rm.task /\ called.done = "none"
               /\ called.batch = rm.batch /\ called.inbox = rm.inbox
               /\ called.state = rm.state /\ called.execution = rm.execution
               /\ called.startGen = rm.startGen /\ called.live = rm.live
               /\ called.execEpoch = rm.execEpoch
               /\ Outside(idle, rm) /\ idle.task = rm.task /\ idle.done = "none"
               /\ idle.batch = rm.batch /\ idle.inbox = rm.inbox
               /\ idle.state = "IDLE" /\ idle.execution = rm.execution
               /\ idle.startGen = rm.startGen /\ idle.live = rm.live
               /\ idle.execEpoch = rm.execEpoch
BY SMT DEF RoomType, Outside

\* The done-callback: the next step, a failure that keeps the execution owned,
\* or nothing for a room object no longer in the table.
LEMMA StepDoneGood ==
    ASSUME NEW rm \in RoomType, NEW acc \in BOOLEAN, Good(rm, acc), rm.done # "none"
    PROVE  Good(StepDone(rm, acc), acc)
<1> DEFINE called == [rm EXCEPT !.done = "none"]
           idle == [called EXCEPT !.state = "IDLE"]
<1>1. /\ Outside(called, rm) /\ called.task = rm.task /\ called.done = "none"
      /\ called.batch = rm.batch /\ called.inbox = rm.inbox
      /\ called.state = rm.state /\ called.execution = rm.execution
      /\ called.startGen = rm.startGen /\ called.live = rm.live
      /\ called.execEpoch = rm.execEpoch
  BY CalledFields
<1>2. /\ Outside(idle, rm) /\ idle.task = rm.task /\ idle.done = "none"
      /\ idle.batch = rm.batch /\ idle.inbox = rm.inbox
      /\ idle.state = "IDLE" /\ idle.execution = rm.execution
      /\ idle.startGen = rm.startGen /\ idle.live = rm.live
      /\ idle.execEpoch = rm.execEpoch
  BY CalledFields
<1>3. called \in RoomType BY Zenon DEF RoomType
<1>4. idle \in RoomType BY <1>3, ZenonT(60) DEF RoomType, RoomStates
<1>5. rm.done \in {"ok", "failed", "stale"} BY SMT DEF RoomType
<1>6. Shape(rm) /\ Served(rm) /\ Isolated(rm) /\ Budget(rm, acc) BY DEF Good
<1>10. /\ rm.done = "ok" => StepDone(rm, acc) = Advance(called, acc)
       /\ rm.done = "failed" /\ rm.state = "STARTING" /\ ~Admits(rm, acc)
            => StepDone(rm, acc) = Advance(idle, acc)
       /\ rm.done = "failed" /\ (rm.state # "STARTING" \/ Admits(rm, acc))
            => StepDone(rm, acc) = Fail(idle)
       /\ rm.done = "stale" => StepDone(rm, acc) = called
  BY DEF StepDone, InTable
<1> HIDE DEF called, idle
<1>7. CASE rm.done = "ok"
  <2>1. Ready(rm, acc) /\ rm.known BY <1>6, <1>7 DEF Budget, Shape
  <2>2. Shape(called)
    BY <1>1, <1>6, <1>7, SMTT(30) DEF Shape, Starting, Stopping, Serving, None, Outside
  <2>3. Isolated(called) BY <1>1, <1>6, SMT DEF Isolated, AllOf, Outside
  <2>4. Ready(called, acc) BY <1>1, <2>1 DEF Ready, Admits, Outside
  <2>5. Good(Advance(called, acc), acc)
    BY <1>1, <1>3, <2>1, <2>2, <2>3, <2>4, AdvanceGood DEF Outside
  <2> QED BY <1>7, <1>10, <2>5
<1>8. CASE rm.done = "failed"
  <2>1. Shape(idle)
    BY <1>2, <1>6, <1>8, SMTT(30) DEF Shape, Starting, Stopping, Serving, None, Outside
  <2>2. Isolated(idle) BY <1>2, <1>6, SMT DEF Isolated, AllOf, Outside
  <2>3. rm.known /\ Ready(rm, acc) BY <1>6, <1>8 DEF Budget, Shape
  <2>4. CASE rm.state = "STARTING" /\ ~Admits(rm, acc)
    <3>1. Ready(idle, acc) BY <1>2, <2>3, <2>4, SMT DEF Ready, Admits, Outside
    <3>2. Good(Advance(idle, acc), acc)
      BY <1>2, <1>4, <2>1, <2>2, <2>3, <3>1, AdvanceGood DEF Outside
    <3> QED BY <1>8, <1>10, <2>4, <3>2
  <2>5. CASE rm.state # "STARTING" \/ Admits(rm, acc)
    <3>1. Good(idle, acc)
      BY <1>2, <2>1, <2>2, <2>3 DEF Good, Served, Budget, Ready, Outside
    <3>2. Same(Fail(idle), idle) BY <1>4, AnswerSame DEF Fail
    <3>3. Good(Fail(idle), acc) BY <3>1, <3>2, SameGood DEF Good
    <3> QED BY <1>8, <1>10, <2>5, <3>3
  <2> QED BY <2>4, <2>5
<1>9. CASE rm.done = "stale"
  <2>0. rm.task # "none" \/ rm.state \notin {"STARTING", "RETIRING"}
    BY <1>6, <1>9 DEF Shape
  <2>1. Shape(called)
    BY <1>1, <1>6, <1>9, <2>0, SMTT(30) DEF Shape, Starting, Stopping, Serving, None, Outside
  <2>2. Isolated(called) BY <1>1, <1>6, SMT DEF Isolated, AllOf, Outside
  <2>3. Served(called) BY <1>1, <1>6 DEF Served, Outside
  <2>4. Budget(called, acc) BY <1>1, <1>6, SMT DEF Budget, Ready, Admits, Outside
  <2> QED BY <1>9, <1>10, <2>1, <2>2, <2>3, <2>4 DEF Good
<1> QED BY <1>5, <1>7, <1>8, <1>9

\* A fence, with or without a waiter, followed by its signal.
LEMMA WaiterSame ==
    ASSUME NEW rm \in RoomType, NEW w \in Results
    PROVE  /\ [rm EXCEPT !.waiter = w] \in RoomType
           /\ Same([rm EXCEPT !.waiter = w], rm)
<1>1. [rm EXCEPT !.waiter = w] \in RoomType BY Zenon DEF RoomType, Results
<1>2. Same([rm EXCEPT !.waiter = w], rm) BY SMT DEF RoomType, Same
<1> QED BY <1>1, <1>2

LEMMA WithdrawGood ==
    ASSUME NEW rm \in RoomType, NEW acc \in BOOLEAN, Good(rm, acc), rm.known
    PROVE  /\ Good(Signal(Fence(rm), acc), acc)
           /\ Good(Signal([Fence(rm) EXCEPT !.waiter = "waiting"], acc), acc)
<1>1. Shape(rm) /\ Served(rm) /\ Isolated(rm) /\ ~rm.tripped BY DEF Good, Budget
<1> DEFINE x == Fence(rm)
           y == [x EXCEPT !.waiter = "waiting"]
<1>2. x \in RoomType /\ Shape(x) /\ Isolated(x) /\ x.known /\ ~x.tripped
  BY <1>1, FenceGood
<1>3. x.done = "stale" => x.task = "start"
  BY <1>1, FenceFields DEF Served
<1> HIDE DEF x
<1>4. y \in RoomType /\ Same(y, x) BY <1>2, WaiterSame DEF Results
<1> HIDE DEF y
<1>5. Shape(y) /\ Isolated(y) /\ y.known /\ ~y.tripped /\ (y.done = "stale" => y.task = "start")
  BY <1>2, <1>3, <1>4, SameGood DEF Same
<1>6. Good(Signal(x, acc), acc) BY <1>2, <1>3, SignalGood
<1>7. Good(Signal(y, acc), acc) BY <1>4, <1>5, SignalGood
<1> QED BY <1>6, <1>7 DEF x, y

----------------------------------------------------------------------------
(* No operator but RequestAdmission makes a room wanted. *)

LEMMA AdvanceWanted ==
    ASSUME NEW rm \in RoomType, NEW acc \in BOOLEAN
    PROVE  Advance(rm, acc).wanted => rm.wanted
<1>1. Settle(rm).wanted = rm.wanted BY AnswerSame DEF Settle, Same
<1>2. Forget(rm).wanted => rm.wanted
  <2>1. FreshRoom(Settle(rm)).wanted = FALSE BY DEF FreshRoom
  <2> QED BY <1>1, <2>1 DEF Forget
<1>3. \A x \in RoomType : \A s, t : Step(x, s, t).wanted = x.wanted
  <2> SUFFICES ASSUME NEW x \in RoomType, NEW s, NEW t PROVE Step(x, s, t).wanted = x.wanted
    OBVIOUS
  <2>1. CASE x.stepsLeft # 0 BY <2>1, StepFields DEF Kept
  <2>2. CASE x.stepsLeft = 0
    <3> DEFINE c == IF x.convergence = "none" THEN "graceful" ELSE x.convergence
               o == [x EXCEPT !.convergence = c]
    <3>1. c \in {"none", "graceful", "forced"} BY SMT DEF RoomType
    <3> HIDE DEF c
    <3>2. o \in RoomType /\ o.wanted = x.wanted
      <4>1. o \in RoomType BY <3>1, Zenon DEF RoomType
      <4>2. o.wanted = x.wanted BY SMT DEF RoomType
      <4> QED BY <4>1, <4>2
    <3> HIDE DEF o
    <3>3. Fail(o) \in RoomType /\ Fail(o).wanted = x.wanted
      BY <3>2, SettleType, AnswerSame DEF Fail, Same
    <3>4. \A z \in RoomType : [z EXCEPT !.tripped = TRUE].wanted = z.wanted
      BY SMT DEF RoomType
    <3>5. Step(x, s, t) = [Fail(o) EXCEPT !.tripped = TRUE] BY <2>2 DEF Step, o, c
    <3> QED BY <3>3, <3>4, <3>5
  <2> QED BY <2>1, <2>2
<1>4. Step([rm EXCEPT !.routed = None], "RETIRING", "retire").wanted = rm.wanted
  <2> DEFINE y == [rm EXCEPT !.routed = None]
  <2>1. y \in RoomType /\ y.wanted = rm.wanted BY UnrouteFields DEF Kept
  <2> HIDE DEF y
  <2>2. Step(y, "RETIRING", "retire").wanted = y.wanted BY <1>3, <2>1
  <2> QED BY <2>1, <2>2 DEF y
<1> QED BY <1>1, <1>2, <1>3, <1>4 DEF Advance

LEMMA SignalWanted ==
    ASSUME NEW rm \in RoomType, NEW acc \in BOOLEAN
    PROVE  Signal(rm, acc).wanted => rm.wanted
<1>1. [rm EXCEPT !.stepsLeft = MaxSteps] \in RoomType
      /\ [rm EXCEPT !.stepsLeft = MaxSteps].wanted = rm.wanted
  BY ResetFields DEF Kept
<1> QED BY <1>1, AdvanceWanted DEF Signal

LEMMA WithdrawWanted ==
    ASSUME NEW rm \in RoomType, NEW acc \in BOOLEAN
    PROVE  /\ ~Signal(Fence(rm), acc).wanted
           /\ ~Signal([Fence(rm) EXCEPT !.waiter = "waiting"], acc).wanted
<1>1. Fence(rm) \in RoomType /\ ~Fence(rm).wanted BY FenceType, FenceFields
<1>2. /\ [Fence(rm) EXCEPT !.waiter = "waiting"] \in RoomType
      /\ ~[Fence(rm) EXCEPT !.waiter = "waiting"].wanted
  BY <1>1, WaiterSame DEF Results, Same
<1> QED BY <1>1, <1>2, SignalWanted

LEMMA HoldWanted ==
    ASSUME NEW rm \in RoomType, NEW acc \in BOOLEAN
    PROVE  (Hold(rm, acc).wanted => rm.wanted) /\ GiveRouted(rm).wanted = rm.wanted
<1> DEFINE q == Push(rm.held, NewEvent(rm))
           k == rm.arrivals + 1
           l == (rm.lossy \/ Len(rm.held) = MaxHeld)
           x == [rm EXCEPT !.held = q, !.arrivals = k, !.lossy = l]
<1>0. rm.held \in Seq(Events) BY SMT DEF RoomType
<1>1. q \in Seq(Events) BY <1>0, NewEventType, HeldAssumption, SMT DEF Push
<1>2. k \in Nat BY SMT DEF RoomType
<1>3. l \in BOOLEAN OBVIOUS
<1> HIDE DEF q, k, l
<1>4. x \in RoomType BY <1>1, <1>2, <1>3, ZenonT(30) DEF RoomType
<1>5. x.wanted = rm.wanted BY HoldFields DEF HeldOnly
<1> HIDE DEF x
<1>6. Signal(x, acc).wanted => rm.wanted BY <1>4, <1>5, SignalWanted
<1>7. GiveRouted(rm).wanted = rm.wanted BY SMT DEF GiveRouted, RoomType
<1> QED BY <1>6, <1>7 DEF Hold, x, q, k, l

LEMMA RouteWanted ==
    ASSUME NEW rm \in RoomType, NEW acc \in BOOLEAN
    PROVE  Route(rm, acc).wanted = rm.wanted
BY FinishFields, RouteFields DEF Route, Kept

LEMMA DeliverHeldWanted ==
    ASSUME NEW rm \in RoomType, NEW acc \in BOOLEAN
    PROVE  DeliverHeld(rm, acc).wanted = rm.wanted
<1>1. /\ [rm EXCEPT !.held = <<>>] \in RoomType /\ [rm EXCEPT !.held = <<>>].wanted = rm.wanted
      /\ [rm EXCEPT !.batch = <<>>] \in RoomType /\ [rm EXCEPT !.batch = <<>>].wanted = rm.wanted
  <2>1. [rm EXCEPT !.held = <<>>] \in RoomType BY Typical, Zenon DEF RoomType
  <2>2. [rm EXCEPT !.batch = <<>>] \in RoomType BY Typical, Zenon DEF RoomType
  <2> QED BY <2>1, <2>2, ClearFields DEF QueueOnly
<1>2. DropHeld(rm) \in RoomType /\ DropHeld(rm).wanted = rm.wanted
  <2>1. (rm.lossy \/ rm.batch # <<>> \/ rm.held # <<>>) \in BOOLEAN OBVIOUS
  <2>2. DropHeld(rm) \in RoomType BY <2>1, Typical, Zenon DEF DropHeld, RoomType
  <2> QED BY <2>2, DropFields DEF QueueOnly
<1>3. /\ HandOver([rm EXCEPT !.held = <<>>], rm.held).wanted = rm.wanted
      /\ HandOver(rm, rm.batch).wanted = rm.wanted
  <2>1. \A x \in RoomType : \A b : HandOver(x, b).wanted = x.wanted
    BY HandOverFields DEF QueueOnly
  <2> DEFINE y == [rm EXCEPT !.held = <<>>]
  <2>2. y \in RoomType /\ y.wanted = rm.wanted BY <1>1
  <2> HIDE DEF y
  <2>3. HandOver(y, rm.held).wanted = y.wanted BY <2>1, <2>2
  <2>4. HandOver(rm, rm.batch).wanted = rm.wanted BY <2>1
  <2> QED BY <2>2, <2>3, <2>4 DEF y
<1>4. /\ Route(rm, acc).wanted = rm.wanted
      /\ Route([rm EXCEPT !.batch = <<>>], acc).wanted = rm.wanted
      /\ Route(DropHeld(rm), acc).wanted = rm.wanted
  BY <1>1, <1>2, RouteWanted
<1> QED BY <1>3, <1>4 DEF DeliverHeld

LEMMA StepDoneWanted ==
    ASSUME NEW rm \in RoomType, NEW acc \in BOOLEAN, rm.done # "none"
    PROVE  StepDone(rm, acc).wanted => rm.wanted
<1> DEFINE called == [rm EXCEPT !.done = "none"]
           idle == [called EXCEPT !.state = "IDLE"]
<1>1. called \in RoomType BY Zenon DEF RoomType
<1>2. idle \in RoomType BY <1>1, ZenonT(60) DEF RoomType, RoomStates
<1>3. called.wanted = rm.wanted /\ idle.wanted = rm.wanted BY CalledFields DEF Outside
<1>4. rm.done \in {"ok", "failed", "stale"} BY SMT DEF RoomType
<1>5. /\ Advance(called, acc).wanted => rm.wanted
      /\ Advance(idle, acc).wanted => rm.wanted
      /\ Fail(idle).wanted = rm.wanted
  <2>1. Advance(called, acc).wanted => rm.wanted BY <1>1, <1>3, AdvanceWanted
  <2>2. Advance(idle, acc).wanted => rm.wanted BY <1>2, <1>3, AdvanceWanted
  <2>3. Fail(idle).wanted = rm.wanted BY <1>2, <1>3, AnswerSame DEF Fail, Same
  <2> QED BY <2>1, <2>2, <2>3
<1>6. rm.done = "stale" => StepDone(rm, acc) = called BY DEF StepDone, InTable
<1>7. rm.done \in {"ok", "failed"} =>
        StepDone(rm, acc) \in {Advance(called, acc), Advance(idle, acc), Fail(idle)}
  BY DEF StepDone
<1> HIDE DEF called, idle
<1> QED BY <1>3, <1>4, <1>5, <1>6, <1>7

----------------------------------------------------------------------------
\* Budgets survive a change of `accepting': closing only lowers what a room may
\* need, and reopening finds no room wanted.
LEMMA AcceptingGood ==
    ASSUME NEW rm \in RoomType, NEW acc \in BOOLEAN, Good(rm, acc)
    PROVE  Good(rm, FALSE) /\ (~rm.wanted => Good(rm, TRUE))
<1>1. Budget(rm, FALSE) BY DEF Good, Budget, Ready, Admits
<1>2. ~rm.wanted => Budget(rm, TRUE) BY DEF Good, Budget, Ready, Admits
<1> QED BY <1>1, <1>2 DEF Good

----------------------------------------------------------------------------
(* The invariant as a whole. *)

\* Replacing one room by a good record keeps the invariant, while its owner's
\* state is unchanged and the room does not become wanted.
LEMMA PutGood ==
    ASSUME IInv, NEW r \in Rooms, NEW rm \in RoomType, Good(rm, accepting),
           rm.wanted => room[r].wanted, room' = [room EXCEPT ![r] = rm],
           UNCHANGED <<accepting, mode, todo>>, waiting' \subseteq waiting,
           TypeOK'
    PROVE  IInv'
<1>1. \A q \in Rooms : room'[q] = IF q = r THEN rm ELSE room[q] BY DEF IInv, TypeOK
<1>2. \A q \in Rooms : Good(room'[q], accepting)
  BY <1>1 DEF IInv, Good
<1>3. \A q \in Rooms : room'[q].wanted => room[q].wanted BY <1>1
<1>4. Withdrawn' BY <1>3 DEF IInv, Withdrawn
<1> QED BY <1>2, <1>4 DEF IInv, Good

\* The same for an operation of presence while admissions are open.
LEMMA PutJoined ==
    ASSUME IInv, NEW r \in Rooms, NEW rm \in RoomType, Good(rm, accepting),
           accepting, mode # "created", room' = [room EXCEPT ![r] = rm],
           UNCHANGED <<accepting, mode, todo>>, waiting' \subseteq waiting,
           TypeOK'
    PROVE  IInv'
<1>1. \A q \in Rooms : room'[q] = IF q = r THEN rm ELSE room[q] BY DEF IInv, TypeOK
<1>2. \A q \in Rooms : Good(room'[q], accepting)
  BY <1>1 DEF IInv, Good
<1>3. Withdrawn' BY DEF IInv, Withdrawn
<1> QED BY <1>2, <1>3 DEF IInv, Good

\* An empty table satisfies the invariant.
LEMMA InitIInv == ASSUME Init, TypeOK PROVE IInv
<1>1. Shape(NoRoom) BY SMT DEF NoRoom, Shape, Starting, Stopping, Serving, None
<1>2. Served(NoRoom) BY SMT DEF NoRoom, Served
<1>3. Isolated(NoRoom) BY SMT DEF NoRoom, Isolated, AllOf
<1>4. Budget(NoRoom, TRUE) BY SMT DEF NoRoom, Budget
<1>5. ~NoRoom.wanted BY SMT DEF NoRoom
<1>6. \A r \in Rooms : room[r] = NoRoom BY DEF Init
<1>7. Withdrawn BY <1>5, <1>6 DEF Init, Withdrawn
<1> QED BY <1>1, <1>2, <1>3, <1>4, <1>6, <1>7 DEF Init, IInv

\* Every step keeps the inductive invariant.
LEMMA NextIInv == ASSUME IInv, [Next]_vars, TypeOK' PROVE IInv'
<1>0. /\ \A r \in Rooms : room[r] \in RoomType /\ Good(room[r], accepting)
      /\ accepting \in BOOLEAN
  BY DEF IInv, TypeOK, Good
<1>1. CASE Presence
  <2>1. ASSUME NEW r \in Rooms, OnRoomJoined(r) PROVE IInv'
    <3> DEFINE rm == RequestAdmission(room[r], accepting)
    <3>1. accepting = TRUE /\ mode # "created" BY <1>0, <2>1 DEF OnRoomJoined, Listening
    <3>2. rm \in RoomType BY <1>0, RequestAdmissionType
    <3>3. Good(rm, accepting) BY <1>0, <3>1, RequestAdmissionGood
    <3>4. room' = [room EXCEPT ![r] = rm] /\ UNCHANGED <<accepting, mode, todo, waiting>>
      BY <2>1 DEF OnRoomJoined, Put, OwnerUnchanged
    <3> HIDE DEF rm
    <3> QED BY <3>1, <3>2, <3>3, <3>4, PutJoined
  <2>2. ASSUME NEW r \in Rooms, OnRoomLeft(r) PROVE IInv'
    <3> DEFINE rm == Signal(Fence(room[r]), accepting)
    <3>1. room[r].known BY <2>2 DEF OnRoomLeft
    <3>2. rm \in RoomType BY <1>0, FenceType, SignalType
    <3>3. Good(rm, accepting) BY <1>0, <3>1, WithdrawGood
    <3>4. ~rm.wanted BY <1>0, WithdrawWanted
    <3>5. room' = [room EXCEPT ![r] = rm] /\ UNCHANGED <<accepting, mode, todo, waiting>>
      BY <2>2 DEF OnRoomLeft, Put, OwnerUnchanged
    <3> HIDE DEF rm
    <3> QED BY <3>2, <3>3, <3>4, <3>5, PutGood
  <2>3. ASSUME NEW r \in Rooms, OnRoomEvent(r) PROVE IInv'
    <3>1. UNCHANGED <<accepting, mode, todo, waiting>> BY <2>3 DEF OnRoomEvent, OwnerUnchanged
    <3>2. CASE room[r].routed # None
      <4> DEFINE rm == GiveRouted(room[r])
      <4>1. rm \in RoomType /\ Good(rm, accepting) /\ rm.wanted = room[r].wanted
        BY <1>0, <3>2, GiveRoutedType, GiveRoutedGood, HoldWanted
      <4>2. room' = [room EXCEPT ![r] = rm] BY <2>3, <3>2 DEF OnRoomEvent, Put
      <4> HIDE DEF rm
      <4> QED BY <3>1, <4>1, <4>2, PutGood
    <3>3. CASE room[r].routed = None
      <4> DEFINE rm == Hold(room[r], accepting)
      <4>0. room[r].known BY <2>3, <3>3 DEF OnRoomEvent
      <4>1. rm \in RoomType /\ Good(rm, accepting) /\ (rm.wanted => room[r].wanted)
        BY <1>0, <3>3, <4>0, HoldType, HoldGood, HoldWanted
      <4>2. room' = [room EXCEPT ![r] = rm] BY <2>3, <3>3 DEF OnRoomEvent, Put
      <4> HIDE DEF rm
      <4> QED BY <3>1, <4>1, <4>2, PutGood
    <3> QED BY <3>2, <3>3
  <2>4. ASSUME OnReconnected PROVE IInv'
    <3>1. \A q \in Rooms : room'[q] = IF room[q].known /\ ~Serving(room[q])
                                      THEN Signal(room[q], accepting) ELSE room[q]
      BY <2>4 DEF OnReconnected
    <3>2. ASSUME NEW q \in Rooms PROVE Good(room'[q], accepting) /\ (room'[q].wanted => room[q].wanted)
      <4>1. room[q].known => Good(Signal(room[q], accepting), accepting)
        <5>1. Shape(room[q]) /\ Served(room[q]) /\ Isolated(room[q]) /\ ~room[q].tripped
          BY <1>0 DEF Good, Budget
        <5> QED BY <1>0, <5>1, SignalGood DEF Served
      <4>2. Signal(room[q], accepting).wanted => room[q].wanted BY <1>0, SignalWanted
      <4> QED BY <1>0, <3>1, <4>1, <4>2
    <3>3. UNCHANGED <<accepting, mode, todo, waiting>> BY <2>4 DEF OnReconnected, OwnerUnchanged
    <3>4. Withdrawn' BY <3>2, <3>3 DEF IInv, Withdrawn
    <3> QED BY <3>2, <3>3, <3>4 DEF IInv, Good
  <2> QED BY <1>1, <2>1, <2>2, <2>3, <2>4 DEF Presence
<1>2. CASE Owner
  <2>1. CASE Start
    <3>1. \A q \in Rooms : ~room[q].wanted BY <2>1 DEF Start, IInv, Withdrawn
    <3>2. \A q \in Rooms : Good(room[q], TRUE) BY <1>0, <3>1, AcceptingGood
    <3>3. Withdrawn' BY <2>1 DEF Start, IInv, Withdrawn
    <3> QED BY <2>1, <3>2, <3>3 DEF Start, IInv, Good
  <2>2. CASE StartEnds
    <3>1. \A q \in Rooms : Good(room[q], FALSE) BY <1>0, AcceptingGood
    <3>2. Withdrawn' BY <2>2 DEF StartEnds, Withdrawn, IInv
    <3>3. accepting' = accepting \/ accepting' = FALSE BY <2>2 DEF StartEnds
    <3> QED BY <1>0, <2>2, <3>1, <3>2, <3>3 DEF StartEnds, IInv, Good
  <2>3. CASE Stop
    <3>1. \A q \in Rooms : Good(room[q], FALSE) BY <1>0, AcceptingGood
    <3>2. \A q \in Rooms : ~room[q].known => ~room[q].wanted BY <1>0 DEF Good, Shape
    <3>3. Withdrawn' BY <2>3, <3>2 DEF Stop, Withdrawn, IInv
    <3> QED BY <2>3, <3>1, <3>3 DEF Stop, IInv, Good
  <2>4. CASE StopEnds
    <3>1. Withdrawn' BY <2>4 DEF StopEnds, Withdrawn, IInv
    <3> QED BY <2>4, <3>1 DEF StopEnds, IInv
  <2>5. CASE Disconnected
    <3>1. Withdrawn' BY <2>5 DEF Disconnected, Withdrawn, IInv
    <3> QED BY <2>5, <3>1 DEF Disconnected, IInv
  <2>6. ASSUME NEW r \in Rooms, Destroy(r) PROVE IInv'
    <3> DEFINE y == Signal([Fence(room[r]) EXCEPT !.waiter = "waiting"], accepting)
               z == [y EXCEPT !.waiter = "none"]
    <3>1. y \in RoomType
      <4>1. Fence(room[r]) \in RoomType BY <1>0, FenceType
      <4>2. [Fence(room[r]) EXCEPT !.waiter = "waiting"] \in RoomType
        BY <4>1, WaiterSame DEF Results
      <4> QED BY <1>0, <4>2, SignalType
    <3>2. ~y.wanted BY <1>0, WithdrawWanted
    <3>3. room[r].known => Good(y, accepting) BY <1>0, WithdrawGood
    <3>4. room' \in {[room EXCEPT ![r] = y], [room EXCEPT ![r] = z], [room EXCEPT ![r] = room[r]]}
          /\ (~room[r].known => room' = [room EXCEPT ![r] = room[r]])
          /\ (room[r].known => room' \in {[room EXCEPT ![r] = y], [room EXCEPT ![r] = z]})
      BY <2>6 DEF Destroy, Put
    <3> HIDE DEF y
    <3>5. /\ ~z.wanted /\ (Good(y, accepting) => Good(z, accepting))
      <4>1. Same(z, y) BY <3>1, WaiterSame DEF Results
      <4> QED BY <3>2, <4>1, SameGood DEF Same, Good
    <3> HIDE DEF z
    <3>6. room[r].known \/ ~room[r].wanted BY <1>0 DEF Good, Shape
    <3>7. room'[r] \in {y, z, room[r]} /\ (~room[r].known => room'[r] = room[r])
          /\ (room[r].known => room'[r] \in {y, z})
      BY <3>4 DEF IInv, TypeOK
    <3>8. \A q \in Rooms : q # r => room'[q] = room[q] BY <3>4 DEF IInv, TypeOK
    <3>9. Good(room'[r], accepting) /\ ~room'[r].wanted
      BY <1>0, <3>2, <3>3, <3>5, <3>6, <3>7
    <3>10. mode = "stopping" /\ mode' = "stopping" /\ accepting' = accepting /\ todo' = todo \ {r}
      BY <2>6 DEF Destroy
    <3>11. Withdrawn' BY <3>8, <3>9, <3>10 DEF Withdrawn, IInv
    <3>12. \A q \in Rooms : Good(room'[q], accepting) BY <1>0, <3>8, <3>9
    <3> QED BY <3>10, <3>11, <3>12 DEF IInv, Good
  <2>7. ASSUME NEW r \in Rooms, DestroyReturns(r) PROVE IInv'
    <3> DEFINE rm == [room[r] EXCEPT !.waiter = "none"]
    <3>1. rm \in RoomType /\ Same(rm, room[r]) BY <1>0, WaiterSame DEF Results
    <3>2. /\ room' = [room EXCEPT ![r] = rm] /\ UNCHANGED <<accepting, mode, todo>>
          /\ waiting' \subseteq waiting
      BY <2>7 DEF DestroyReturns, Put
    <3> HIDE DEF rm
    <3>3. Good(rm, accepting) /\ (rm.wanted => room[r].wanted)
      BY <1>0, <3>1, SameGood DEF Same, Good
    <3> QED BY <3>1, <3>2, <3>3, PutGood
  <2>8. ASSUME NEW r \in Rooms, StopCancelled(r) PROVE IInv'
    <3> DEFINE rm == [room[r] EXCEPT !.waiter = "none"]
    <3>1. rm \in RoomType /\ Same(rm, room[r]) BY <1>0, WaiterSame DEF Results
    <3>2. room' = [room EXCEPT ![r] = rm] /\ accepting' = accepting /\ mode' = "cancelled"
      BY <2>8 DEF StopCancelled, Put
    <3> HIDE DEF rm
    <3>3. Good(rm, accepting) BY <1>0, <3>1, SameGood DEF Good
    <3>4. \A q \in Rooms : Good(room'[q], accepting)
      BY <1>0, <3>2, <3>3 DEF IInv, TypeOK
    <3>5. ~accepting /\ waiting' = {}
      BY <2>8 DEF StopCancelled, IInv, Withdrawn
    <3> QED BY <2>8, <3>2, <3>4, <3>5 DEF IInv, Good, Withdrawn
  <2> QED BY <1>2, <2>1, <2>2, <2>3, <2>4, <2>5, <2>6, <2>7, <2>8 DEF Owner
<1>3. ASSUME NEW r \in Rooms, StepTask(r) PROVE IInv'
  <2>0. room[r] \in RoomType /\ Good(room[r], accepting) BY <1>0
  <2>1. UNCHANGED <<accepting, mode, todo, waiting>>
    BY <1>3 DEF StepTask, BeginStart, StartReturns, OnEventReturns, ResyncReturns, BeginRetire,
                StopReturns, ReleaseReturns, OnStepDone, OwnerUnchanged
  <2>2. ASSUME NEW rm \in RoomType, Good(rm, accepting), rm.wanted => room[r].wanted, Put(r, rm)
        PROVE  IInv'
    BY <2>1, <2>2, PutGood DEF Put
  <2>3. room[r].task \in {"starting", "delivering", "stopping", "releasing"} => room[r].done = "none"
    BY <2>0 DEF Good, Shape, Starting, Stopping
  <2>4. ASSUME room[r].task \in {"start", "starting", "delivering", "stopping", "releasing"},
               room[r].done = "none", Put(r, Raised(room[r]))
        PROVE  IInv'
    <3>1. Raised(room[r]) \in RoomType /\ Good(Raised(room[r]), accepting)
          /\ Raised(room[r]).wanted = room[r].wanted
      BY <2>0, <2>4, <1>0, RaisedType, RaisedGood, RaisedFields DEF Outside
    <3> QED BY <2>2, <2>4, <3>1
  <2>5. ASSUME room[r].task \in {"starting", "delivering"}, Put(r, DeliverHeld(room[r], accepting))
        PROVE  IInv'
    <3>1. DeliverHeld(room[r], accepting) \in RoomType
          /\ Good(DeliverHeld(room[r], accepting), accepting)
          /\ DeliverHeld(room[r], accepting).wanted = room[r].wanted
      BY <1>0, <2>0, <2>5, DeliverHeldType, DeliverHeldGood, DeliverHeldWanted
    <3> QED BY <2>2, <2>5, <3>1
  <2>6. CASE BeginStart(r)
    <3>1. room[r].task = "start" /\ room[r].done = "none"
          /\ (Put(r, Build(room[r])) \/ Put(r, Raised(room[r])))
      BY <2>6 DEF BeginStart
    <3>2. Build(room[r]) \in RoomType /\ Good(Build(room[r]), accepting)
          /\ Build(room[r]).wanted = room[r].wanted
      BY <1>0, <2>0, <3>1, BuildType, BuildGood, BuildFields DEF Outside
    <3> QED BY <2>2, <2>4, <3>1, <3>2
  <2>7. CASE StartReturns(r)
    BY <2>3, <2>4, <2>5, <2>7 DEF StartReturns
  <2>8. CASE OnEventReturns(r)
    BY <2>3, <2>4, <2>5, <2>8 DEF OnEventReturns
  <2>9. CASE ResyncReturns(r)
    <3>1. FinishStart(room[r]) \in RoomType /\ Good(FinishStart(room[r]), accepting)
          /\ FinishStart(room[r]).wanted = room[r].wanted
      BY <1>0, <2>0, <2>9, FinishStartType, ResyncGood, FinishFields DEF ResyncReturns
    <3> QED BY <2>2, <2>9, <3>1 DEF ResyncReturns
  <2>10. CASE BeginRetire(r)
    <3> DEFINE rm == [room[r] EXCEPT !.task = "stopping"]
    <3>1. rm \in RoomType BY <2>0, Zenon DEF RoomType
    <3>2. Kept(rm, room[r]) /\ rm.routed = room[r].routed /\ rm.state = room[r].state
          /\ rm.stepsLeft = room[r].stepsLeft /\ rm.task = "stopping"
      BY <2>0, RetireTaskFields
    <3>3. Put(r, rm) /\ room[r].task = "retire" /\ room[r].done = "none"
      BY <2>10 DEF BeginRetire
    <3> HIDE DEF rm
    <3>4. rm.task \in Stopping BY <3>2 DEF Stopping
    <3>5. Good(rm, accepting) BY <1>0, <2>0, <3>2, <3>3, <3>4, RetireTaskGood
    <3>6. rm.wanted => room[r].wanted BY <3>2 DEF Kept
    <3> QED BY <2>2, <3>1, <3>3, <3>5, <3>6
  <2>11. CASE StopReturns(r)
    <3>1. ASSUME NEW v \in {"graceful", "forced"},
                 Put(r, [room[r] EXCEPT !.task = "releasing", !.verdict = v])
          PROVE  IInv'
      <4> DEFINE rm == [room[r] EXCEPT !.task = "releasing", !.verdict = v]
      <4>1. rm \in RoomType BY <2>0, Zenon DEF RoomType
      <4>2. Kept(rm, room[r]) /\ rm.routed = room[r].routed /\ rm.state = room[r].state
            /\ rm.stepsLeft = room[r].stepsLeft /\ rm.task = "releasing"
        BY <2>0, RetireTaskFields
      <4>3. Put(r, rm) BY <3>1
      <4>4. room[r].task = "stopping" /\ room[r].done = "none" BY <2>3, <2>11 DEF StopReturns
      <4> HIDE DEF rm
      <4>5. rm.task \in Stopping BY <4>2 DEF Stopping
      <4>6. Good(rm, accepting) BY <1>0, <2>0, <4>2, <4>4, <4>5, RetireTaskGood
      <4>7. rm.wanted => room[r].wanted BY <4>2 DEF Kept
      <4> QED BY <2>2, <4>1, <4>3, <4>6, <4>7
    <3> QED BY <2>3, <2>4, <2>11, <3>1 DEF StopReturns
  <2>12. CASE ReleaseReturns(r)
    <3>1. room[r].task = "releasing" /\ (Put(r, Retired(room[r])) \/ Put(r, Raised(room[r])))
      BY <2>12 DEF ReleaseReturns
    <3>2. Retired(room[r]) \in RoomType /\ Good(Retired(room[r]), accepting)
          /\ Retired(room[r]).wanted = room[r].wanted
      BY <1>0, <2>0, <3>1, RetiredType, RetiredGood, RetiredFields DEF Outside
    <3> QED BY <2>2, <2>3, <2>4, <3>1, <3>2
  <2>13. CASE OnStepDone(r)
    <3>1. StepDone(room[r], accepting) \in RoomType /\ Good(StepDone(room[r], accepting), accepting)
          /\ (StepDone(room[r], accepting).wanted => room[r].wanted)
      BY <1>0, <2>0, <2>13, StepDoneType, StepDoneGood, StepDoneWanted DEF OnStepDone
    <3> QED BY <2>2, <2>13, <3>1 DEF OnStepDone
  <2> QED BY <1>3, <2>6, <2>7, <2>8, <2>9, <2>10, <2>11, <2>12, <2>13 DEF StepTask
<1>4. CASE UNCHANGED vars
  BY <1>4 DEF vars, IInv, TypeOK, Withdrawn
<1> QED BY <1>1, <1>2, <1>3, <1>4 DEF Next

\* IInv holds in every reachable state.
THEOREM Inductive == Spec => []IInv
<1>1. Init /\ TypeOK => IInv BY InitIInv
<1>2. IInv /\ [Next]_vars /\ TypeOK' => IInv' BY NextIInv
<1> QED BY <1>1, <1>2, TypeCorrect, PTL DEF Spec

\* No execution is leaked and no room owns two: what was built and not cleaned
\* up is what its tracked room owns, whatever start, stop and cleanup raise.
THEOREM ExecutionsOwned == Spec => []OwnsEveryLiveExecution
<1>1. IInv => OwnsEveryLiveExecution BY DEF IInv, Shape, OwnsEveryLiveExecution
<1> QED BY <1>1, Inductive, PTL

\* Work and control reach only the execution of the membership that stands, and
\* nothing is still held when live routing begins, so nothing overtakes it.
THEOREM RoutedCurrent == Spec => []RoutedIsCurrent
<1>1. ASSUME IInv, NEW r \in Rooms, room[r].routed # None
      PROVE  /\ room[r].known /\ room[r].wanted
             /\ room[r].routed = room[r].execution
             /\ room[r].execEpoch = room[r].epoch
  <2>1. room[r] \in RoomType /\ Shape(room[r]) BY <1>1 DEF IInv, TypeOK
  <2>2. /\ room[r].known /\ room[r].wanted /\ room[r].routed = room[r].execution
        /\ room[r].generation = room[r].startGen
    BY <1>1, <2>1 DEF Shape
  <2>3. room[r].execEpoch + room[r].generation = room[r].epoch + room[r].startGen
    BY <1>1, <2>1, <2>2 DEF Shape
  <2>4. room[r].execEpoch \in Nat /\ room[r].epoch \in Nat /\ room[r].generation \in Nat
    BY <2>1, SMT DEF RoomType
  <2>5. room[r].execEpoch = room[r].epoch BY <2>2, <2>3, <2>4, SMT
  <2> QED BY <2>2, <2>5
<1>2. ASSUME IInv, NEW r \in Rooms, room[r].routed # None
      PROVE  room[r].held = <<>> /\ room[r].batch = <<>>
  <2>1. Shape(room[r]) BY <1>2 DEF IInv
  <2>2. room[r].task # "delivering"
    BY <1>2, <2>1 DEF Shape, Starting
  <2> QED BY <1>2, <2>1, <2>2 DEF Shape
<1>3. IInv => RoutedIsCurrent BY <1>1, <1>2 DEF RoutedIsCurrent
<1> QED BY <1>3, Inductive, PTL

\* No execution is ever handed an event of another admission.
THEOREM AdmissionsIsolated == Spec => []AdmissionIsolation
<1>1. IInv => AdmissionIsolation
  BY DEF IInv, Isolated, AllOf, AdmissionIsolation
<1> QED BY <1>1, Inductive, PTL

\* Three steps per signal are enough: the breaker is unreachable for every
\* MAX_STEPS_PER_SIGNAL of at least three.
THEOREM BreakerUnreachable == Spec => []BreakerNeverTrips
<1>1. IInv => BreakerNeverTrips BY DEF IInv, Budget, BreakerNeverTrips
<1> QED BY <1>1, Inductive, PTL

----------------------------------------------------------------------------
(* The handover: the events of the standing admission, accounted for. *)

\* The fields that say which events a room was given and which it holds.
Ledger(x, rm) ==
    /\ x.wanted = rm.wanted /\ x.arrivals = rm.arrivals /\ x.lossy = rm.lossy
    /\ x.held = rm.held /\ x.batch = rm.batch /\ x.inbox = rm.inbox
    /\ x.execution = rm.execution /\ x.generation = rm.generation
    /\ x.startGen = rm.startGen

\* While they stand, a room stays accounted for: routing needs an admission, and
\* leaving a start needs that nothing was handed over.
LEMMA LedgerAccounted ==
    ASSUME NEW x, NEW rm, NEW acc, Ledger(x, rm), Accounted(rm, acc),
           x.routed # None => rm.routed # None \/ Admits(rm, acc),
           ~rm.lossy /\ Admits(rm, acc) /\ x.state # "SERVING" /\ x.task \notin Starting
              => Handed(rm) = 0
    PROVE  Accounted(x, acc)
<1>1. Handed(x) = Handed(rm) /\ BuiltNow(x) = BuiltNow(rm) BY DEF Ledger, Handed, BuiltNow
<1>2. InOrder(rm) => InOrder(x) BY <1>1 DEF Ledger, InOrder
<1>3. Admits(x, acc) = Admits(rm, acc) BY DEF Admits, Ledger
<1> QED BY <1>1, <1>2, <1>3 DEF Accounted, Ledger

\* Answering, resetting the steps and noting a waiter keep the account.
LEMMA AnswerLedger ==
    ASSUME NEW rm \in RoomType, NEW v
    PROVE  Ledger(Answer(rm, v), rm)
BY SMT DEF Answer, Ledger, RoomType

LEMMA StepLedger ==
    ASSUME NEW rm \in RoomType, NEW s, NEW t, rm.stepsLeft # 0
    PROVE  Ledger(Step(rm, s, t), rm)
BY SMT DEF Step, RoomType, Ledger

LEMMA FieldLedger ==
    ASSUME NEW rm \in RoomType, NEW v
    PROVE  /\ Ledger([rm EXCEPT !.routed = None], rm)
           /\ Ledger([rm EXCEPT !.stepsLeft = MaxSteps], rm)
           /\ Ledger([rm EXCEPT !.waiter = v], rm)
           /\ Ledger([rm EXCEPT !.task = v], rm)
           /\ Ledger([rm EXCEPT !.done = v], rm)
           /\ Ledger([[rm EXCEPT !.done = "none"] EXCEPT !.state = "IDLE"], rm)
           /\ Ledger(FinishStart(rm), rm)
           /\ Ledger([rm EXCEPT !.routed = rm.execution, !.task = "resyncing"], rm)
<1>1. /\ Ledger([rm EXCEPT !.routed = None], rm)
      /\ Ledger([rm EXCEPT !.stepsLeft = MaxSteps], rm)
  BY SMT DEF RoomType, Ledger
<1>2. /\ Ledger([rm EXCEPT !.waiter = v], rm)
      /\ Ledger([rm EXCEPT !.task = v], rm)
      /\ Ledger([rm EXCEPT !.done = v], rm)
  BY SMT DEF RoomType, Ledger
<1>3. Ledger([[rm EXCEPT !.done = "none"] EXCEPT !.state = "IDLE"], rm)
  BY SMT DEF RoomType, Ledger
<1>4. Ledger(FinishStart(rm), rm) BY SMT DEF RoomType, Ledger, FinishStart, Ended
<1>5. Ledger([rm EXCEPT !.routed = rm.execution, !.task = "resyncing"], rm)
  BY SMT DEF RoomType, Ledger
<1> QED BY <1>1, <1>2, <1>3, <1>4, <1>5

\* A room that owns nothing leaves the table with nothing to account for.
LEMMA ForgetAccounted ==
    ASSUME NEW rm \in RoomType, NEW acc, Shape(rm), rm.execution = None, rm.done # "stale"
    PROVE  Accounted(Forget(rm), acc)
<1> DEFINE x == Settle(rm)
<1>1. x \in RoomType /\ Same(x, rm) BY SettleType, AnswerSame DEF Settle
<1>2. rm.routed = None BY SMT DEF Shape, RoomType, None
<1>3. Forget(rm) = FreshRoom(x) BY DEF Forget, InTable
<1>4. x.routed = None BY <1>1, <1>2 DEF Same
<1> HIDE DEF x
<1>5. /\ FreshRoom(x).wanted = FALSE /\ FreshRoom(x).routed = None /\ FreshRoom(x).held = <<>>
      /\ FreshRoom(x).arrivals = 0 /\ FreshRoom(x).execution = None
  BY <1>4 DEF FreshRoom
<1>6. Handed(FreshRoom(x)) = 0 BY <1>5 DEF Handed, BuiltNow
<1> QED BY <1>3, <1>5, <1>6 DEF Accounted, Admits

LEMMA AdvanceAccounted ==
    ASSUME NEW rm \in RoomType, NEW acc \in BOOLEAN, Shape(rm), Accounted(rm, acc),
           Ready(rm, acc), rm.known,
           rm.done = "stale" => Admits(rm, acc) \/ rm.task = "start"
    PROVE  Accounted(Advance(rm, acc), acc)
<1>0. rm.state \in RoomStates BY SMT DEF RoomType
<1>1. CASE rm.state \in {"STARTING", "RETIRING"} BY <1>1 DEF Advance
<1>2. CASE rm.state = "SERVING" /\ Admits(rm, acc)
  <2>1. Advance(rm, acc) = Settle(rm) BY <1>2 DEF Advance
  <2>2. Ledger(Settle(rm), rm) /\ Same(Settle(rm), rm) BY AnswerLedger, AnswerSame DEF Settle
  <2>3. Settle(rm).state = "SERVING" /\ Settle(rm).routed = rm.routed BY <1>2, <2>2 DEF Same
  <2> QED BY <2>1, <2>2, <2>3, LedgerAccounted
<1>3. CASE rm.state = "IDLE" /\ ~Admits(rm, acc) /\ rm.execution = None
  <2>1. Advance(rm, acc) = Forget(rm) BY <1>3 DEF Advance
  <2>2. rm.done # "stale" BY <1>3 DEF Shape
  <2> QED BY <1>3, <2>1, <2>2, ForgetAccounted
<1>4. CASE rm.state = "IDLE" /\ Admits(rm, acc) /\ rm.execution = None
  <2> DEFINE x == Step(rm, "STARTING", "start")
  <2>1. Advance(rm, acc) = x BY <1>4 DEF Advance
  <2>2. rm.stepsLeft # 0 BY <1>4, SMT DEF Ready, RoomType
  <2>3. Ledger(x, rm) /\ x.routed = rm.routed BY <2>2, StepLedger, StepFields
  <2>4. Handed(rm) = 0 BY <1>4 DEF Handed, BuiltNow
  <2> HIDE DEF x
  <2> QED BY <2>1, <2>3, <2>4, LedgerAccounted
<1>5. CASE rm.execution # None /\ (rm.state = "IDLE" \/ (rm.state = "SERVING" /\ ~Admits(rm, acc)))
  <2> DEFINE y == [rm EXCEPT !.routed = None]
             x == Step(y, "RETIRING", "retire")
  <2>1. Advance(rm, acc) = x BY <1>5 DEF Advance
  <2>2. y \in RoomType /\ y.routed = None /\ y.stepsLeft = rm.stepsLeft /\ Ledger(y, rm)
    BY UnrouteFields, FieldLedger
  <2>3. rm.stepsLeft # 0 BY <1>5, SMT DEF Ready, RoomType
  <2> HIDE DEF y
  <2>4. Ledger(x, y) /\ x.routed = None BY <2>2, <2>3, StepLedger, StepFields
  <2> HIDE DEF x
  <2>5. Ledger(x, rm) BY <2>2, <2>4 DEF Ledger
  <2>6. Admits(rm, acc) => rm.task \notin Starting /\ rm.state # "SERVING"
    BY <1>5, SMT DEF Shape
  <2>7. ~rm.lossy /\ Admits(rm, acc) => Handed(rm) = 0 BY <2>6 DEF Accounted
  <2> QED BY <2>1, <2>4, <2>5, <2>7, LedgerAccounted
<1>6. rm.state = "SERVING" => rm.execution # None BY DEF Shape
<1> QED BY <1>0, <1>1, <1>2, <1>3, <1>4, <1>5, <1>6 DEF RoomStates

\* A signal, on a record as it was before the signal or changed by its caller.
LEMMA SignalAccounted ==
    ASSUME NEW rm \in RoomType, NEW acc \in BOOLEAN, Shape(rm), Accounted(rm, acc),
           rm.known, ~rm.tripped,
           rm.done = "stale" => Admits(rm, acc) \/ rm.task = "start"
    PROVE  Accounted(Signal(rm, acc), acc)
<1> DEFINE x == [rm EXCEPT !.stepsLeft = MaxSteps]
<1>1. /\ x \in RoomType /\ Kept(x, rm) /\ x.stepsLeft = MaxSteps
      /\ x.routed = rm.routed /\ x.state = rm.state /\ x.task = rm.task
  BY ResetFields
<1>2. Ledger(x, rm) BY FieldLedger
<1> HIDE DEF x
<1>3. Shape(x) BY <1>1, SMT DEF Shape, Serving, Kept
<1>4. Ready(x, acc) BY <1>1, Typical, SMT DEF Ready, Kept
<1>5. Accounted(x, acc) BY <1>1, <1>2, LedgerAccounted DEF Accounted
<1>6. x.known /\ (x.done = "stale" => Admits(x, acc) \/ x.task = "start")
  BY <1>1 DEF Kept, Admits
<1>7. Accounted(Advance(x, acc), acc) BY <1>1, <1>3, <1>4, <1>5, <1>6, AdvanceAccounted
<1> QED BY <1>7 DEF Signal, x

\* Lengths add up to a number, and to zero only when both are.
LEMMA LenSum ==
    ASSUME NEW s \in Seq(Events), NEW t \in Seq(Events)
    PROVE  /\ Len(s) + Len(t) \in Nat /\ Len(s) \in Nat /\ Len(t) \in Nat
           /\ Len(s) + Len(t) = 0 => Len(s) = 0 /\ Len(t) = 0
<1>1. \A a, b \in Nat : a + b \in Nat /\ (a + b = 0 => a = 0 /\ b = 0) BY SMT
<1>2. Len(s) \in Nat /\ Len(t) \in Nat BY SMT
<1> QED BY <1>1, <1>2, Zenon

\* A withdrawal starts the next account from nothing.
LEMMA FenceAccounted ==
    ASSUME NEW rm \in RoomType, NEW acc, Shape(rm)
    PROVE  Accounted(Fence(rm), acc)
<1> DEFINE x == Fence(rm)
<1>1. /\ x.routed = None /\ x.wanted = FALSE /\ x.held = <<>>
      /\ x.generation = rm.generation + 1 /\ x.execution = rm.execution
      /\ x.startGen = rm.startGen
  BY FenceFields
<1>2. x.arrivals = 0 BY SMT DEF Fence, RoomType
<1>3. x.execution # None => x.generation # x.startGen
  <2>1. rm.generation \in Nat /\ rm.startGen \in Nat BY SMT DEF RoomType
  <2> QED BY <1>1, <2>1, SMT DEF Shape
<1> HIDE DEF x
<1>4. Handed(x) = 0 BY <1>3 DEF Handed, BuiltNow
<1>5. Accounted(x, acc) BY <1>1, <1>2, <1>4 DEF Accounted, Admits
<1> QED BY <1>5 DEF x

LEMMA WithdrawAccounted ==
    ASSUME NEW rm \in RoomType, NEW acc \in BOOLEAN, Good(rm, acc), rm.known
    PROVE  /\ Accounted(Signal(Fence(rm), acc), acc)
           /\ Accounted(Signal([Fence(rm) EXCEPT !.waiter = "waiting"], acc), acc)
<1> DEFINE x == Fence(rm)
           y == [x EXCEPT !.waiter = "waiting"]
<1>1. Shape(rm) /\ Served(rm) /\ Isolated(rm) /\ ~rm.tripped BY DEF Good, Budget
<1>2. x \in RoomType /\ Shape(x) /\ x.known /\ ~x.tripped BY <1>1, FenceGood
<1>3. (x.done = "stale" => x.task = "start") /\ Accounted(x, acc)
  BY <1>1, FenceFields, FenceAccounted DEF Served
<1> HIDE DEF x
<1>4. y \in RoomType /\ Same(y, x) /\ Ledger(y, x) BY <1>2, WaiterSame, FieldLedger DEF Results
<1> HIDE DEF y
<1>5. Shape(y) /\ y.known /\ ~y.tripped /\ (y.done = "stale" => y.task = "start")
  BY <1>2, <1>3, <1>4, SameGood DEF Same
<1>6. Accounted(y, acc) BY <1>3, <1>4, LedgerAccounted DEF Same, Accounted
<1>7. Accounted(Signal(x, acc), acc) BY <1>2, <1>3, SignalAccounted
<1>8. Accounted(Signal(y, acc), acc) BY <1>4, <1>5, <1>6, SignalAccounted
<1> QED BY <1>7, <1>8 DEF x, y

\* A join begins the account it finds empty, or goes on with the one that stands.
LEMMA JoinAccounted ==
    ASSUME NEW rm \in RoomType, Good(rm, TRUE), Accounted(rm, TRUE)
    PROVE  Accounted(RequestAdmission(rm, TRUE), TRUE)
<1> DEFINE x == [rm EXCEPT !.known = TRUE, !.wanted = TRUE]
<1>1. x \in RoomType BY Zenon DEF RoomType
<1>2. /\ x.known = TRUE /\ x.wanted = TRUE
      /\ x.routed = rm.routed /\ x.generation = rm.generation /\ x.held = rm.held
      /\ x.epoch = rm.epoch /\ x.state = rm.state
      /\ x.execution = rm.execution /\ x.done = rm.done
      /\ x.task = rm.task /\ x.startGen = rm.startGen
      /\ x.batch = rm.batch /\ x.live = rm.live
      /\ x.execEpoch = rm.execEpoch /\ x.inbox = rm.inbox
      /\ x.tripped = rm.tripped
  BY SMT DEF RoomType
<1>2a. x.arrivals = rm.arrivals /\ x.lossy = rm.lossy BY SMT DEF RoomType
<1>2b. rm.inbox \in Seq(Events) /\ rm.batch \in Seq(Events) /\ rm.wanted \in BOOLEAN
  BY SMT DEF RoomType
<1> HIDE DEF x
<1>3. Shape(rm) /\ Served(rm) /\ ~rm.tripped
  BY DEF Good, Budget
<1>4. Shape(x) BY <1>2, <1>3, SMTT(30) DEF Shape, Served, Starting, Stopping, Serving, None
<1>5. Handed(x) = Handed(rm) /\ BuiltNow(x) = BuiltNow(rm) BY <1>2 DEF Handed, BuiltNow
<1>6. CASE rm.wanted
  <2>1. Ledger(x, rm) BY <1>2, <1>2a, <1>6 DEF Ledger
  <2>2. Accounted(x, TRUE) BY <1>2, <2>1, LedgerAccounted DEF Accounted
  <2> QED BY <1>1, <1>2, <1>3, <1>4, <2>2, SignalAccounted DEF RequestAdmission, x, Admits
<1>7. CASE ~rm.wanted
  <2>1. rm.arrivals = 0 /\ rm.held = <<>> /\ Handed(rm) = 0 BY <1>7 DEF Accounted
  <2>2. ASSUME BuiltNow(rm) PROVE Len(rm.inbox) = 0 /\ Len(rm.batch) = 0
    <3>1. Len(rm.inbox) + Len(rm.batch) = 0 BY <2>1, <2>2 DEF Handed
    <3> QED BY <1>2b, <3>1, LenSum
  <2>3. InOrder(x)
    BY <1>2, <1>2a, <1>5, <2>1, <2>2, SMT DEF InOrder, Numbered
  <2>4. Accounted(x, TRUE) BY <1>2, <1>5, <2>1, <2>3 DEF Accounted
  <2> QED BY <1>1, <1>2, <1>3, <1>4, <2>4, SignalAccounted DEF RequestAdmission, x, Admits
<1> QED BY <1>2b, <1>6, <1>7

\* Appending the next number, and taking the first, keep a queue numbered.
LEMMA AppendNumbered ==
    ASSUME NEW s \in Seq(Events), NEW e \in Events, NEW k \in Nat, Numbered(s, k),
           e.n = k + Len(s) + 1
    PROVE  Numbered(Append(s, e), k) /\ Len(Append(s, e)) = Len(s) + 1
<1>1. Len(Append(s, e)) = Len(s) + 1 /\ Len(s) \in Nat BY SMT
<1>2. ASSUME NEW i \in 1..Len(Append(s, e)) PROVE Append(s, e)[i].n = k + i
  <2>1. CASE i = Len(s) + 1
    <3>1. Append(s, e)[i] = e BY <2>1, SMT
    <3>2. k + Len(s) + 1 = k + i BY <1>1, <2>1, SMT
    <3> QED BY <3>1, <3>2
  <2>2. CASE i # Len(s) + 1
    <3>1. i \in 1..Len(s) /\ Append(s, e)[i] = s[i] BY <2>2, SMT
    <3> QED BY <3>1 DEF Numbered
  <2> QED BY <2>1, <2>2
<1> QED BY <1>1, <1>2 DEF Numbered

LEMMA TailNumbered ==
    ASSUME NEW s \in Seq(Events), NEW k \in Nat, Numbered(s, k), s # <<>>
    PROVE  /\ Numbered(Tail(s), k + 1) /\ Head(s).n = k + 1
           /\ Len(Tail(s)) = Len(s) - 1 /\ Head(s) \in Events /\ Tail(s) \in Seq(Events)
<1>1. 1 \in 1..Len(s) /\ Head(s) = s[1] BY SMT
<1>2. Head(s).n = k + 1 BY <1>1 DEF Numbered
<1>3. Len(Tail(s)) = Len(s) - 1 /\ Head(s) \in Events /\ Tail(s) \in Seq(Events) BY SMT
<1>4. ASSUME NEW i \in 1..Len(Tail(s)) PROVE Tail(s)[i].n = (k + 1) + i
  <2>1. i + 1 \in 1..Len(s) /\ Tail(s)[i] = s[i + 1] BY SMT
  <2>2. s[i + 1].n = k + (i + 1) BY <2>1 DEF Numbered
  <2>3. k + (i + 1) = (k + 1) + i BY SMT
  <2> QED BY <2>1, <2>2, <2>3
<1> QED BY <1>2, <1>3, <1>4 DEF Numbered

\* An event held for the standing admission is its next; a full queue logs a loss.
LEMMA HoldAccounted ==
    ASSUME NEW rm \in RoomType, NEW acc \in BOOLEAN, Good(rm, acc), Accounted(rm, acc),
           rm.known, rm.wanted, rm.routed = None
    PROVE  Accounted(Hold(rm, acc), acc)
<1> DEFINE q == Push(rm.held, NewEvent(rm))
           k == rm.arrivals + 1
           l == (rm.lossy \/ Len(rm.held) = MaxHeld)
           x == [rm EXCEPT !.held = q, !.arrivals = k, !.lossy = l]
<1>0. rm.held \in Seq(Events) /\ NewEvent(rm) \in Events /\ NewEvent(rm).n = rm.arrivals + 1
  BY NewEventType, SMT DEF RoomType, NewEvent
<1>1. q \in Seq(Events) /\ k \in Nat /\ l \in BOOLEAN
  <2>1. k \in Nat BY SMT DEF RoomType
  <2>2. q \in Seq(Events) BY <1>0, HeldAssumption, SMT DEF Push
  <2> QED BY <2>1, <2>2
<1>1a. ~l => q = Append(rm.held, NewEvent(rm)) /\ ~rm.lossy BY DEF Push
<1>2. Shape(rm) /\ Served(rm) /\ ~rm.tripped BY DEF Good, Budget
<1>2a. rm.inbox \in Seq(Events) /\ rm.batch \in Seq(Events) /\ rm.arrivals \in Nat BY SMT DEF RoomType
<1>3. x \in RoomType
  <2> HIDE DEF q, k, l
  <2> QED BY <1>1, ZenonT(30) DEF RoomType
<1>4. x.held = q /\ HeldOnly(x, rm)
  <2> HIDE DEF q, k, l
  <2> QED BY HoldFields
<1>4a. x.arrivals = k /\ x.lossy = l
  <2> HIDE DEF q, k, l
  <2> QED BY SMT DEF RoomType
<1> HIDE DEF x, l, q
<1>5. Handed(x) = Handed(rm) /\ BuiltNow(x) = BuiltNow(rm) /\ Handed(rm) \in Nat
  <2>1. Handed(x) = Handed(rm) /\ BuiltNow(x) = BuiltNow(rm)
    BY <1>4 DEF HeldOnly, Handed, BuiltNow
  <2>2. Len(rm.inbox) + Len(rm.batch) \in Nat BY <1>2a, LenSum
  <2>3. Handed(rm) \in Nat BY <2>2, Typical, Zenon DEF Handed
  <2> QED BY <2>1, <2>3
<1>6. ASSUME ~l, InOrder(rm) PROVE InOrder(x)
  <2>1. Numbered(rm.held, Handed(rm)) /\ Handed(rm) + Len(rm.held) = rm.arrivals
    BY <1>6 DEF InOrder
  <2>2. NewEvent(rm).n = Handed(rm) + Len(rm.held) + 1 BY <1>0, <2>1
  <2>3. Numbered(x.held, Handed(rm)) /\ Len(x.held) = Len(rm.held) + 1
    BY <1>0, <1>1a, <1>4, <1>5, <1>6, <2>1, <2>2, AppendNumbered
  <2>4. Handed(rm) + Len(x.held) = x.arrivals
    BY <1>0, <1>2a, <1>4a, <1>5, <2>1, <2>3, SMT
  <2>5. BuiltNow(x) => Numbered(x.inbox, 0) /\ Numbered(x.batch, Len(x.inbox))
    BY <1>4, <1>5, <1>6 DEF InOrder, HeldOnly
  <2> QED BY <1>5, <2>3, <2>4, <2>5 DEF InOrder
<1>7. Accounted(x, acc)
  <2>1. Admits(x, acc) = Admits(rm, acc) /\ x.wanted /\ x.routed = None
    BY <1>4 DEF HeldOnly, Admits
  <2>2. x.state = rm.state /\ x.task = rm.task BY <1>4 DEF HeldOnly
  <2>3. ~x.lossy => ~l /\ ~rm.lossy BY <1>1a, <1>4a
  <2> QED BY <1>5, <1>6, <2>1, <2>2, <2>3 DEF Accounted
<1>8. Shape(x) BY <1>2, <1>4, SMTT(30) DEF Shape, HeldOnly, Starting, Stopping, Serving, None
<1>9. x.known /\ ~x.tripped /\ (x.done = "stale" => x.task = "start")
  BY <1>2, <1>4 DEF Served, HeldOnly
<1>10. Accounted(Signal(x, acc), acc) BY <1>3, <1>7, <1>8, <1>9, SignalAccounted
<1> QED BY <1>10 DEF Hold, x, q, l

\* A live event goes to an execution that has had all the others.
LEMMA GiveRoutedAccounted ==
    ASSUME NEW rm \in RoomType, NEW acc \in BOOLEAN, Shape(rm), Accounted(rm, acc),
           rm.routed # None
    PROVE  Accounted(GiveRouted(rm), acc)
<1> DEFINE x == GiveRouted(rm)
<1>1. /\ x.inbox = Append(rm.inbox, NewEvent(rm)) /\ x.held = rm.held
      /\ x.wanted = rm.wanted /\ x.routed = rm.routed /\ x.generation = rm.generation
      /\ x.state = rm.state /\ x.execution = rm.execution
      /\ x.task = rm.task /\ x.startGen = rm.startGen /\ x.batch = rm.batch
      /\ x.arrivals = rm.arrivals + 1 /\ x.lossy = rm.lossy
  BY SMT DEF GiveRouted, RoomType
<1>2. /\ rm.wanted /\ rm.held = <<>> /\ rm.batch = <<>>
      /\ BuiltNow(rm) /\ (rm.state = "SERVING" \/ rm.task = "resyncing")
  BY SMT DEF Shape, Starting, BuiltNow
<1>3. /\ rm.inbox \in Seq(Events) /\ NewEvent(rm) \in Events
      /\ NewEvent(rm).n = rm.arrivals + 1 /\ rm.arrivals \in Nat
  BY NewEventType, SMTT(30) DEF RoomType, NewEvent
<1> HIDE DEF x
<1>4. BuiltNow(x) BY <1>1, <1>2 DEF BuiltNow
<1>5. ASSUME InOrder(rm) PROVE InOrder(x)
  <2>1. Handed(rm) = Len(rm.inbox) /\ Len(rm.held) = 0 /\ Len(rm.inbox) \in Nat
    BY <1>2, <1>3, SMT DEF Handed
  <2>2. rm.arrivals = Len(rm.inbox) /\ Numbered(rm.inbox, 0)
    BY <1>2, <1>5, <2>1, SMT DEF InOrder
  <2>3. NewEvent(rm).n = 0 + Len(rm.inbox) + 1 BY <1>3, <2>1, <2>2, SMT
  <2>4. Numbered(x.inbox, 0) /\ Len(x.inbox) = Len(rm.inbox) + 1
    BY <1>1, <1>3, <2>2, <2>3, AppendNumbered
  <2>5. Handed(x) = Len(x.inbox) BY <1>1, <1>2, <1>4, <2>4, <2>1, SMT DEF Handed
  <2>6. Len(x.held) = 0 /\ Len(x.batch) = 0 /\ x.arrivals = Len(x.inbox)
    BY <1>1, <1>2, <2>2, <2>4, <2>1, SMT
  <2>7. Numbered(x.held, Handed(x)) /\ Numbered(x.batch, Len(x.inbox))
    BY <2>6, SMT DEF Numbered
  <2> QED BY <2>1, <2>4, <2>5, <2>6, <2>7, SMT DEF InOrder
<1>6. x.state # "SERVING" => x.task \in Starting BY <1>1, <1>2 DEF Starting
<1>7. Accounted(x, acc) BY <1>1, <1>2, <1>5, <1>6 DEF Accounted, Admits
<1> QED BY <1>7 DEF x

\* Handing over moves the batch's first event to the end of the inbox.
LEMMA HandOverAccounted ==
    ASSUME NEW rm \in RoomType, NEW acc, NEW b \in Seq(Events), b # <<>>,
           Admits(rm, acc), BuiltNow(rm), rm.routed = None,
           ~rm.lossy => /\ Numbered(rm.inbox, 0) /\ Numbered(b, Len(rm.inbox))
                        /\ Numbered(rm.held, Len(rm.inbox) + Len(b))
                        /\ Len(rm.inbox) + Len(b) + Len(rm.held) = rm.arrivals
    PROVE  Accounted(HandOver(rm, b), acc)
<1> DEFINE x == HandOver(rm, b)
<1>1. /\ QueueOnly(x, rm) /\ x.held = rm.held /\ x.batch = Tail(b)
      /\ x.inbox = Append(rm.inbox, Head(b)) /\ x.task = "delivering"
  BY HandOverFields
<1>2. x.lossy = rm.lossy /\ x.arrivals = rm.arrivals BY SMT DEF HandOver, RoomType
<1>3. rm.inbox \in Seq(Events) /\ rm.held \in Seq(Events) BY SMT DEF RoomType
<1>4. Len(rm.inbox) \in Nat /\ Len(b) \in Nat /\ Len(rm.held) \in Nat BY <1>3, LenSum
<1> HIDE DEF x
<1>5. BuiltNow(x) /\ Admits(x, acc) /\ x.routed = None /\ x.wanted
  BY <1>1 DEF QueueOnly, BuiltNow, Admits
<1>6. ASSUME ~x.lossy PROVE InOrder(x)
  <2>1. /\ Numbered(Tail(b), Len(rm.inbox) + 1) /\ Head(b).n = Len(rm.inbox) + 1
        /\ Len(Tail(b)) = Len(b) - 1 /\ Head(b) \in Events /\ Tail(b) \in Seq(Events)
    BY <1>2, <1>4, <1>6, TailNumbered
  <2>2. Head(b).n = 0 + Len(rm.inbox) + 1 BY <1>4, <2>1, SMT
  <2>3. Numbered(x.inbox, 0) /\ Len(x.inbox) = Len(rm.inbox) + 1
    BY <1>1, <1>2, <1>3, <1>6, <2>1, <2>2, AppendNumbered
  <2>4. Handed(x) = Len(x.inbox) + Len(x.batch) BY <1>5 DEF Handed
  <2>5. Len(x.inbox) + Len(x.batch) = Len(rm.inbox) + Len(b)
    BY <1>1, <1>4, <2>1, <2>3, SMT
  <2>6. Numbered(x.batch, Len(x.inbox)) BY <1>1, <2>1, <2>3
  <2>7. Numbered(x.held, Handed(x)) BY <1>1, <1>2, <1>6, <2>4, <2>5
  <2>8. Handed(x) + Len(x.held) = x.arrivals BY <1>1, <1>2, <1>6, <2>4, <2>5
  <2> QED BY <2>3, <2>6, <2>7, <2>8 DEF InOrder
<1>7. x.task \in Starting BY <1>1 DEF Starting
<1>8. Accounted(x, acc) BY <1>5, <1>6, <1>7 DEF Accounted
<1> QED BY <1>8 DEF x

\* Routing completes a current admission; otherwise the start ends unserved.
LEMMA RouteAccounted ==
    ASSUME NEW rm \in RoomType, NEW acc, Accounted(rm, acc), rm.execution # None,
           rm.routed = None, rm.state = "STARTING"
    PROVE  Accounted(Route(rm, acc), acc)
<1>1. CASE Current(rm, acc)
  <2> DEFINE x == [rm EXCEPT !.routed = rm.execution, !.task = "resyncing"]
  <2>1. Ledger(x, rm) /\ x.task = "resyncing" BY FieldLedger, RouteFields
  <2>2. Route(rm, acc) = x BY <1>1 DEF Route
  <2> HIDE DEF x
  <2>3. x.task \in Starting /\ Admits(rm, acc) BY <1>1, <2>1 DEF Starting, Current
  <2> QED BY <2>1, <2>2, <2>3, LedgerAccounted
<1>2. CASE ~Current(rm, acc)
  <2> DEFINE x == FinishStart(rm)
  <2>1. Ledger(x, rm) /\ x.routed = None BY FieldLedger, FinishFields
  <2>2. Route(rm, acc) = x BY <1>2 DEF Route
  <2> HIDE DEF x
  <2>3. Admits(rm, acc) => Handed(rm) = 0 BY <1>2 DEF Current, Handed, BuiltNow
  <2> QED BY <2>1, <2>2, <2>3, LedgerAccounted
<1> QED BY <1>1, <1>2

\* One segment of _deliver_held.
LEMMA DeliverHeldAccounted ==
    ASSUME NEW rm \in RoomType, NEW acc \in BOOLEAN, Good(rm, acc), Accounted(rm, acc),
           rm.task \in {"starting", "delivering"}
    PROVE  Accounted(DeliverHeld(rm, acc), acc)
<1>1. /\ rm.state = "STARTING" /\ rm.execution # None /\ rm.routed = None
  BY SMT DEF Good, Shape, Starting
<1>2. rm.held \in Seq(Events) /\ rm.batch \in Seq(Events) /\ rm.inbox \in Seq(Events)
  BY SMT DEF RoomType
<1>3. Current(rm, acc) => Admits(rm, acc) /\ BuiltNow(rm) BY <1>1 DEF Current, BuiltNow
<1>4. ASSUME Current(rm, acc), ~rm.lossy
      PROVE  /\ Numbered(rm.inbox, 0) /\ Numbered(rm.batch, Len(rm.inbox))
             /\ Numbered(rm.held, Len(rm.inbox) + Len(rm.batch))
             /\ Len(rm.inbox) + Len(rm.batch) + Len(rm.held) = rm.arrivals
  BY <1>3, <1>4 DEF Accounted, InOrder, Handed
<1>5. CASE rm.batch = <<>> /\ (rm.held = <<>> \/ ~Current(rm, acc))
  <2>1. Accounted(Route(rm, acc), acc) BY <1>1, RouteAccounted
  <2> QED BY <1>5, <2>1 DEF DeliverHeld
<1>6. CASE rm.batch = <<>> /\ rm.held # <<>> /\ Current(rm, acc) /\ rm.handed < MaxDelivery
  <2> DEFINE y == [rm EXCEPT !.held = <<>>]
  <2>1. QueueOnly(y, rm) /\ y.held = <<>> /\ y.inbox = rm.inbox BY ClearFields
  <2>2. y \in RoomType BY Typical, Zenon DEF RoomType
  <2>3. y.lossy = rm.lossy /\ y.arrivals = rm.arrivals BY SMT DEF RoomType
  <2>4. DeliverHeld(rm, acc) = HandOver(y, rm.held) BY <1>6 DEF DeliverHeld, y
  <2> HIDE DEF y
  <2>5. Admits(y, acc) /\ BuiltNow(y) /\ y.routed = None
    BY <1>1, <1>3, <1>6, <2>1 DEF QueueOnly, BuiltNow, Admits
  <2>6. ASSUME ~y.lossy
        PROVE  /\ Numbered(y.inbox, 0) /\ Numbered(rm.held, Len(y.inbox))
               /\ Numbered(y.held, Len(y.inbox) + Len(rm.held))
               /\ Len(y.inbox) + Len(rm.held) + Len(y.held) = y.arrivals
    <3>0. Len(rm.batch) = 0 /\ Len(y.held) = 0 BY <1>6, <2>1, SMT
    <3>1. Len(rm.inbox) \in Nat /\ Len(rm.held) \in Nat /\ Len(rm.batch) = 0 /\ Len(y.held) = 0
      BY <1>2, <3>0, LenSum
    <3>2. Len(rm.inbox) + Len(rm.batch) = Len(rm.inbox) BY <3>1, SMT
    <3>3. Numbered(rm.held, Len(y.inbox)) /\ Numbered(y.inbox, 0)
      BY <1>4, <1>6, <2>1, <2>3, <2>6, <3>2
    <3>4. Numbered(y.held, Len(y.inbox) + Len(rm.held)) BY <3>1, SMT DEF Numbered
    <3>5. Len(rm.inbox) + Len(rm.held) = rm.arrivals BY <1>4, <1>6, <2>3, <2>6, <3>2
    <3>6. Len(y.inbox) + Len(rm.held) + Len(y.held) = y.arrivals
      <4>1. Len(y.inbox) + Len(rm.held) = y.arrivals BY <2>1, <2>3, <3>5
      <4>2. y.arrivals \in Nat BY <2>2, SMT DEF RoomType
      <4>3. y.arrivals + 0 = y.arrivals BY <4>2, SMT
      <4> QED BY <3>0, <4>1, <4>3
    <3> QED BY <3>3, <3>4, <3>6
  <2>7. Accounted(HandOver(y, rm.held), acc)
    BY <1>2, <1>6, <2>2, <2>5, <2>6, HandOverAccounted
  <2> QED BY <2>4, <2>7
<1>7. CASE rm.batch # <<>> /\ ~Current(rm, acc)
  <2> DEFINE y == [rm EXCEPT !.batch = <<>>]
  <2>1. /\ QueueOnly(y, rm) /\ y.batch = <<>> /\ y.held = rm.held
        /\ y.inbox = rm.inbox /\ y.task = rm.task
    BY ClearFields
  <2>2. y \in RoomType BY Typical, Zenon DEF RoomType
  <2>3. y.lossy = rm.lossy /\ y.arrivals = rm.arrivals BY SMT DEF RoomType
  <2>4. DeliverHeld(rm, acc) = Route(y, acc) BY <1>7 DEF DeliverHeld, y
  <2> HIDE DEF y
  <2>5. BuiltNow(y) = BuiltNow(rm) /\ Admits(y, acc) = Admits(rm, acc)
    BY <2>1 DEF BuiltNow, Admits, QueueOnly
  <2>6. Admits(rm, acc) => ~BuiltNow(rm) BY <1>7 DEF Current, BuiltNow
  <2>7. ASSUME InOrder(rm), Admits(rm, acc) PROVE InOrder(y)
    <3>1. ~BuiltNow(y) /\ ~BuiltNow(rm) BY <2>5, <2>6, <2>7
    <3> QED BY <2>1, <2>3, <2>7, <3>1 DEF InOrder, Handed
  <2>8. Handed(rm) = 0 => Handed(y) = 0
    <3>1. ASSUME BuiltNow(rm), Handed(rm) = 0 PROVE Handed(y) = 0
      <4>1. Len(rm.inbox) + Len(rm.batch) = 0 BY <3>1 DEF Handed
      <4>2. Len(rm.inbox) = 0 BY <1>2, <4>1, LenSum
      <4> QED BY <2>1, <2>5, <3>1, <4>2, SMT DEF Handed
    <3>2. ~BuiltNow(rm) => Handed(y) = 0 BY <2>5 DEF Handed
    <3> QED BY <3>1, <3>2
  <2>9. Accounted(y, acc)
    <3>1. y.wanted = rm.wanted /\ y.routed = None /\ y.state = "STARTING" BY <1>1, <2>1 DEF QueueOnly
    <3>2. ~y.wanted => y.arrivals = 0 /\ y.held = <<>> /\ Handed(y) = 0
      BY <2>1, <2>3, <2>8, <3>1 DEF Accounted
    <3>3. ~y.lossy /\ Admits(y, acc) => InOrder(y) BY <2>3, <2>5, <2>7 DEF Accounted
    <3>4. Admits(y, acc) => Handed(y) = 0 BY <2>5, <2>6 DEF Handed
    <3> QED BY <3>1, <3>2, <3>3, <3>4 DEF Accounted
  <2>10. y.execution # None /\ y.routed = None /\ y.state = "STARTING"
    BY <1>1, <2>1 DEF QueueOnly
  <2> QED BY <2>2, <2>4, <2>9, <2>10, RouteAccounted
<1>8. CASE rm.batch # <<>> /\ Current(rm, acc) /\ rm.handed < MaxDelivery
  <2>1. Accounted(HandOver(rm, rm.batch), acc)
    BY <1>1, <1>2, <1>3, <1>4, <1>8, HandOverAccounted
  <2>2. DeliverHeld(rm, acc) = HandOver(rm, rm.batch) BY <1>8 DEF DeliverHeld
  <2> QED BY <2>1, <2>2
<1>9. CASE Current(rm, acc) /\ ~(rm.batch = <<>> /\ rm.held = <<>>) /\ ~(rm.handed < MaxDelivery)
  <2> DEFINE y == DropHeld(rm)
  <2>1. QueueOnly(y, rm) BY DropFields
  <2>2. y \in RoomType
    <3>1. (rm.lossy \/ rm.batch # <<>> \/ rm.held # <<>>) \in BOOLEAN OBVIOUS
    <3> QED BY <3>1, Typical, Zenon DEF DropHeld, RoomType
  <2>3. y.lossy = (rm.lossy \/ rm.batch # <<>> \/ rm.held # <<>>) BY SMT DEF RoomType, DropHeld
  <2>4. DeliverHeld(rm, acc) = Route(y, acc) BY <1>9 DEF DeliverHeld, y
  <2> HIDE DEF y
  <2>5. y.lossy /\ y.wanted BY <1>3, <1>9, <2>1, <2>3 DEF QueueOnly, Admits
  <2>6. Accounted(y, acc) BY <2>5 DEF Accounted
  <2>7. y.execution # None /\ y.routed = None /\ y.state = "STARTING"
    BY <1>1, <2>1 DEF QueueOnly
  <2> QED BY <2>2, <2>4, <2>6, <2>7, RouteAccounted
<1> QED BY <1>5, <1>6, <1>7, <1>8, <1>9

\* A step that raises loses nothing, or says that it did.
LEMMA RaisedAccounted ==
    ASSUME NEW rm \in RoomType, NEW acc, Accounted(rm, acc)
    PROVE  Accounted(Raised(rm), acc)
<1> DEFINE x == Raised(rm)
<1>1. /\ Outside(x, rm) /\ x.batch = <<>> /\ x.inbox = rm.inbox
      /\ x.execution = rm.execution /\ x.startGen = rm.startGen
  BY RaisedFields
<1>2. /\ x.lossy = (rm.lossy \/ rm.inbox # <<>> \/ rm.batch # <<>>)
      /\ x.arrivals = rm.arrivals
  BY SMT DEF Raised, RoomType
<1>3. rm.inbox \in Seq(Events) /\ rm.batch \in Seq(Events) BY SMT DEF RoomType
<1> HIDE DEF x
<1>4. BuiltNow(x) = BuiltNow(rm) BY <1>1 DEF BuiltNow, Outside
<1>5. ASSUME ~x.lossy PROVE Handed(x) = 0 /\ (InOrder(rm) => InOrder(x))
  <2>1. rm.inbox = <<>> /\ rm.batch = <<>> BY <1>2, <1>5
  <2>2. Handed(rm) = 0 /\ Handed(x) = 0
    BY <1>1, <2>1, SMT DEF Handed
  <2> QED BY <1>1, <1>2, <1>4, <2>1, <2>2 DEF InOrder, Outside
<1>6. ~rm.wanted => x.arrivals = 0 /\ x.held = <<>> /\ Handed(x) = 0
  <2>1. ASSUME ~rm.wanted PROVE Handed(x) = 0
    <3>1. Handed(rm) = 0 BY <2>1 DEF Accounted
    <3>2. ASSUME BuiltNow(rm) PROVE Handed(x) = 0
      <4>1. Len(rm.inbox) + Len(rm.batch) = 0 BY <3>1, <3>2 DEF Handed
      <4>2. Len(rm.inbox) = 0 BY <1>3, <4>1, LenSum
      <4> QED BY <1>1, <1>4, <3>2, <4>2, SMT DEF Handed
    <3>3. ~BuiltNow(rm) => Handed(x) = 0 BY <1>4 DEF Handed
    <3> QED BY <3>2, <3>3
  <2> QED BY <1>1, <1>2, <2>1 DEF Accounted, Outside
<1>7. Accounted(x, acc) BY <1>1, <1>2, <1>5, <1>6 DEF Accounted, Outside, Admits
<1> QED BY <1>7 DEF x

\* A new execution owes every held event.
LEMMA BuildAccounted ==
    ASSUME NEW rm \in RoomType, NEW acc \in BOOLEAN, Good(rm, acc), Accounted(rm, acc),
           rm.task = "start"
    PROVE  Accounted(Build(rm), acc)
<1> DEFINE x == Build(rm)
<1>1. /\ Outside(x, rm) /\ x.task = "starting" /\ x.batch = rm.batch /\ x.inbox = <<>>
  BY BuildFields
<1>2. x.lossy = rm.lossy /\ x.arrivals = rm.arrivals BY SMT DEF Build, RoomType
<1>3. rm.execution = None /\ rm.batch = <<>> BY SMT DEF Good, Shape
<1> HIDE DEF x
<1>4. Handed(rm) = 0 BY <1>3 DEF Handed, BuiltNow
<1>5. Len(x.inbox) = 0 /\ Len(x.batch) = 0 BY <1>1, <1>3, SMT
<1>6. Handed(x) = 0 BY <1>5, SMT DEF Handed
<1>7. Numbered(x.inbox, 0) /\ Numbered(x.batch, Len(x.inbox)) BY <1>5, SMT DEF Numbered
<1>8. InOrder(rm) => InOrder(x) BY <1>1, <1>2, <1>4, <1>6, <1>7 DEF InOrder, Outside
<1>9. Accounted(x, acc) BY <1>1, <1>2, <1>6, <1>8 DEF Accounted, Outside, Admits
<1> QED BY <1>9 DEF x

\* The resync ends a start that serves, or one a leave has fenced.
LEMMA ResyncAccounted ==
    ASSUME NEW rm \in RoomType, NEW acc \in BOOLEAN, Good(rm, acc), Accounted(rm, acc),
           rm.task = "resyncing"
    PROVE  Accounted(FinishStart(rm), acc)
<1> DEFINE x == FinishStart(rm)
<1>1. Shape(rm) BY DEF Good
<1>2. Ledger(x, rm) /\ x.routed = rm.routed BY FieldLedger, FinishFields
<1>3. x.state = (IF Serving(rm) THEN "SERVING" ELSE "IDLE") BY FinishFields
<1> HIDE DEF x
<1>4. ~Serving(rm) => ~BuiltNow(rm) BY <1>1, SMT DEF Shape, Starting, Serving, BuiltNow
<1>5. x.state # "SERVING" => Handed(rm) = 0 BY <1>3, <1>4 DEF Handed
<1>6. Accounted(x, acc) BY <1>2, <1>5, LedgerAccounted
<1> QED BY <1>6 DEF x

\* A retirement under way keeps the account.
LEMMA RetireTaskAccounted ==
    ASSUME NEW rm \in RoomType, NEW acc, NEW v, Shape(rm), Accounted(rm, acc),
           rm.state = "RETIRING"
    PROVE  /\ Accounted([rm EXCEPT !.task = "stopping"], acc)
           /\ Accounted([rm EXCEPT !.task = "releasing", !.verdict = v], acc)
<1> DEFINE x == [rm EXCEPT !.task = "stopping"]
           y == [rm EXCEPT !.task = "releasing", !.verdict = v]
<1>1. Ledger(x, rm) /\ x.routed = rm.routed BY FieldLedger, RetireTaskFields
<1>2. Ledger(y, rm) BY SMT DEF RoomType, Ledger
<1>3. y.routed = rm.routed BY RetireTaskFields
<1> HIDE DEF x, y
<1>4. rm.task \notin Starting BY DEF Shape
<1>5. ~rm.lossy /\ Admits(rm, acc) => Handed(rm) = 0 BY <1>4 DEF Accounted
<1>6. Accounted(x, acc) BY <1>1, <1>5, LedgerAccounted
<1>7. Accounted(y, acc) BY <1>2, <1>3, <1>5, LedgerAccounted
<1> QED BY <1>6, <1>7 DEF x, y

\* The retired execution had been given nothing of the standing admission.
LEMMA RetiredAccounted ==
    ASSUME NEW rm \in RoomType, NEW acc \in BOOLEAN, Good(rm, acc), Accounted(rm, acc),
           rm.task = "releasing"
    PROVE  Accounted(Retired(rm), acc)
<1> DEFINE x == Retired(rm)
<1>1. Outside(x, rm) /\ x.execution = None BY RetiredFields
<1>2. x.lossy = rm.lossy /\ x.arrivals = rm.arrivals BY SMT DEF Retired, Ended, RoomType
<1>3. Shape(rm) BY DEF Good
<1>4. rm.state = "RETIRING" /\ rm.task \notin Starting /\ rm.routed = None
  BY <1>3, SMT DEF Shape, Starting, Stopping
<1> HIDE DEF x
<1>5. Handed(x) = 0 /\ ~BuiltNow(x) BY <1>1 DEF Handed, BuiltNow
<1>6. ~rm.lossy /\ Admits(rm, acc) => Handed(rm) = 0 BY <1>4 DEF Accounted
<1>7. Handed(rm) = 0 /\ InOrder(rm) => InOrder(x) BY <1>1, <1>2, <1>5 DEF InOrder, Outside
<1>8. Accounted(x, acc) BY <1>1, <1>2, <1>4, <1>5, <1>6, <1>7 DEF Accounted, Outside, Admits
<1> QED BY <1>8 DEF x

\* The done-callback.
LEMMA StepDoneAccounted ==
    ASSUME NEW rm \in RoomType, NEW acc \in BOOLEAN, Good(rm, acc), Accounted(rm, acc),
           rm.done # "none"
    PROVE  Accounted(StepDone(rm, acc), acc)
<1> DEFINE called == [rm EXCEPT !.done = "none"]
           idle == [called EXCEPT !.state = "IDLE"]
<1>1. /\ Outside(called, rm) /\ called.task = rm.task /\ called.done = "none"
      /\ called.batch = rm.batch /\ called.inbox = rm.inbox
      /\ called.state = rm.state /\ called.execution = rm.execution
      /\ called.startGen = rm.startGen /\ called.live = rm.live
      /\ called.execEpoch = rm.execEpoch
  BY CalledFields
<1>2. /\ Outside(idle, rm) /\ idle.task = rm.task /\ idle.done = "none"
      /\ idle.batch = rm.batch /\ idle.inbox = rm.inbox
      /\ idle.state = "IDLE" /\ idle.execution = rm.execution
      /\ idle.startGen = rm.startGen /\ idle.live = rm.live
      /\ idle.execEpoch = rm.execEpoch
  BY CalledFields
<1>3. called \in RoomType BY Zenon DEF RoomType
<1>4. idle \in RoomType BY <1>3, ZenonT(60) DEF RoomType, RoomStates
<1>5. rm.done \in {"ok", "failed", "stale"} BY SMT DEF RoomType
<1>6. Shape(rm) /\ Served(rm) /\ Budget(rm, acc) BY DEF Good
<1>7. Ledger(called, rm) /\ Ledger(idle, rm) BY FieldLedger
<1>8. /\ rm.done = "ok" => StepDone(rm, acc) = Advance(called, acc)
      /\ rm.done = "failed" /\ rm.state = "STARTING" /\ ~Admits(rm, acc)
            => StepDone(rm, acc) = Advance(idle, acc)
      /\ rm.done = "failed" /\ (rm.state # "STARTING" \/ Admits(rm, acc))
            => StepDone(rm, acc) = Fail(idle)
      /\ rm.done = "stale" => StepDone(rm, acc) = called
  BY DEF StepDone, InTable
<1> HIDE DEF called, idle
<1>9. Accounted(called, acc)
  <2>1. called.routed = rm.routed BY <1>1 DEF Outside
  <2>2. ~rm.lossy /\ Admits(rm, acc) /\ called.state # "SERVING" /\ called.task \notin Starting
          => Handed(rm) = 0
    BY <1>1 DEF Accounted
  <2> QED BY <1>7, <2>1, <2>2, LedgerAccounted
<1>10. CASE rm.done = "ok"
  <2>1. Ready(rm, acc) /\ rm.known BY <1>6, <1>10 DEF Budget, Shape
  <2>2. Shape(called)
    BY <1>1, <1>6, <1>10, SMTT(30) DEF Shape, Starting, Stopping, Serving, None, Outside
  <2>3. Ready(called, acc) /\ called.known BY <1>1, <2>1 DEF Ready, Admits, Outside
  <2>4. Accounted(Advance(called, acc), acc)
    BY <1>1, <1>3, <1>9, <2>2, <2>3, AdvanceAccounted
  <2> QED BY <1>8, <1>10, <2>4
<1>11. CASE rm.done = "failed"
  <2>1. rm.task = "none" /\ rm.state \in {"STARTING", "RETIRING"} /\ rm.known
    BY <1>6, <1>11 DEF Shape
  <2>2. Accounted(idle, acc)
    <3>1. idle.routed = rm.routed /\ rm.task \notin Starting BY <1>2, <2>1 DEF Outside, Starting
    <3>2. ~rm.lossy /\ Admits(rm, acc) => Handed(rm) = 0 BY <2>1, <3>1 DEF Accounted
    <3> QED BY <1>7, <3>1, <3>2, LedgerAccounted
  <2>3. CASE rm.state = "STARTING" /\ ~Admits(rm, acc)
    <3>1. Shape(idle)
      BY <1>2, <1>6, <1>11, SMTT(30) DEF Shape, Starting, Stopping, Serving, None, Outside
    <3>2. Ready(rm, acc) BY <1>6, <2>1 DEF Budget
    <3>3. Ready(idle, acc) /\ idle.known
      BY <1>2, <2>1, <2>3, <3>2, SMT DEF Ready, Admits, Outside
    <3>4. Accounted(Advance(idle, acc), acc) BY <1>2, <1>4, <2>2, <3>1, <3>3, AdvanceAccounted
    <3> QED BY <1>8, <1>11, <2>3, <3>4
  <2>4. CASE rm.state # "STARTING" \/ Admits(rm, acc)
    <3>1. Ledger(Fail(idle), idle) /\ Same(Fail(idle), idle)
      BY <1>4, AnswerLedger, AnswerSame DEF Fail
    <3>2. Accounted(Fail(idle), acc) BY <2>2, <3>1, LedgerAccounted DEF Same, Accounted
    <3> QED BY <1>8, <1>11, <2>4, <3>2
  <2> QED BY <2>3, <2>4
<1>12. CASE rm.done = "stale" BY <1>8, <1>9, <1>12
<1> QED BY <1>5, <1>10, <1>11, <1>12

----------------------------------------------------------------------------
(* Waiters: what a convergence's end says of the room. *)

\* The fields that concern waiters.
Aside(x, rm) ==
    /\ x.convergence = rm.convergence /\ x.waiter = rm.waiter
    /\ x.verdict = rm.verdict /\ x.known = rm.known

Told(rm) == rm.waiter \in {"graceful", "forced"} => ~rm.known

Settled(rm, x) ==
    rm.convergence # "none" /\ x.convergence = "none" =>
        \/ x.state = "SERVING" /\ x.routed = x.execution
        \/ ~x.known /\ x.live = {}

\* The formula of AnsweredWhenConverged, for one room.
Converges(rm, x) ==
    rm.convergence # "none" /\ x.convergence = "none" /\ ~x.tripped =>
        \/ x.state = "SERVING" /\ x.routed = x.execution
        \/ ~x.known /\ x.live = {}
        \/ rm.done = "failed" /\ x.state = "IDLE" /\ x.execution = rm.execution

\* A room that is not to be served keeps its waiters until it has left the table.
Withheld(rm, x) ==
    x.known => x.convergence # "none" /\ x.waiter = rm.waiter

LEMMA AnswerAside ==
    ASSUME NEW rm \in RoomType, NEW v
    PROVE  /\ Answer(rm, v).convergence = "none" /\ Answer(rm, v).verdict = rm.verdict
           /\ Answer(rm, v).waiter \in {rm.waiter, v}
BY SMT DEF Answer, RoomType

\* Spawning a step opens a convergence.
LEMMA StepAside ==
    ASSUME NEW rm \in RoomType, NEW s, NEW t, rm.stepsLeft # 0
    PROVE  /\ Step(rm, s, t).convergence # "none" /\ Step(rm, s, t).waiter = rm.waiter
           /\ Step(rm, s, t).verdict = rm.verdict
BY SMT DEF Step, RoomType

LEMMA FieldAside ==
    ASSUME NEW rm \in RoomType
    PROVE  /\ Aside([rm EXCEPT !.routed = None], rm)
           /\ Aside([rm EXCEPT !.stepsLeft = MaxSteps], rm)
           /\ Aside([rm EXCEPT !.done = "none"], rm)
           /\ Aside([[rm EXCEPT !.done = "none"] EXCEPT !.state = "IDLE"], rm)
           /\ Aside([rm EXCEPT !.task = "stopping"], rm)
           /\ Aside(Fence(rm), rm)
           /\ Aside(FinishStart(rm), rm)
           /\ Aside(GiveRouted(rm), rm)
           /\ Aside(Raised(rm), rm)
<1>1. /\ Aside([rm EXCEPT !.routed = None], rm)
      /\ Aside([rm EXCEPT !.stepsLeft = MaxSteps], rm)
      /\ Aside([rm EXCEPT !.done = "none"], rm)
  BY SMT DEF RoomType, Aside
<1>2. Aside([[rm EXCEPT !.done = "none"] EXCEPT !.state = "IDLE"], rm) BY SMT DEF RoomType, Aside
<1>3. Aside([rm EXCEPT !.task = "stopping"], rm) BY SMT DEF RoomType, Aside
<1>4. Aside(Fence(rm), rm) BY SMT DEF RoomType, Aside, Fence
<1>5. Aside(FinishStart(rm), rm) BY SMT DEF RoomType, Aside, FinishStart, Ended
<1>6. Aside(GiveRouted(rm), rm) BY SMT DEF RoomType, Aside, GiveRouted
<1>7. Aside(Raised(rm), rm) BY SMT DEF RoomType, Aside, Raised
<1> QED BY <1>1, <1>2, <1>3, <1>4, <1>5, <1>6, <1>7

\* _advance answers the waiters of a room that serves or has left the table.
LEMMA AdvanceFollows ==
    ASSUME NEW rm \in RoomType, NEW acc \in BOOLEAN, Shape(rm), Committed(rm),
           Ready(rm, acc), rm.known,
           rm.done = "stale" => Admits(rm, acc) \/ rm.task = "start"
    PROVE  LET x == Advance(rm, acc)
           IN  Committed(x) /\ Settled(rm, x) /\ (~Admits(rm, acc) => Withheld(rm, x))
<1> DEFINE x == Advance(rm, acc)
<1> SUFFICES Committed(x) /\ Settled(rm, x) /\ (~Admits(rm, acc) => Withheld(rm, x))
  OBVIOUS
<1>0. rm.state \in RoomStates BY SMT DEF RoomType
<1>1. CASE rm.state \in {"STARTING", "RETIRING"}
  <2>1. x = rm BY <1>1 DEF Advance
  <2>2. rm.convergence # "none" BY <1>1 DEF Committed
  <2> HIDE DEF x
  <2> QED BY <2>1, <2>2 DEF Settled, Withheld
<1>2. CASE rm.state = "SERVING" /\ Admits(rm, acc)
  <2>1. x = Settle(rm) BY <1>2 DEF Advance
  <2>2. Same(x, rm) BY <2>1, AnswerSame DEF Settle
  <2>3. rm.routed = rm.execution /\ rm.task # "releasing"
    BY <1>2, SMT DEF Shape, Admits, Serving, Stopping
  <2> HIDE DEF x
  <2> QED BY <1>2, <2>2, <2>3 DEF Same, Settled, Committed
<1>3. CASE rm.state = "IDLE" /\ ~Admits(rm, acc) /\ rm.execution = None
  <2>1. x = Forget(rm) BY <1>3 DEF Advance
  <2>2. rm.done # "stale" BY <1>3 DEF Shape
  <2>3. x = FreshRoom(Settle(rm)) BY <2>1, <2>2 DEF Forget, InTable
  <2>4. Settle(rm).live = {} BY <1>3, AnswerSame DEF Settle, Same, Shape
  <2> DEFINE s == Settle(rm)
  <2> HIDE DEF x, s
  <2>5. ~FreshRoom(s).known /\ FreshRoom(s).state = "IDLE" /\ FreshRoom(s).task = "none"
        /\ FreshRoom(s).live = s.live
    BY DEF FreshRoom
  <2>6. ~x.known /\ x.state = "IDLE" /\ x.task = "none" /\ x.live = {}
    BY <2>3, <2>4, <2>5 DEF s
  <2> QED BY <2>6 DEF Settled, Committed, Withheld
<1>4. CASE rm.state = "IDLE" /\ Admits(rm, acc) /\ rm.execution = None
  <2>1. x = Step(rm, "STARTING", "start") BY <1>4 DEF Advance
  <2>2. rm.stepsLeft # 0 BY <1>4, SMT DEF Ready, RoomType
  <2>3. x.convergence # "none" /\ x.task = "start" BY <2>1, <2>2, StepAside, StepFields
  <2> HIDE DEF x
  <2> QED BY <1>4, <2>3 DEF Settled, Committed
<1>5. CASE rm.execution # None /\ (rm.state = "IDLE" \/ (rm.state = "SERVING" /\ ~Admits(rm, acc)))
  <2> DEFINE y == [rm EXCEPT !.routed = None]
  <2>1. x = Step(y, "RETIRING", "retire") BY <1>5 DEF Advance
  <2>2. y \in RoomType /\ y.stepsLeft = rm.stepsLeft /\ Aside(y, rm)
    BY UnrouteFields, FieldAside
  <2>3. rm.stepsLeft # 0 BY <1>5, SMT DEF Ready, RoomType
  <2> HIDE DEF y
  <2>4. x.convergence # "none" /\ x.task = "retire" /\ x.waiter = rm.waiter
    BY <2>1, <2>2, <2>3, StepAside, StepFields DEF Aside
  <2> HIDE DEF x
  <2> QED BY <2>4 DEF Settled, Committed, Withheld
<1>6. rm.state = "SERVING" => rm.execution # None BY DEF Shape
<1> HIDE DEF x
<1> QED BY <1>0, <1>1, <1>2, <1>3, <1>4, <1>5, <1>6 DEF RoomStates

LEMMA SignalFollows ==
    ASSUME NEW rm \in RoomType, NEW acc \in BOOLEAN, Shape(rm), Committed(rm),
           rm.known, ~rm.tripped,
           rm.done = "stale" => Admits(rm, acc) \/ rm.task = "start"
    PROVE  LET x == Signal(rm, acc)
           IN  Committed(x) /\ Settled(rm, x) /\ (~Admits(rm, acc) => Withheld(rm, x))
<1> DEFINE y == [rm EXCEPT !.stepsLeft = MaxSteps]
           x == Advance(y, acc)
<1>1. /\ y \in RoomType /\ Kept(y, rm) /\ y.stepsLeft = MaxSteps
      /\ y.routed = rm.routed /\ y.state = rm.state /\ y.task = rm.task
  BY ResetFields
<1>2. Aside(y, rm) BY FieldAside
<1>3. Signal(rm, acc) = x BY DEF Signal
<1> HIDE DEF y
<1>4. Shape(y) BY <1>1, SMT DEF Shape, Serving, Kept
<1>5. Ready(y, acc) BY <1>1, Typical, SMT DEF Ready, Kept
<1>6. Committed(y) BY <1>1, <1>2 DEF Committed, Aside
<1>7. Admits(y, acc) = Admits(rm, acc) /\ y.done = rm.done /\ y.known
  BY <1>1 DEF Kept, Admits
<1>8. Committed(x) /\ Settled(y, x) /\ (~Admits(rm, acc) => Withheld(y, x))
  BY <1>1, <1>4, <1>5, <1>6, <1>7, AdvanceFollows
<1> HIDE DEF x
<1>9. Settled(rm, x) /\ (Withheld(y, x) => Withheld(rm, x))
  BY <1>2, <1>8 DEF Settled, Withheld, Aside
<1> QED BY <1>3, <1>8, <1>9

\* What a step of an existing room owes its waiters.
Follows(rm, x, acc) ==
    /\ Committed(x) /\ Converges(rm, x)
    /\ x.known => rm.known
    /\ Told(rm) /\ ~acc => Told(x)

LEMMA AsideFollows ==
    ASSUME NEW rm, NEW x, NEW acc, Aside(x, rm), Committed(rm),
           x.state \in {"STARTING", "RETIRING"} => rm.state \in {"STARTING", "RETIRING"},
           x.task = "releasing" => rm.task = "releasing"
    PROVE  Follows(rm, x, acc)
BY DEF Follows, Aside, Committed, Converges, Told

LEMMA SettledFollows ==
    ASSUME NEW rm, NEW y, NEW x, NEW acc, Committed(x), Settled(y, x), rm.known,
           ~acc => Withheld(y, x), y.convergence = rm.convergence, y.waiter = rm.waiter
    PROVE  Follows(rm, x, acc)
BY DEF Follows, Settled, Withheld, Converges, Told

LEMMA WithdrawFollows ==
    ASSUME NEW rm \in RoomType, NEW acc \in BOOLEAN, Good(rm, acc), Committed(rm), rm.known
    PROVE  LET x == Signal(Fence(rm), acc)
               z == Signal([Fence(rm) EXCEPT !.waiter = "waiting"], acc)
           IN  /\ Follows(rm, x, acc)
               /\ Committed(z) /\ Converges(rm, z)
               /\ z.known => z.convergence # "none" /\ z.waiter = "waiting"
<1> DEFINE f == Fence(rm)
           w == [f EXCEPT !.waiter = "waiting"]
           x == Signal(f, acc)
           z == Signal(w, acc)
<1>1. Shape(rm) /\ Served(rm) /\ Isolated(rm) /\ ~rm.tripped BY DEF Good, Budget
<1>2. f \in RoomType /\ Shape(f) /\ f.known /\ ~f.tripped BY <1>1, FenceGood
<1>3. (f.done = "stale" => f.task = "start") /\ f.state = rm.state /\ f.task = rm.task /\ ~f.wanted
  BY <1>1, FenceFields DEF Served
<1>4. Aside(f, rm) BY FieldAside
<1> HIDE DEF f
<1>5. Committed(f) /\ ~Admits(f, acc) BY <1>3, <1>4 DEF Committed, Aside, Admits
<1>6. Committed(x) /\ Settled(f, x) /\ Withheld(f, x) BY <1>2, <1>3, <1>5, SignalFollows
<1>7. Follows(rm, x, acc) BY <1>4, <1>6, SettledFollows DEF Aside
<1>8. w \in RoomType /\ Same(w, f) BY <1>2, WaiterSame DEF Results
<1>9. w.waiter = "waiting" /\ w.convergence = f.convergence /\ w.verdict = f.verdict
  BY <1>2, SMT DEF RoomType
<1> HIDE DEF w
<1>10. Shape(w) /\ w.known /\ ~w.tripped /\ (w.done = "stale" => w.task = "start")
  BY <1>2, <1>3, <1>8, SameGood DEF Same
<1>11. Committed(w) /\ ~Admits(w, acc) BY <1>5, <1>8, <1>9 DEF Committed, Same, Admits
<1>12. Committed(z) /\ Settled(w, z) /\ Withheld(w, z) BY <1>8, <1>10, <1>11, SignalFollows
<1> HIDE DEF x, z
<1>13. Converges(rm, z) /\ (z.known => z.convergence # "none" /\ z.waiter = "waiting")
  BY <1>4, <1>9, <1>12 DEF Settled, Converges, Aside, Withheld
<1> QED BY <1>7, <1>12, <1>13 DEF x, z, w, f

LEMMA JoinFollows ==
    ASSUME NEW rm \in RoomType, Good(rm, TRUE), Committed(rm)
    PROVE  Committed(RequestAdmission(rm, TRUE)) /\ Converges(rm, RequestAdmission(rm, TRUE))
<1> DEFINE y == [rm EXCEPT !.known = TRUE, !.wanted = TRUE]
           x == Signal(y, TRUE)
<1>1. y \in RoomType BY Zenon DEF RoomType
<1>2. /\ y.known = TRUE /\ y.wanted = TRUE
      /\ y.routed = rm.routed /\ y.generation = rm.generation /\ y.held = rm.held
      /\ y.epoch = rm.epoch /\ y.state = rm.state
      /\ y.execution = rm.execution /\ y.done = rm.done
      /\ y.task = rm.task /\ y.startGen = rm.startGen
      /\ y.batch = rm.batch /\ y.live = rm.live
      /\ y.execEpoch = rm.execEpoch /\ y.inbox = rm.inbox
      /\ y.tripped = rm.tripped
  BY SMT DEF RoomType
<1>3. y.convergence = rm.convergence /\ y.verdict = rm.verdict BY SMT DEF RoomType
<1>4. RequestAdmission(rm, TRUE) = x BY DEF RequestAdmission
<1> HIDE DEF y
<1>5. Shape(rm) /\ Served(rm) /\ ~rm.tripped BY DEF Good, Budget
<1>6. Shape(y) BY <1>2, <1>5, SMTT(30) DEF Shape, Served, Starting, Stopping, Serving, None
<1>7. Committed(y) /\ Admits(y, TRUE) BY <1>2, <1>3 DEF Committed, Admits
<1>8. Committed(x) /\ Settled(y, x) BY <1>1, <1>2, <1>5, <1>6, <1>7, SignalFollows
<1> HIDE DEF x
<1>9. Converges(rm, x) BY <1>3, <1>8 DEF Settled, Converges
<1> QED BY <1>4, <1>8, <1>9

LEMMA HoldAside ==
    ASSUME NEW rm \in RoomType, NEW h, NEW n, NEW z
    PROVE  Aside([rm EXCEPT !.held = h, !.arrivals = n, !.lossy = z], rm)
BY SMT DEF RoomType, Aside

LEMMA HoldFollows ==
    ASSUME NEW rm \in RoomType, NEW acc \in BOOLEAN, Good(rm, acc), Committed(rm), rm.known,
           rm.routed = None
    PROVE  Follows(rm, Hold(rm, acc), acc)
<1> DEFINE q == Push(rm.held, NewEvent(rm))
           k == rm.arrivals + 1
           l == (rm.lossy \/ Len(rm.held) = MaxHeld)
           y == [rm EXCEPT !.held = q, !.arrivals = k, !.lossy = l]
           x == Signal(y, acc)
<1>0. rm.held \in Seq(Events) BY SMT DEF RoomType
<1>1. q \in Seq(Events) BY <1>0, NewEventType, HeldAssumption, SMT DEF Push
<1>2. k \in Nat BY SMT DEF RoomType
<1>3. l \in BOOLEAN OBVIOUS
<1>4. Hold(rm, acc) = x BY DEF Hold
<1>5. Shape(rm) /\ Served(rm) /\ ~rm.tripped BY DEF Good, Budget
<1> HIDE DEF q, k, l
<1>6. y \in RoomType BY <1>1, <1>2, <1>3, ZenonT(30) DEF RoomType
<1>7. HeldOnly(y, rm) BY HoldFields
<1>8. Aside(y, rm) BY HoldAside
<1> HIDE DEF y
<1>9. Shape(y) BY <1>5, <1>7, SMTT(30) DEF Shape, HeldOnly, Starting, Stopping, Serving, None
<1>10. Committed(y) /\ y.known /\ ~y.tripped /\ (y.done = "stale" => y.task = "start")
  BY <1>5, <1>7, <1>8 DEF Committed, Aside, HeldOnly, Served
<1>11. Committed(x) /\ Settled(y, x) /\ (~acc => Withheld(y, x))
  BY <1>6, <1>9, <1>10, SignalFollows DEF Admits
<1> HIDE DEF x
<1> QED BY <1>4, <1>8, <1>11, SettledFollows DEF Aside

\* A segment of a start writes nothing its waiters see.
LEMMA RouteAside ==
    ASSUME NEW rm \in RoomType, NEW acc, rm.state = "STARTING"
    PROVE  /\ Aside(Route(rm, acc), rm)
           /\ Route(rm, acc).task \in {"resyncing", "none"}
<1> DEFINE x == [rm EXCEPT !.routed = rm.execution, !.task = "resyncing"]
<1>1. Aside(x, rm) BY SMT DEF RoomType, Aside
<1>2. x.task = "resyncing" BY RouteFields
<1>3. Aside(FinishStart(rm), rm) /\ FinishStart(rm).task = "none" BY FieldAside, FinishFields
<1> QED BY <1>1, <1>2, <1>3 DEF Route

LEMMA DeliverHeldFollows ==
    ASSUME NEW rm \in RoomType, NEW acc \in BOOLEAN, Good(rm, acc), Committed(rm),
           rm.task \in {"starting", "delivering"}
    PROVE  Follows(rm, DeliverHeld(rm, acc), acc)
<1>1. rm.state = "STARTING" BY SMT DEF Good, Shape, Starting
<1>2. \A y \in RoomType : \A b : Aside(HandOver(y, b), y) /\ HandOver(y, b).task = "delivering"
  BY SMT DEF RoomType, Aside, HandOver
<1>3. /\ Aside([rm EXCEPT !.held = <<>>], rm) /\ [rm EXCEPT !.held = <<>>] \in RoomType
      /\ Aside([rm EXCEPT !.batch = <<>>], rm) /\ [rm EXCEPT !.batch = <<>>] \in RoomType
      /\ [rm EXCEPT !.batch = <<>>].state = "STARTING"
  <2>1. Aside([rm EXCEPT !.held = <<>>], rm) BY SMT DEF RoomType, Aside
  <2>2. Aside([rm EXCEPT !.batch = <<>>], rm) BY SMT DEF RoomType, Aside
  <2>3. [rm EXCEPT !.held = <<>>] \in RoomType BY Typical, Zenon DEF RoomType
  <2>4. [rm EXCEPT !.batch = <<>>] \in RoomType BY Typical, Zenon DEF RoomType
  <2> QED BY <1>1, <2>1, <2>2, <2>3, <2>4, ClearFields DEF QueueOnly
<1>4. Aside(DropHeld(rm), rm) /\ DropHeld(rm) \in RoomType /\ DropHeld(rm).state = "STARTING"
  <2>1. (rm.lossy \/ rm.batch # <<>> \/ rm.held # <<>>) \in BOOLEAN OBVIOUS
  <2>2. DropHeld(rm) \in RoomType BY <2>1, Typical, Zenon DEF DropHeld, RoomType
  <2>3. Aside(DropHeld(rm), rm) BY SMT DEF RoomType, Aside, DropHeld
  <2> QED BY <1>1, <2>2, <2>3, DropFields DEF QueueOnly
<1> DEFINE h == [rm EXCEPT !.held = <<>>]
           b == [rm EXCEPT !.batch = <<>>]
           d == DropHeld(rm)
<1>5. DeliverHeld(rm, acc) \in {Route(rm, acc), HandOver(h, rm.held), Route(b, acc),
                                HandOver(rm, rm.batch), Route(d, acc)}
  BY DEF DeliverHeld
<1>6. /\ h \in RoomType /\ Aside(h, rm) /\ b \in RoomType /\ Aside(b, rm) /\ b.state = "STARTING"
      /\ d \in RoomType /\ Aside(d, rm) /\ d.state = "STARTING"
  BY <1>3, <1>4
<1> HIDE DEF h, b, d
<1>7. /\ Aside(Route(rm, acc), rm) /\ Route(rm, acc).task # "releasing"
      /\ Aside(Route(b, acc), b) /\ Route(b, acc).task # "releasing"
      /\ Aside(Route(d, acc), d) /\ Route(d, acc).task # "releasing"
  BY <1>1, <1>6, RouteAside
<1>8. /\ Aside(HandOver(h, rm.held), h) /\ HandOver(h, rm.held).task # "releasing"
      /\ Aside(HandOver(rm, rm.batch), rm) /\ HandOver(rm, rm.batch).task # "releasing"
  BY <1>2, <1>6
<1>9. Aside(DeliverHeld(rm, acc), rm) /\ DeliverHeld(rm, acc).task # "releasing"
  BY <1>5, <1>6, <1>7, <1>8 DEF Aside
<1> QED BY <1>1, <1>9, AsideFollows

\* The tasks of start and retire.
LEMMA TaskFollows ==
    ASSUME NEW rm \in RoomType, NEW acc \in BOOLEAN, Good(rm, acc), Committed(rm),
           rm.task # "none"
    PROVE  /\ Follows(rm, Raised(rm), acc)
           /\ Follows(rm, Build(rm), acc)
           /\ Follows(rm, FinishStart(rm), acc)
           /\ Follows(rm, [rm EXCEPT !.task = "stopping"], acc)
           /\ \A v \in {"graceful", "forced"} :
                 Follows(rm, [rm EXCEPT !.task = "releasing", !.verdict = v], acc)
           /\ rm.task = "releasing" => Follows(rm, Retired(rm), acc)
<1>1. Shape(rm) BY DEF Good
<1>2. Follows(rm, Raised(rm), acc) BY RaisedFields, FieldAside, AsideFollows
<1>3. Follows(rm, FinishStart(rm), acc) BY FinishFields, FieldAside, AsideFollows
<1>4. Follows(rm, [rm EXCEPT !.task = "stopping"], acc)
  BY RetireTaskFields, FieldAside, AsideFollows
<1>5. Follows(rm, Build(rm), acc)
  <2> DEFINE x == Build(rm)
  <2>1. x.state = rm.state /\ x.task = "starting" BY BuildFields
  <2>2. x.convergence = rm.convergence /\ x.waiter = rm.waiter /\ x.known = rm.known
    BY SMT DEF Build, RoomType
  <2> HIDE DEF x
  <2>3. Follows(rm, x, acc) BY <2>1, <2>2 DEF Follows, Committed, Converges, Told
  <2> QED BY <2>3 DEF x
<1>6. ASSUME NEW v \in {"graceful", "forced"}
      PROVE  Follows(rm, [rm EXCEPT !.task = "releasing", !.verdict = v], acc)
  <2> DEFINE x == [rm EXCEPT !.task = "releasing", !.verdict = v]
  <2>1. x.state = rm.state BY RetireTaskFields
  <2>2. /\ x.convergence = rm.convergence /\ x.waiter = rm.waiter /\ x.known = rm.known
        /\ x.verdict = v
    BY SMT DEF RoomType
  <2> HIDE DEF x
  <2>3. Follows(rm, x, acc) BY <2>1, <2>2 DEF Follows, Committed, Converges, Told
  <2> QED BY <2>3 DEF x
<1>7. ASSUME rm.task = "releasing" PROVE Follows(rm, Retired(rm), acc)
  <2> DEFINE x == Retired(rm)
  <2>1. x.state = "IDLE" /\ x.task = "none" BY RetiredFields
  <2>2. /\ x.convergence = (IF rm.convergence = "graceful" THEN rm.verdict ELSE rm.convergence)
        /\ x.waiter = rm.waiter /\ x.known = rm.known
    BY SMT DEF Retired, Ended, RoomType
  <2>3. rm.state = "RETIRING" BY <1>1, <1>7 DEF Shape, Stopping
  <2> HIDE DEF x
  <2>4. x.convergence # "none" BY <1>7, <2>2, <2>3 DEF Committed
  <2>5. Follows(rm, x, acc) BY <2>1, <2>2, <2>4 DEF Follows, Committed, Converges, Told
  <2> QED BY <2>5 DEF x
<1> QED BY <1>2, <1>3, <1>4, <1>5, <1>6, <1>7

\* The done-callback answers a failed step's waiters with its failure.
LEMMA StepDoneFollows ==
    ASSUME NEW rm \in RoomType, NEW acc \in BOOLEAN, Good(rm, acc), Committed(rm),
           rm.done # "none"
    PROVE  Follows(rm, StepDone(rm, acc), acc)
<1> DEFINE called == [rm EXCEPT !.done = "none"]
           idle == [called EXCEPT !.state = "IDLE"]
<1>1. /\ Outside(called, rm) /\ called.task = rm.task /\ called.done = "none"
      /\ called.batch = rm.batch /\ called.inbox = rm.inbox
      /\ called.state = rm.state /\ called.execution = rm.execution
      /\ called.startGen = rm.startGen /\ called.live = rm.live
      /\ called.execEpoch = rm.execEpoch
  BY CalledFields
<1>2. /\ Outside(idle, rm) /\ idle.task = rm.task /\ idle.done = "none"
      /\ idle.batch = rm.batch /\ idle.inbox = rm.inbox
      /\ idle.state = "IDLE" /\ idle.execution = rm.execution
      /\ idle.startGen = rm.startGen /\ idle.live = rm.live
      /\ idle.execEpoch = rm.execEpoch
  BY CalledFields
<1>3. called \in RoomType BY Zenon DEF RoomType
<1>4. idle \in RoomType BY <1>3, ZenonT(60) DEF RoomType, RoomStates
<1>5. rm.done \in {"ok", "failed", "stale"} BY SMT DEF RoomType
<1>6. Shape(rm) /\ Served(rm) /\ Budget(rm, acc) BY DEF Good
<1>7. Aside(called, rm) /\ Aside(idle, rm) BY FieldAside
<1>8. /\ rm.done = "ok" => StepDone(rm, acc) = Advance(called, acc)
      /\ rm.done = "failed" /\ rm.state = "STARTING" /\ ~Admits(rm, acc)
            => StepDone(rm, acc) = Advance(idle, acc)
      /\ rm.done = "failed" /\ (rm.state # "STARTING" \/ Admits(rm, acc))
            => StepDone(rm, acc) = Fail(idle)
      /\ rm.done = "stale" => StepDone(rm, acc) = called
  BY DEF StepDone, InTable
<1> HIDE DEF called, idle
<1>9. Committed(called) BY <1>1, <1>7 DEF Aside, Committed
<1>10. CASE rm.done = "ok"
  <2>1. Ready(rm, acc) /\ rm.known BY <1>6, <1>10 DEF Budget, Shape
  <2>2. Shape(called)
    BY <1>1, <1>6, <1>10, SMTT(30) DEF Shape, Starting, Stopping, Serving, None, Outside
  <2>3. Ready(called, acc) /\ called.known BY <1>1, <2>1 DEF Ready, Admits, Outside
  <2> DEFINE x == Advance(called, acc)
  <2>4. Committed(x) /\ Settled(called, x) /\ (~acc => Withheld(called, x))
    BY <1>1, <1>3, <1>9, <2>2, <2>3, AdvanceFollows DEF Admits
  <2> HIDE DEF x
  <2>5. Follows(rm, x, acc) BY <1>7, <2>1, <2>4, SettledFollows DEF Aside
  <2> QED BY <1>8, <1>10, <2>5 DEF x
<1>11. CASE rm.done = "failed"
  <2>1. rm.task = "none" /\ rm.state \in {"STARTING", "RETIRING"} /\ rm.known
    BY <1>6, <1>11 DEF Shape
  <2>2. Committed(idle) BY <1>2, <2>1 DEF Committed
  <2>3. CASE rm.state = "STARTING" /\ ~Admits(rm, acc)
    <3>1. Shape(idle)
      BY <1>2, <1>6, <1>11, SMTT(30) DEF Shape, Starting, Stopping, Serving, None, Outside
    <3>2. Ready(rm, acc) BY <1>6, <2>1 DEF Budget
    <3>3. Ready(idle, acc) /\ idle.known
      BY <1>2, <2>1, <2>3, <3>2, SMT DEF Ready, Admits, Outside
    <3> DEFINE x == Advance(idle, acc)
    <3>4. Committed(x) /\ Settled(idle, x) /\ (~acc => Withheld(idle, x))
      BY <1>2, <1>4, <2>2, <3>1, <3>3, AdvanceFollows DEF Admits
    <3> HIDE DEF x
    <3>5. Follows(rm, x, acc) BY <1>7, <2>1, <3>4, SettledFollows DEF Aside
    <3> QED BY <1>8, <1>11, <2>3, <3>5 DEF x
  <2>4. CASE rm.state # "STARTING" \/ Admits(rm, acc)
    <3> DEFINE x == Fail(idle)
    <3>1. Same(x, idle) BY <1>4, AnswerSame DEF Fail
    <3>2. x.waiter \in {rm.waiter, "error"} BY <1>4, <1>7, AnswerAside DEF Fail, Aside
    <3> HIDE DEF x
    <3>3. Committed(x) BY <1>2, <2>1, <3>1 DEF Committed, Same
    <3>4. Converges(rm, x) BY <1>2, <1>11, <3>1 DEF Converges, Same
    <3>5. x.known = rm.known BY <1>2, <3>1 DEF Same, Outside
    <3>6. Follows(rm, x, acc) BY <3>2, <3>3, <3>4, <3>5 DEF Follows, Told
    <3> QED BY <1>8, <1>11, <2>4, <3>6 DEF x
  <2> QED BY <2>3, <2>4
<1>12. CASE rm.done = "stale"
  <2>1. Follows(rm, called, acc) BY <1>1, <1>7, AsideFollows
  <2> QED BY <1>8, <1>12, <2>1
<1> QED BY <1>5, <1>10, <1>11, <1>12

----------------------------------------------------------------------------
(* The two invariants as a whole. *)

\* What a callback or a task segment does to one room.
Moves(rm, x, acc) ==
    /\ Accounted(x, acc) /\ Committed(x) /\ Converges(rm, x)
    /\ ~acc => (x.known => rm.known) /\ (Told(rm) => Told(x))

LEMMA PutMoves ==
    ASSUME IInv, HandoverInv, \A q \in Rooms : Committed(room[q]),
           NEW r \in Rooms, NEW rm, Moves(room[r], rm, accepting), Put(r, rm)
    PROVE  \A q \in Rooms : Moves(room[q], room'[q], accepting)
<1>1. \A q \in Rooms : room'[q] = IF q = r THEN rm ELSE room[q] BY DEF IInv, TypeOK, Put
<1>2. \A q \in Rooms : Moves(room[q], room[q], accepting)
  BY DEF HandoverInv, Moves, Converges
<1> QED BY <1>1, <1>2

LEMMA PresenceMoves ==
    ASSUME IInv, HandoverInv, \A q \in Rooms : Committed(room[q]), Presence
    PROVE  \A q \in Rooms : Moves(room[q], room'[q], accepting)
<1>0. /\ \A r \in Rooms : room[r] \in RoomType /\ Good(room[r], accepting)
                           /\ Accounted(room[r], accepting) /\ Committed(room[r])
      /\ accepting \in BOOLEAN
  BY DEF IInv, TypeOK, Good, HandoverInv
<1>1. ASSUME NEW r \in Rooms, OnRoomJoined(r)
      PROVE  \A q \in Rooms : Moves(room[q], room'[q], accepting)
  <2> DEFINE rm == RequestAdmission(room[r], accepting)
  <2>1. accepting = TRUE /\ Put(r, rm) BY <1>0, <1>1 DEF OnRoomJoined
  <2>2. Accounted(rm, accepting) BY <1>0, <2>1, JoinAccounted
  <2>3. Committed(rm) /\ Converges(room[r], rm) BY <1>0, <2>1, JoinFollows
  <2> HIDE DEF rm
  <2>4. Moves(room[r], rm, accepting) BY <2>1, <2>2, <2>3 DEF Moves
  <2> QED BY <2>1, <2>4, PutMoves
<1>2. ASSUME NEW r \in Rooms, OnRoomLeft(r)
      PROVE  \A q \in Rooms : Moves(room[q], room'[q], accepting)
  <2> DEFINE rm == Signal(Fence(room[r]), accepting)
  <2>1. room[r].known /\ Put(r, rm) BY <1>2 DEF OnRoomLeft
  <2>2. Accounted(rm, accepting) /\ Follows(room[r], rm, accepting)
    BY <1>0, <2>1, WithdrawAccounted, WithdrawFollows
  <2> HIDE DEF rm
  <2> QED BY <2>1, <2>2, PutMoves DEF Moves, Follows
<1>3. ASSUME NEW r \in Rooms, OnRoomEvent(r)
      PROVE  \A q \in Rooms : Moves(room[q], room'[q], accepting)
  <2>1. CASE room[r].routed # None
    <3> DEFINE rm == GiveRouted(room[r])
    <3>1. Put(r, rm) BY <1>3, <2>1 DEF OnRoomEvent
    <3>2. Accounted(rm, accepting) BY <1>0, <2>1, GiveRoutedAccounted DEF Good
    <3>3. Aside(rm, room[r]) /\ rm.state = room[r].state /\ rm.task = room[r].task
      <4>1. rm.state = room[r].state /\ rm.task = room[r].task
        BY <1>0, SMT DEF GiveRouted, RoomType
      <4> QED BY <1>0, <4>1, FieldAside
    <3> HIDE DEF rm
    <3>4. Follows(room[r], rm, accepting) BY <1>0, <3>3, AsideFollows
    <3> QED BY <3>1, <3>2, <3>4, PutMoves DEF Moves, Follows
  <2>2. CASE room[r].routed = None
    <3> DEFINE rm == Hold(room[r], accepting)
    <3>1. Put(r, rm) /\ room[r].known /\ room[r].wanted BY <1>3, <2>2 DEF OnRoomEvent
    <3>2. Accounted(rm, accepting) /\ Follows(room[r], rm, accepting)
      BY <1>0, <2>2, <3>1, HoldAccounted, HoldFollows
    <3> HIDE DEF rm
    <3> QED BY <3>1, <3>2, PutMoves DEF Moves, Follows
  <2> QED BY <2>1, <2>2
<1>4. ASSUME OnReconnected, NEW q \in Rooms PROVE Moves(room[q], room'[q], accepting)
  <2>1. room'[q] = IF room[q].known /\ ~Serving(room[q])
                   THEN Signal(room[q], accepting) ELSE room[q]
    BY <1>4 DEF OnReconnected
  <2>2. Moves(room[q], room[q], accepting) BY <1>0 DEF Moves, Converges
  <2>3. ASSUME room[q].known PROVE Moves(room[q], Signal(room[q], accepting), accepting)
    <3> DEFINE x == Signal(room[q], accepting)
    <3>1. Shape(room[q]) /\ Served(room[q]) /\ ~room[q].tripped BY <1>0 DEF Good, Budget
    <3>2. Accounted(x, accepting) BY <1>0, <2>3, <3>1, SignalAccounted DEF Served
    <3>3. Committed(x) /\ Settled(room[q], x) /\ (~accepting => Withheld(room[q], x))
      BY <1>0, <2>3, <3>1, SignalFollows DEF Served, Admits
    <3> HIDE DEF x
    <3>4. Follows(room[q], x, accepting) BY <2>3, <3>3, SettledFollows
    <3>5. Moves(room[q], x, accepting) BY <3>2, <3>4 DEF Moves, Follows
    <3> QED BY <3>5 DEF x
  <2> QED BY <2>1, <2>2, <2>3
<1> QED BY <1>1, <1>2, <1>3, <1>4 DEF Presence

LEMMA TaskMoves ==
    ASSUME IInv, HandoverInv, \A q \in Rooms : Committed(room[q]),
           NEW r \in Rooms, StepTask(r)
    PROVE  \A q \in Rooms : Moves(room[q], room'[q], accepting)
<1>0. /\ room[r] \in RoomType /\ Good(room[r], accepting)
      /\ Accounted(room[r], accepting) /\ Committed(room[r])
      /\ accepting \in BOOLEAN
  BY DEF IInv, TypeOK, Good, HandoverInv
<1>1. ASSUME NEW rm, Accounted(rm, accepting), Follows(room[r], rm, accepting), Put(r, rm)
      PROVE  \A q \in Rooms : Moves(room[q], room'[q], accepting)
  <2>1. Moves(room[r], rm, accepting) BY <1>1 DEF Moves, Follows
  <2> QED BY <1>1, <2>1, PutMoves
<1>2. ASSUME room[r].task # "none", Put(r, Raised(room[r]))
      PROVE  \A q \in Rooms : Moves(room[q], room'[q], accepting)
  BY <1>0, <1>1, <1>2, RaisedAccounted, TaskFollows
<1>3. ASSUME room[r].task \in {"starting", "delivering"}, Put(r, DeliverHeld(room[r], accepting))
      PROVE  \A q \in Rooms : Moves(room[q], room'[q], accepting)
  BY <1>0, <1>1, <1>3, DeliverHeldAccounted, DeliverHeldFollows
<1>4. CASE BeginStart(r)
  <2>1. room[r].task = "start" /\ (Put(r, Build(room[r])) \/ Put(r, Raised(room[r])))
    BY <1>4 DEF BeginStart
  <2>2. Accounted(Build(room[r]), accepting) BY <1>0, <2>1, BuildAccounted
  <2>3. Follows(room[r], Build(room[r]), accepting) BY <1>0, <2>1, TaskFollows
  <2> QED BY <1>1, <1>2, <2>1, <2>2, <2>3
<1>5. CASE StartReturns(r) BY <1>2, <1>3, <1>5 DEF StartReturns
<1>6. CASE OnEventReturns(r) BY <1>2, <1>3, <1>6 DEF OnEventReturns
<1>7. CASE ResyncReturns(r)
  <2>1. room[r].task = "resyncing" /\ Put(r, FinishStart(room[r])) BY <1>7 DEF ResyncReturns
  <2>2. Accounted(FinishStart(room[r]), accepting) BY <1>0, <2>1, ResyncAccounted
  <2>3. Follows(room[r], FinishStart(room[r]), accepting) BY <1>0, <2>1, TaskFollows
  <2> QED BY <1>1, <2>1, <2>2, <2>3
<1>8. CASE BeginRetire(r)
  <2> DEFINE x == [room[r] EXCEPT !.task = "stopping"]
  <2>1. room[r].task = "retire" /\ Put(r, x) BY <1>8 DEF BeginRetire
  <2>2. Shape(room[r]) /\ room[r].state = "RETIRING" BY <1>0, <2>1 DEF Good, Shape
  <2>3. Accounted(x, accepting) BY <1>0, <2>2, RetireTaskAccounted
  <2>4. Follows(room[r], x, accepting) BY <1>0, <2>1, TaskFollows
  <2> HIDE DEF x
  <2> QED BY <1>1, <2>1, <2>3, <2>4
<1>9. CASE StopReturns(r)
  <2>0. room[r].task = "stopping" BY <1>9 DEF StopReturns
  <2>1. ASSUME NEW v \in {"graceful", "forced"},
               Put(r, [room[r] EXCEPT !.task = "releasing", !.verdict = v])
        PROVE  \A q \in Rooms : Moves(room[q], room'[q], accepting)
    <3> DEFINE x == [room[r] EXCEPT !.task = "releasing", !.verdict = v]
    <3>1. Put(r, x) BY <2>1
    <3>2. Shape(room[r]) /\ room[r].state = "RETIRING" BY <1>0, <2>0 DEF Good, Shape, Stopping
    <3>3. Accounted(x, accepting) BY <1>0, <3>2, RetireTaskAccounted
    <3>4. Follows(room[r], x, accepting) BY <1>0, <2>0, TaskFollows
    <3> HIDE DEF x
    <3> QED BY <1>1, <3>1, <3>3, <3>4
  <2> QED BY <1>2, <1>9, <2>0, <2>1 DEF StopReturns
<1>10. CASE ReleaseReturns(r)
  <2>1. room[r].task = "releasing" /\ (Put(r, Retired(room[r])) \/ Put(r, Raised(room[r])))
    BY <1>10 DEF ReleaseReturns
  <2>2. Accounted(Retired(room[r]), accepting) BY <1>0, <2>1, RetiredAccounted
  <2>3. Follows(room[r], Retired(room[r]), accepting) BY <1>0, <2>1, TaskFollows
  <2> QED BY <1>1, <1>2, <2>1, <2>2, <2>3
<1>11. CASE OnStepDone(r)
  <2>1. room[r].done # "none" /\ Put(r, StepDone(room[r], accepting)) BY <1>11 DEF OnStepDone
  <2>2. Accounted(StepDone(room[r], accepting), accepting)
        /\ Follows(room[r], StepDone(room[r], accepting), accepting)
    BY <1>0, <2>1, StepDoneAccounted, StepDoneFollows
  <2> QED BY <1>1, <2>1, <2>2
<1> QED BY <1>4, <1>5, <1>6, <1>7, <1>8, <1>9, <1>10, <1>11 DEF StepTask

\* Dropping the waiter, and opening or closing admissions, keep a room's account.
LEMMA UnwaitedKept ==
    ASSUME NEW rm \in RoomType, NEW acc, Accounted(rm, acc), Committed(rm)
    PROVE  LET x == [rm EXCEPT !.waiter = "none"]
           IN  /\ Accounted(x, acc) /\ Committed(x) /\ x.waiter = "none"
               /\ x.convergence = rm.convergence /\ Same(x, rm)
<1> DEFINE x == [rm EXCEPT !.waiter = "none"]
<1>1. Ledger(x, rm) /\ Same(x, rm) BY FieldLedger, WaiterSame DEF Results
<1>2. x.waiter = "none" /\ x.convergence = rm.convergence /\ x.verdict = rm.verdict
  BY SMT DEF RoomType
<1> HIDE DEF x
<1>3. Accounted(x, acc) BY <1>1, LedgerAccounted DEF Same, Accounted
<1>4. Committed(x) BY <1>1, <1>2 DEF Committed, Same
<1> QED BY <1>1, <1>2, <1>3, <1>4 DEF x

LEMMA AcceptingAccounted ==
    ASSUME NEW rm \in RoomType, NEW acc, Shape(rm), Accounted(rm, acc)
    PROVE  Accounted(rm, FALSE) /\ (~rm.wanted => Accounted(rm, TRUE))
<1>1. ~rm.wanted => rm.routed = None BY DEF Shape
<1> QED BY <1>1 DEF Accounted, Admits

\* stop() fences a room and waits for it, or finds it gone.
LEMMA DestroyMoves ==
    ASSUME IInv, HandoverInv, \A q \in Rooms : Committed(room[q]),
           NEW r \in Rooms, Destroy(r)
    PROVE  /\ \A q \in Rooms : /\ Accounted(room'[q], accepting) /\ Committed(room'[q])
                                /\ Converges(room[q], room'[q])
           /\ \A q \in Rooms \ {r} : room'[q] = room[q]
           /\ \/ waiting' = {r} /\ room'[r].waiter = "waiting"
              \/ waiting' = {} /\ ~room'[r].known
<1>0. /\ \A q \in Rooms : room[q] \in RoomType /\ Accounted(room[q], accepting) /\ Committed(room[q])
      /\ Good(room[r], accepting) /\ accepting \in BOOLEAN /\ waiting = {}
  BY DEF IInv, TypeOK, Good, HandoverInv, Destroy
<1> DEFINE y == Signal([Fence(room[r]) EXCEPT !.waiter = "waiting"], accepting)
           z == [y EXCEPT !.waiter = "none"]
<1>1. y \in RoomType
  <2>1. Fence(room[r]) \in RoomType BY <1>0, FenceType
  <2>2. [Fence(room[r]) EXCEPT !.waiter = "waiting"] \in RoomType
    BY <2>1, WaiterSame DEF Results
  <2> QED BY <1>0, <2>2, SignalType
<1>2. ASSUME room[r].known
      PROVE  /\ Accounted(y, accepting) /\ Committed(y) /\ Converges(room[r], y)
             /\ y.known => y.convergence # "none" /\ y.waiter = "waiting"
  BY <1>0, <1>2, WithdrawAccounted, WithdrawFollows
<1>3. \/ room[r].known /\ Put(r, y) /\ waiting' = {r} /\ y.waiter = "waiting"
      \/ /\ room[r].known /\ Put(r, z) /\ waiting' = {}
         /\ y.waiter # "waiting" \/ y.convergence = "none"
      \/ ~room[r].known /\ Put(r, room[r]) /\ waiting' = {}
  BY <1>0 DEF Destroy
<1> HIDE DEF y
<1>4. ASSUME Accounted(y, accepting), Committed(y)
      PROVE  /\ Accounted(z, accepting) /\ Committed(z)
             /\ z.convergence = y.convergence /\ Same(z, y)
  BY <1>1, <1>4, UnwaitedKept
<1> HIDE DEF z
<1>5. ASSUME NEW x, Put(r, x), Accounted(x, accepting), Committed(x), Converges(room[r], x)
      PROVE  /\ \A q \in Rooms : /\ Accounted(room'[q], accepting) /\ Committed(room'[q])
                                  /\ Converges(room[q], room'[q])
             /\ \A q \in Rooms \ {r} : room'[q] = room[q]
             /\ room'[r] = x
  <2>1. room'[r] = x /\ \A q \in Rooms \ {r} : room'[q] = room[q]
    BY <1>5 DEF Put, IInv, TypeOK
  <2>2. \A q \in Rooms : Converges(room[q], room[q]) BY DEF Converges
  <2> QED BY <1>0, <1>5, <2>1, <2>2
<1>6. CASE room[r].known /\ Put(r, y) /\ waiting' = {r} /\ y.waiter = "waiting"
  <2>1. Accounted(y, accepting) /\ Committed(y) /\ Converges(room[r], y) BY <1>2, <1>6
  <2>2. /\ \A q \in Rooms : /\ Accounted(room'[q], accepting) /\ Committed(room'[q])
                             /\ Converges(room[q], room'[q])
        /\ \A q \in Rooms \ {r} : room'[q] = room[q]
        /\ room'[r] = y
    BY <1>5, <1>6, <2>1
  <2>3. waiting' = {r} /\ room'[r].waiter = "waiting" BY <1>6, <2>2
  <2> QED BY <2>2, <2>3
<1>7. CASE /\ room[r].known /\ Put(r, z) /\ waiting' = {}
           /\ y.waiter # "waiting" \/ y.convergence = "none"
  <2>1. Accounted(z, accepting) /\ Committed(z) /\ z.convergence = y.convergence /\ Same(z, y)
    BY <1>2, <1>4, <1>7
  <2>2. ~z.known BY <1>2, <1>7, <2>1 DEF Same
  <2>3. Converges(room[r], z) BY <1>2, <1>7, <2>1 DEF Converges, Same
  <2> QED BY <1>5, <1>7, <2>1, <2>2, <2>3
<1>8. CASE ~room[r].known /\ Put(r, room[r]) /\ waiting' = {}
  <2>1. Converges(room[r], room[r]) BY DEF Converges
  <2> QED BY <1>0, <1>5, <1>8, <2>1
<1> QED BY <1>3, <1>6, <1>7, <1>8

\* The end of a wait, and its cancellation, only drop the waiter.
LEMMA UnwaitMoves ==
    ASSUME IInv, HandoverInv, \A q \in Rooms : Committed(room[q]),
           NEW r \in Rooms, Put(r, [room[r] EXCEPT !.waiter = "none"])
    PROVE  /\ \A q \in Rooms : /\ Accounted(room'[q], accepting) /\ Committed(room'[q])
                                /\ Converges(room[q], room'[q])
                                /\ room'[q].known = room[q].known
<1> DEFINE x == [room[r] EXCEPT !.waiter = "none"]
<1>0. \A q \in Rooms : room[q] \in RoomType /\ Accounted(room[q], accepting) /\ Committed(room[q])
  BY DEF IInv, TypeOK, HandoverInv
<1>1. /\ Accounted(x, accepting) /\ Committed(x)
      /\ x.convergence = room[r].convergence /\ Same(x, room[r])
  BY <1>0, UnwaitedKept
<1>2. \A q \in Rooms : room'[q] = IF q = r THEN x ELSE room[q] BY DEF IInv, TypeOK, Put
<1> HIDE DEF x
<1> QED BY <1>0, <1>1, <1>2 DEF Converges, Same

\* Every step keeps the account of every room, and answers its waiters as
\* AnsweredWhenConverged says.
LEMMA NextMoves ==
    ASSUME IInv, HandoverInv, \A q \in Rooms : Committed(room[q]), [Next]_vars
    PROVE  \A q \in Rooms : /\ Accounted(room'[q], accepting') /\ Committed(room'[q])
                            /\ Converges(room[q], room'[q])
<1>0. \A q \in Rooms : /\ room[q] \in RoomType /\ Shape(room[q])
                       /\ Accounted(room[q], accepting) /\ Committed(room[q])
                       /\ Converges(room[q], room[q])
  BY DEF IInv, TypeOK, HandoverInv, Converges
<1>1. CASE Presence
  <2>1. accepting' = accepting
    BY <1>1 DEF Presence, OnRoomJoined, OnRoomLeft, OnRoomEvent, OnReconnected, OwnerUnchanged
  <2> QED BY <1>1, <2>1, PresenceMoves DEF Moves
<1>2. ASSUME NEW r \in Rooms, StepTask(r)
      PROVE  \A q \in Rooms : /\ Accounted(room'[q], accepting') /\ Committed(room'[q])
                              /\ Converges(room[q], room'[q])
  <2>1. accepting' = accepting
    BY <1>2 DEF StepTask, BeginStart, StartReturns, OnEventReturns, ResyncReturns, BeginRetire,
                StopReturns, ReleaseReturns, OnStepDone, OwnerUnchanged
  <2> QED BY <1>2, <2>1, TaskMoves DEF Moves
<1>3. CASE Start
  <2>1. accepting' = TRUE /\ room' = room /\ \A q \in Rooms : ~room[q].wanted
    BY <1>3 DEF Start, IInv, Withdrawn
  <2> QED BY <1>0, <2>1, AcceptingAccounted
<1>4. CASE StartEnds \/ Stop \/ StopEnds \/ Disconnected
  <2>1. room' = room /\ (accepting' = accepting \/ accepting' = FALSE)
    BY <1>4 DEF StartEnds, Stop, StopEnds, Disconnected
  <2> QED BY <1>0, <2>1, AcceptingAccounted
<1>5. ASSUME NEW r \in Rooms, Destroy(r)
      PROVE  \A q \in Rooms : /\ Accounted(room'[q], accepting') /\ Committed(room'[q])
                              /\ Converges(room[q], room'[q])
  <2>1. accepting' = accepting BY <1>5 DEF Destroy
  <2> QED BY <1>5, <2>1, DestroyMoves
<1>6. ASSUME NEW r \in Rooms, DestroyReturns(r) \/ StopCancelled(r)
      PROVE  \A q \in Rooms : /\ Accounted(room'[q], accepting') /\ Committed(room'[q])
                              /\ Converges(room[q], room'[q])
  <2>1. accepting' = accepting /\ Put(r, [room[r] EXCEPT !.waiter = "none"])
    BY <1>6 DEF DestroyReturns, StopCancelled
  <2> QED BY <1>6, <2>1, UnwaitMoves
<1>7. CASE UNCHANGED vars BY <1>0, <1>7 DEF vars
<1> QED BY <1>1, <1>2, <1>3, <1>4, <1>5, <1>6, <1>7 DEF Next, Owner

\* Every step keeps what stop() knows of its rooms.
LEMMA NextStop ==
    ASSUME IInv, HandoverInv, StopInv, [Next]_vars
    PROVE  StopInv'
<1>0. \A q \in Rooms : Committed(room[q]) BY DEF StopInv
<1>1. \A q \in Rooms : Committed(room'[q]) BY <1>0, NextMoves
<1>2. waiting \subseteq Rooms /\ todo \subseteq Rooms BY DEF IInv, TypeOK
<1>3. ASSUME Presence \/ \E r \in Rooms : StepTask(r) PROVE StopInv'
  <2>1. \A q \in Rooms : Moves(room[q], room'[q], accepting)
    BY <1>0, <1>3, PresenceMoves, TaskMoves
  <2>2. UNCHANGED <<accepting, mode, todo, waiting, clean>>
    BY <1>3 DEF Presence, OnRoomJoined, OnRoomLeft, OnRoomEvent, OnReconnected, StepTask,
                BeginStart, StartReturns, OnEventReturns, ResyncReturns, BeginRetire,
                StopReturns, ReleaseReturns, OnStepDone, OwnerUnchanged
  <2>3. /\ waiting # {} => ~accepting
        /\ mode \in {"stopping", "disconnecting", "stopped"} => ~accepting
    BY DEF IInv, Withdrawn
  <2>4. ASSUME ~accepting, NEW q \in Rooms
        PROVE  (room'[q].known => room[q].known) /\ (Told(room[q]) => Told(room'[q]))
    BY <2>1, <2>4 DEF Moves
  <2>5. ASSUME NEW q \in waiting, room'[q].waiter \in {"graceful", "forced"} PROVE ~room'[q].known
    <3>1. Told(room[q]) /\ ~accepting /\ q \in Rooms
      BY <1>2, <2>3, <2>5 DEF StopInv, Told
    <3> QED BY <2>4, <2>5, <3>1 DEF Told
  <2> QED BY <1>1, <2>2, <2>3, <2>4, <2>5 DEF StopInv
<1>4. CASE Start \/ StartEnds \/ Stop \/ StopEnds \/ Disconnected
  <2>1. waiting' = waiting /\ room' = room
    BY <1>4 DEF Start, StartEnds, Stop, StopEnds, Disconnected
  <2>2. CASE Start BY <1>1, <2>1, <2>2 DEF Start, StopInv
  <2>3. CASE StartEnds BY <1>1, <2>1, <2>3 DEF StartEnds, StopInv
  <2>4. CASE Stop BY <1>1, <2>1, <2>4 DEF Stop, StopInv
  <2>5. CASE StopEnds BY <1>1, <2>1, <2>5 DEF StopEnds, StopInv
  <2>6. CASE Disconnected BY <1>1, <2>1, <2>6 DEF Disconnected, StopInv
  <2> QED BY <1>4, <2>2, <2>3, <2>4, <2>5, <2>6
<1>5. ASSUME NEW r \in Rooms, Destroy(r) PROVE StopInv'
  <2>1. /\ \A q \in Rooms \ {r} : room'[q] = room[q]
        /\ \/ waiting' = {r} /\ room'[r].waiter = "waiting"
           \/ waiting' = {} /\ ~room'[r].known
    BY <1>0, <1>5, DestroyMoves
  <2>2. waiting = {} /\ todo' = todo \ {r} /\ mode' = mode /\ mode = "stopping" /\ clean' = clean
    BY <1>5 DEF Destroy
  <2>3. ASSUME clean, NEW q \in Rooms \ (todo' \cup waiting') PROVE ~room'[q].known
    <3>1. CASE q = r BY <2>1, <2>3, <3>1
    <3>2. CASE q # r
      <4>1. q \in Rooms \ (todo \cup waiting) /\ room'[q] = room[q] BY <2>1, <2>2, <2>3, <3>2
      <4> QED BY <2>2, <2>3, <4>1 DEF StopInv
    <3> QED BY <3>1, <3>2
  <2> QED BY <1>1, <2>1, <2>2, <2>3 DEF StopInv
<1>6. ASSUME NEW r \in Rooms, DestroyReturns(r) PROVE StopInv'
  <2>1. /\ r \in waiting /\ room[r].waiter \in {"graceful", "forced", "error"} /\ waiting' = {}
        /\ clean' = (clean /\ room[r].waiter # "error") /\ todo' = todo /\ mode' = mode
        /\ Put(r, [room[r] EXCEPT !.waiter = "none"])
    BY <1>6 DEF DestroyReturns
  <2>2. \A q \in Rooms : room'[q].known = room[q].known BY <1>0, <2>1, UnwaitMoves
  <2>3. waiting = {r} BY <2>1 DEF StopInv
  <2>4. clean' => ~room[r].known BY <2>1 DEF StopInv
  <2>5. mode = "stopping" BY <2>1 DEF IInv, Withdrawn
  <2>6. ASSUME clean', NEW q \in Rooms \ todo PROVE ~room'[q].known
    <3>1. CASE q = r BY <2>2, <2>4, <2>6, <3>1
    <3>2. CASE q # r
      <4>1. q \in Rooms \ (todo \cup waiting) BY <2>3, <2>6, <3>2
      <4>2. ~room[q].known BY <2>1, <2>5, <2>6, <4>1 DEF StopInv
      <4> QED BY <2>2, <4>1, <4>2
    <3> QED BY <3>1, <3>2
  <2> QED BY <1>1, <2>1, <2>5, <2>6 DEF StopInv
<1>7. ASSUME NEW r \in Rooms, StopCancelled(r) PROVE StopInv'
  BY <1>1, <1>7 DEF StopCancelled, StopInv
<1>8. CASE UNCHANGED vars BY <1>8 DEF vars, StopInv
<1> QED BY <1>3, <1>4, <1>5, <1>6, <1>7, <1>8 DEF Next, Owner

\* An empty table owes nothing.
LEMMA InitLedger == ASSUME Init PROVE HandoverInv /\ StopInv
<1>1. \A r \in Rooms : room[r] = NoRoom BY DEF Init
<1>2. Accounted(NoRoom, TRUE)
  <2>1. NoRoom.execution = None /\ NoRoom.wanted = FALSE /\ NoRoom.routed = None
        /\ NoRoom.held = <<>> /\ NoRoom.arrivals = 0
    BY DEF NoRoom
  <2>2. Handed(NoRoom) = 0 BY <2>1 DEF Handed, BuiltNow
  <2> QED BY <2>1, <2>2 DEF Accounted, Admits
<1>3. Committed(NoRoom) BY DEF NoRoom, Committed
<1> QED BY <1>1, <1>2, <1>3 DEF Init, HandoverInv, StopInv

\* Both invariants hold in every reachable state.
THEOREM LedgersInductive == Spec => [](HandoverInv /\ StopInv)
<1>1. Init => HandoverInv /\ StopInv BY InitLedger
<1>2. IInv /\ HandoverInv /\ StopInv /\ [Next]_vars => HandoverInv' /\ StopInv'
  <2>1. ASSUME IInv, HandoverInv, StopInv, [Next]_vars PROVE HandoverInv'
    <3>1. \A q \in Rooms : Committed(room[q]) BY <2>1 DEF StopInv
    <3>2. \A q \in Rooms : Accounted(room'[q], accepting') BY <2>1, <3>1, NextMoves
    <3> QED BY <3>2 DEF HandoverInv
  <2> QED BY <2>1, NextStop
<1> QED BY <1>1, <1>2, Inductive, PTL DEF Spec

\* A routed execution has had every event of its admission, once and in arrival
\* order, unless a loss was logged: whatever joins, leaves, failed starts and
\* full queues came between.
THEOREM HandoverComplete == Spec => []CompleteHandover
<1>1. ASSUME IInv, HandoverInv, NEW r \in Rooms, room[r].routed # None, ~room[r].lossy
      PROVE  /\ Len(room[r].inbox) = room[r].arrivals
             /\ \A i \in 1..Len(room[r].inbox) : room[r].inbox[i].n = i
  <2>1. room[r] \in RoomType /\ Shape(room[r]) BY <1>1 DEF IInv, TypeOK
  <2>2. BuiltNow(room[r]) /\ room[r].held = <<>> /\ room[r].batch = <<>>
    BY <1>1, <2>1, SMT DEF Shape, Starting, BuiltNow
  <2>3. InOrder(room[r]) BY <1>1 DEF HandoverInv, Accounted
  <2>4. Len(room[r].inbox) \in Nat /\ room[r].arrivals \in Nat BY <2>1, SMT DEF RoomType
  <2>5. Len(room[r].held) = 0 /\ Len(room[r].batch) = 0 BY <2>2, SMT
  <2>6. Len(room[r].inbox) + Len(room[r].batch) + Len(room[r].held) = room[r].arrivals
    BY <2>2, <2>3 DEF InOrder, Handed
  <2>7. Len(room[r].inbox) + 0 + 0 = room[r].arrivals BY <2>5, <2>6
  <2>8. \A a, b \in Nat : a + 0 + 0 = b => a = b BY SMT
  <2>9. Len(room[r].inbox) = room[r].arrivals BY <2>4, <2>7, <2>8
  <2>10. ASSUME NEW i \in 1..Len(room[r].inbox) PROVE room[r].inbox[i].n = i
    <3>1. room[r].inbox[i].n = 0 + i BY <2>2, <2>3 DEF InOrder, Numbered
    <3>2. 0 + i = i BY SMT
    <3> QED BY <3>1, <3>2
  <2> QED BY <2>9, <2>10
<1>2. IInv /\ HandoverInv => CompleteHandover BY <1>1 DEF CompleteHandover
<1> QED BY <1>2, Inductive, LedgersInductive, PTL

\* A stop() that raised nothing has destroyed everything: no execution is live
\* and no room is tracked, though joins, failed starts and late callbacks ran
\* while it waited.
THEOREM CleanStop == Spec => []CleanStopOwnsNothing
<1>1. IInv /\ StopInv => CleanStopOwnsNothing
  BY DEF IInv, Shape, StopInv, CleanStopOwnsNothing
<1> QED BY <1>1, Inductive, LedgersInductive, PTL

\* No waiter is told of an end while a step is in flight: an answer finds the
\* room serving or gone, or reports a step that failed with its execution owned.
THEOREM AnswersFinal == Spec => AnsweredWhenConverged
<1>1. IInv /\ HandoverInv /\ StopInv /\ [Next]_vars =>
        [\A r \in Rooms :
           /\ room[r].convergence # "none" /\ room'[r].convergence = "none"
           /\ ~room'[r].tripped
           => \/ room'[r].state = "SERVING" /\ room'[r].routed = room'[r].execution
              \/ ~room'[r].known /\ room'[r].live = {}
              \/ room[r].done = "failed" /\ room'[r].state = "IDLE"
                  /\ room'[r].execution = room[r].execution]_vars
  <2> SUFFICES ASSUME IInv, HandoverInv, StopInv, [Next]_vars
               PROVE  \A r \in Rooms : Converges(room[r], room'[r])
    BY DEF Converges
  <2>1. \A q \in Rooms : Committed(room[q]) BY DEF StopInv
  <2> QED BY <2>1, NextMoves
<1> QED BY <1>1, Inductive, LedgersInductive, PTL DEF Spec, AnsweredWhenConverged

=============================================================================
