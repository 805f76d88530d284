------------------------------ MODULE Controls ------------------------------
(***************************************************************************)
(* AgentRuntime.handle_control (runtime/runtime.py) with the routing and   *)
(* deduplication of runtime/control.py: the hook the control lane of       *)
(* module Link runs, one signal at a time and in arrival order.  The       *)
(* platform may deliver a signal again at any later time; rooms are routed *)
(* and released while a fan-out awaits an adapter.                         *)
(***************************************************************************)
EXTENDS Naturals, Sequences, SequencesExt, FiniteSets

CONSTANTS
    Rooms,
    Cids,            \* correlation ids
    NoCid,           \* a signal without one
    Window,          \* MAX_SEEN_CONTROL_IDS (256 in the code)
    MaxPushes,       \* bound: signals delivered, copies included
    MaxRoutes,       \* bound: executions created per room
    SentModes,       \* the modes and the addressees the platform uses: a room,
    SentTo,          \*   "agent", or "nothing" (neither a room nor that scope)
    AdapterMayFail   \* the adapter's on_interrupt may raise

ASSUME ControlsAssumption ==
    /\ Window \in Nat \ {0} /\ MaxPushes \in Nat /\ MaxRoutes \in Nat \ {0}
    /\ SentModes \subseteq {"interrupt", "stop", "play"}
    /\ SentTo \subseteq Rooms \cup {"agent", "nothing"}
    /\ NoCid \notin Cids /\ AdapterMayFail \in BOOLEAN

VARIABLES
    signals,  \* the signals the platform sent so far; a copy repeats one
    pushes,   \* how many deliveries that took
    lane,     \* arrived and not yet handled
    epoch,    \* executions created for each room so far
    routed,   \* rooms in AgentRuntime.executions
    stopped,  \* ExecutionContext._stopped of each room's newest execution
    seen,     \* ControlDeduplicator._seen, oldest first
    left,     \* executions the running fan-out has still to reach
    now,      \* the signal being applied, <<>> when the hook is idle
    recorded, \* history: ids in the order they were recorded
    reached,  \* history: ids that were applied to a room
    missed    \* history: executions a fan-out that was not cancelled skipped

vars == <<signals, pushes, lane, epoch, routed, stopped, seen, left, now, recorded,
          reached, missed>>

Signals == [cid : Cids \cup {NoCid}, mode : SentModes, to : SentTo]
Executions == [room : Rooms, epoch : 1..MaxRoutes]

Init ==
    /\ signals = {} /\ pushes = 0 /\ lane = <<>>
    /\ epoch = [r \in Rooms |-> 0] /\ routed = {}
    /\ stopped = [r \in Rooms |-> FALSE]
    /\ seen = <<>> /\ left = {} /\ now = <<>>
    /\ recorded = <<>> /\ reached = {} /\ missed = {}

(* control_targets *)
ControlTargets(s) ==
    {[room |-> r, epoch |-> epoch[r]] :
        r \in {q \in routed : s.to = "agent" \/ s.to = q}}

(* first_sighting's test *)
FirstSighting(cid) == cid = NoCid \/ ~Contains(seen, cid)

(* mutant: the bound is enforced one id too early *)
RememberedEarly(ids, cid) ==
    IF Len(ids) + 1 >= Window THEN Tail(Append(ids, cid)) ELSE Append(ids, cid)

(* first_sighting's bookkeeping: the oldest insertion is evicted *)
Remembered(ids, cid) ==
    IF Len(ids) + 1 > Window THEN Tail(Append(ids, cid)) ELSE Append(ids, cid)

(* apply_control to one execution; a replaced execution takes its own stop *)
(* with it                                                                 *)
Apply(mode, e) ==
    stopped' = IF mode = "interrupt" \/ e.epoch # epoch[e.room] THEN stopped
               ELSE [stopped EXCEPT ![e.room] = (mode = "stop")]

(* the hook after the synchronous part of apply_control for e: it awaits   *)
(* the adapter or the resync with the others still to reach, or raises     *)
Continue(s, e, targets) ==
    /\ Apply(s.mode, e)
    /\ \/ /\ left' = targets \ {e} /\ UNCHANGED missed
       \/ /\ AdapterMayFail /\ s.mode # "play"
          /\ left' = {} /\ missed' = missed \cup (targets \ {e})
    /\ now' = IF left' = {} THEN <<>> ELSE <<s>>

(* mutant: the id is recorded before the targets are known *)
HandleControlRecordsFirst ==
    /\ now = <<>> /\ lane # <<>> /\ lane' = Tail(lane)
    /\ LET s == Head(lane)
           targets == ControlTargets(s)
           first == FirstSighting(s.cid)
       IN /\ IF s.cid # NoCid /\ first
             THEN seen' = Remembered(seen, s.cid) /\ recorded' = Append(recorded, s.cid)
             ELSE UNCHANGED <<seen, recorded>>
          /\ IF targets # {} /\ first
             THEN /\ reached' = reached \cup {s.cid}
                  /\ \E e \in targets : Continue(s, e, targets)
             ELSE UNCHANGED <<stopped, left, now, reached, missed>>
    /\ UNCHANGED <<signals, pushes, epoch, routed>>

(* handle_control up to its first await: no target, or a duplicate, ends it *)
HandleControl ==
    /\ now = <<>> /\ lane # <<>> /\ lane' = Tail(lane)
    /\ LET s == Head(lane)
           targets == ControlTargets(s)
           first == FirstSighting(s.cid)
       IN \/ /\ targets = {}
             /\ UNCHANGED <<stopped, seen, left, now, recorded, reached, missed>>
          \/ /\ targets # {} /\ ~first
             /\ UNCHANGED <<stopped, seen, left, now, recorded, reached, missed>>
          \/ /\ targets # {} /\ first
             /\ IF s.cid = NoCid THEN UNCHANGED <<seen, recorded>>
                ELSE /\ seen' = Remembered(seen, s.cid)
                     /\ recorded' = Append(recorded, s.cid)
             /\ reached' = reached \cup {s.cid}
             /\ \E e \in targets : Continue(s, e, targets)
    /\ UNCHANGED <<signals, pushes, epoch, routed>>

(* the fan-out goes on with the next execution of its snapshot *)
FanOut ==
    /\ now # <<>>
    /\ \E e \in left : Continue(now[1], e, left)
    /\ UNCHANGED <<signals, pushes, lane, epoch, routed, seen, recorded, reached>>

(* external: the platform sends a signal, or one it already sent again *)
Push ==
    /\ pushes < MaxPushes /\ pushes' = pushes + 1
    /\ \E s \in Signals :
          /\ \A t \in signals : t.cid = s.cid /\ s.cid # NoCid => t = s
          /\ signals' = signals \cup {s}
          /\ lane' = Append(lane, s)
    /\ UNCHANGED <<epoch, routed, stopped, seen, left, now, recorded, reached,
                   missed>>

(* RoomExecutions routes a new execution, which starts unpaused *)
Route(r) ==
    /\ r \notin routed /\ epoch[r] < MaxRoutes
    /\ epoch' = [epoch EXCEPT ![r] = @ + 1]
    /\ routed' = routed \cup {r}
    /\ stopped' = [stopped EXCEPT ![r] = FALSE]
    /\ UNCHANGED <<signals, pushes, lane, seen, left, now, recorded, reached, missed>>

(* ... and releases it *)
Release(r) ==
    /\ r \in routed /\ routed' = routed \ {r}
    /\ UNCHANGED <<signals, pushes, lane, epoch, stopped, seen, left, now, recorded,
                   reached, missed>>

(* BandLink._cancel_control_lane: the running hook and those behind it *)
CancelLane ==
    /\ now # <<>> \/ lane # <<>>
    /\ now' = <<>> /\ left' = {} /\ lane' = <<>>
    /\ UNCHANGED <<signals, pushes, epoch, routed, stopped, seen, recorded, reached,
                   missed>>

Next ==
    \/ HandleControl \/ FanOut \/ Push \/ CancelLane
    \/ \E r \in Rooms : Route(r) \/ Release(r)

(* correlation ids are interchangeable *)
CidSymmetry == Permutations(Cids)

Spec == Init /\ [][Next]_vars

-----------------------------------------------------------------------------
(* Type invariant; the deduplicator holds at most Window distinct ids. *)
ControlsTypeOK ==
    /\ signals \subseteq Signals
    /\ epoch \in [Rooms -> 0..MaxRoutes] /\ routed \subseteq Rooms
    /\ stopped \in [Rooms -> BOOLEAN]
    /\ Len(seen) <= Window /\ IsInjective(seen)
    /\ left \subseteq Executions
    /\ now = <<>> \/ now[1] \in Signals

(* The platform's copies are harmless within the window: an id takes       *)
(* effect again only after Window other ids took effect in between         *)
(* (ControlDeduplicator.first_sighting).                                   *)
NoReplayWithinWindow ==
    \A i, j \in DOMAIN recorded :
        i < j /\ recorded[i] = recorded[j] => j - i > Window

(* A signal that reached no room is not recorded, so that a later copy     *)
(* still applies once the room is routed (handle_control).                 *)
UnreachedIsNotSeen == \A i \in DOMAIN seen : seen[i] \in reached

(* "fan out to all executions": a signal whose hook ran to its end, raised *)
(* or not, reached every execution it was addressed to.                    *)
FanOutReachesAll == missed = {}

-----------------------------------------------------------------------------
(* The inductive invariant behind NoReplayWithinWindow and                 *)
(* UnreachedIsNotSeen                                                      *)

\* What is remembered is the newest end of what was recorded, and as much of it
\* as the window holds.
SeenIsRecent ==
    /\ seen \in Seq(Cids) /\ recorded \in Seq(Cids)
    /\ Len(seen) <= Len(recorded)
    /\ Len(seen) = Window \/ Len(seen) = Len(recorded)
    /\ Len(seen) <= Window
    /\ \A i \in 1..Len(seen) : seen[i] = recorded[Len(recorded) - Len(seen) + i]

\* The hook works on signals that were sent, and on executions that were routed.
HookFits ==
    /\ lane \in Seq(Signals)
    /\ \A r \in routed : epoch[r] >= 1

IInv ==
    /\ ControlsTypeOK /\ SeenIsRecent /\ HookFits
    /\ NoReplayWithinWindow /\ UnreachedIsNotSeen
=============================================================================
