------------------------------- MODULE Presence -------------------------------
(***************************************************************************)
(* RoomPresence (runtime/presence.py) over the link's subscriptions: which  *)
(* rooms the agent is admitted to, and what its owner is told about them.   *)
(*                                                                         *)
(* Five coroutines meet here: start()/stop(), the consumer of the link's    *)
(* event queue, one re-join task per room whose join failed, the link's     *)
(* reconnect hook, and the wire operations of Subscriptions.tla, of which   *)
(* each room has one at a time (caller k works on key k).  The roster       *)
(* (band_sdk_core) is modelled from how this code uses it.                  *)
(***************************************************************************)
EXTENDS Subscriptions, Integers

CONSTANTS
    AgentRooms,   \* the agent_rooms topic
    MaxRetries,   \* Len(JOIN_RETRY_DELAYS_S)
    QueueCap,     \* maxsize of the link's event queue
    MaxStarts,    \* bound: start() calls
    MaxChanges,   \* bound: membership changes on the platform
    MaxFaults     \* bound: failed listings, joins and leaves

ASSUME PresenceAssumption ==
    /\ Callers = Keys /\ AgentTopics = {AgentRooms}
    /\ {QueueCap, MaxStarts, MaxChanges, MaxFaults} \subseteq Nat
    /\ MaxRetries \in Nat \ {0}

VARIABLES
    phase,     \* where start()/stop() is
    starts,    \* start() calls so far
    roster,    \* RoomRoster: the membership of each room
    adm,       \* the admission that holds each room's ticket
    callback,  \* the coroutines whose on_room_joined is running, per room
    retry,     \* _join_retries: the re-join task of each room
    consumer,  \* the task over _consume_events
    leaving,   \* rooms _leave_and_notify is working on
    queue,     \* BandLink._event_queue
    member,    \* platform: rooms the agent participates in
    changes,   \* membership changes so far
    faults,    \* faults so far
    announced, \* on_room_joined calls minus on_room_left calls, per room
    lost,      \* ghost: rooms with a lost event that no listing has made up for
    ghost      \* gaveUp: rooms whose re-joins ran out, or whose failed join started none
               \* since the last one is still in on_room_joined; unsettled: rooms whose
               \* re-join woke before their leave began, or whose leave stop() cancelled,
               \* until a later admission or leave puts them right; rejected: rooms whose
               \* rejoin a reconnect's server refused, until they are joined again;
               \* missed: how many leaves of each room stop() cancelled unannounced

presVars == <<phase, starts, roster, adm, callback, retry, consumer, leaving, queue, member,
              changes, faults, announced, lost, ghost>>
vars == <<subVars, presVars>>

NoAdm == [stage |-> "none", by |-> "nobody"]
NoRetry == [pc |-> "none", used |-> 0, cancel |-> FALSE]
Consumer(pc, k) == [pc |-> pc, key |-> k, rooms |-> {}]
Event(kind, k) == [kind |-> kind, room |-> k]

Init ==
    /\ SubInit
    /\ phase = "down" /\ starts = 0
    /\ roster = [k \in Rooms |-> "unadmitted"]
    /\ adm = [k \in Rooms |-> NoAdm]
    /\ callback = [k \in Rooms |-> {}]
    /\ retry = [k \in Rooms |-> NoRetry]
    /\ consumer = Consumer("off", NoKey)
    /\ leaving = [k \in Rooms |-> "no"]
    /\ queue = <<>>
    /\ member \in SUBSET Rooms
    /\ changes = 0 /\ faults = 0
    /\ announced = [k \in Rooms |-> 0]
    /\ lost = {}
    /\ ghost = [gaveUp |-> {}, unsettled |-> {}, rejected |-> {},
                missed |-> [k \in Rooms |-> 0]]

-----------------------------------------------------------------------------
(* The event queue and the platform                                         *)

\* A coroutine whose wire operation is over.  The event loop resumes it before it
\* polls the network and its timers again, so neither comes in between.
Resumable ==
    \E k \in Rooms :
        \/ call[k].op = "idle" /\ \/ adm[k].stage \in {"sub", "cleaning"}
                                  \/ leaving[k] = "wait"
                                  \/ consumer.pc = "leave" /\ consumer.key = k /\ phase = "up"
        \/ adm[k].stage \in {"denied", "cleaned"} \/ leaving[k] = "left"
        \/ consumer.pc = "left" /\ consumer.key = k /\ phase = "up"

\* _queue_event: a full queue drops the event.
QueueEvent(e) ==
    /\ queue' = IF Len(queue) < QueueCap THEN Append(queue, e) ELSE queue
    /\ lost' = IF Len(queue) < QueueCap THEN lost
               ELSE IF e.kind = "reconnected" THEN Rooms ELSE lost \cup {e.room}

\* A listing makes up for what was lost, unless an older event of the room is still
\* in the queue and will be handled after it.
StillLost == {k \in lost : \E i \in DOMAIN queue : queue[i].room = k}

\* The platform changes a membership; the push reaches the link only over a live
\* agent_rooms topic.
MembershipChanges(k) ==
    /\ ~Resumable
    /\ changes < MaxChanges /\ changes' = changes + 1
    /\ member' = IF k \in member THEN member \ {k} ELSE member \cup {k}
    /\ IF online /\ held[AgentRooms] # {}
       THEN QueueEvent(Event(IF k \in member THEN "removed" ELSE "added", k))
       ELSE lost' = lost \cup {k} /\ queue' = queue
    /\ UNCHANGED <<subVars, phase, starts, roster, adm, callback, retry, consumer, leaving,
                   faults, announced, ghost>>

Fault == faults < MaxFaults /\ faults' = faults + 1

\* _running: start() is under way, or the consumer task is not done.
Running == phase \in {"agent", "list", "startup"} \/ consumer.pc # "off"

-----------------------------------------------------------------------------
(* Admission: _join_room and _complete_room_admission                       *)

\* A coroutine of the owner by has an admission or a callback to finish.
Busy(by) == \E k \in Rooms : adm[k].by = by \/ by \in callback[k]

\* Mutant of Claimable: a room another admission holds is claimed again.
ClaimAny(k) == roster[k] # "admitted"

\* begin_room_admission gives a ticket for an unadmitted room only.
Claimable(k) == roster[k] = "unadmitted"

\* subscribe_room, up to its first await, and unsubscribe_room; both return at once
\* when they may not proceed.
StartSubscribe(k) ==
    IF MaySubscribe(k) THEN Subscribe(k, k) ELSE UNCHANGED subVars

StartUnsubscribe(k) ==
    IF MayUnsubscribe(k) THEN Unsubscribe(k, k) ELSE UNCHANGED subVars

Subscribing(k, by) == [stage |-> IF MaySubscribe(k) THEN "sub" ELSE "denied", by |-> by]

\* _retry_join_later
RetryJoinLater(k) ==
    IF Running /\ retry[k].pc = "none" THEN [NoRetry EXCEPT !.pc = "sleep"] ELSE retry[k]

\* The re-join task's loop after an attempt that did not join.
NextAttempt(k) ==
    IF retry[k].used < MaxRetries THEN [retry[k] EXCEPT !.pc = "sleep"] ELSE NoRetry

\* record_room_admission takes the ticket while the roster still has it outstanding.
Outstanding(k) == roster[k] = "admitting"

\* What a join that succeeded puts right: the room is on the wire again, and a room of
\* the platform that nobody is leaving is where it should be.
SettledBy(k) ==
    [ghost EXCEPT
        !.rejected = @ \ {k},
        !.unsettled = IF k \in member /\ leaving[k] = "no"
                         /\ ~(consumer.pc \in {"unretry", "leave", "left"} /\ consumer.key = k)
                      THEN @ \ {k} ELSE @]

\* subscribe_room returned: the ticket is resolved by whether the room is really
\* subscribed; a failed join is retried in the background, a successful one is
\* announced, and one whose ticket went stale meanwhile is unsubscribed again (a branch
\* the code keeps and, by AnnouncedOnce, no state takes).
SubscribeReturned(k) ==
    /\ adm[k].stage = "denied" \/ (adm[k].stage = "sub" /\ call[k].op = "idle")
    /\ IF tracker[k] = "joined" /\ ~Outstanding(k)
       THEN /\ StartUnsubscribe(k)
            /\ adm' = [adm EXCEPT ![k].stage = IF MayUnsubscribe(k) THEN "cleaning"
                                                                   ELSE "cleaned"]
            /\ UNCHANGED <<roster, announced, callback, retry, ghost>>
       ELSE /\ adm' = [adm EXCEPT ![k] = NoAdm]
            /\ UNCHANGED subVars
            /\ IF tracker[k] = "joined"
               THEN /\ roster' = [roster EXCEPT ![k] = "admitted"]
                    /\ announced' = [announced EXCEPT ![k] = @ + 1]
                    /\ callback' = [callback EXCEPT ![k] = @ \cup {adm[k].by}]
                    /\ ghost' = SettledBy(k)
                    /\ UNCHANGED retry
               ELSE /\ roster' = IF Outstanding(k) THEN [roster EXCEPT ![k] = "unadmitted"]
                                 ELSE roster
                    /\ retry' = [retry EXCEPT ![k] = IF adm[k].by = "retry" THEN NextAttempt(k)
                                                                            ELSE RetryJoinLater(k)]
                    /\ ghost' = IF (IF adm[k].by = "retry" THEN retry[k].used = MaxRetries
                                                           ELSE retry[k].pc = "admit")
                                THEN [ghost EXCEPT !.gaveUp = @ \cup {k}] ELSE ghost
                    /\ UNCHANGED <<announced, callback>>
    /\ UNCHANGED <<phase, starts, consumer, leaving, queue, member, changes, faults, lost>>

\* The task running an admission has been cancelled.
Cancelled(k) ==
    \/ adm[k].by = "consumer" /\ phase = "stopping"
    \/ adm[k].by = "retry" /\ retry[k].cancel

\* on_room_joined returned, or was cancelled; a re-join task is then done.
JoinedCallbackEnds(k) ==
    \E by \in callback[k] :
        /\ callback' = [callback EXCEPT ![k] = @ \ {by}]
        /\ retry' = IF by = "retry" THEN [retry EXCEPT ![k] = NoRetry] ELSE retry
        /\ UNCHANGED <<subVars, phase, starts, roster, adm, consumer, leaving, queue,
                       member, changes, faults, announced, lost, ghost>>

\* Cancelled inside subscribe_room (_subscribe): what reached the server is
\* unknown, so the room is unsubscribed before the cancellation goes on.
CancelAdmission(k) ==
    /\ adm[k].stage = "sub" /\ Cancelled(k) /\ call[k].op # "idle"
    /\ CancelSubscribe(k)
    /\ adm' = [adm EXCEPT ![k].stage = "cleanup"]
    /\ UNCHANGED <<callback, phase, starts, roster, retry, consumer, leaving, queue, member,
                   changes, faults, announced, lost, ghost>>

CleanUp(k) ==
    /\ adm[k].stage = "cleanup"
    /\ StartUnsubscribe(k)
    /\ adm' = [adm EXCEPT ![k].stage = IF MayUnsubscribe(k) THEN "cleaning" ELSE "cleaned"]
    /\ UNCHANGED <<callback, phase, starts, roster, retry, consumer, leaving, queue, member,
                   changes, faults, announced, lost, ghost>>

\* Mutant of CleanedUp: the cancelled task stays in _join_retries.
CleanedUpKeepsTask(k) ==
    /\ adm[k].stage = "cleaned" \/ (adm[k].stage = "cleaning" /\ call[k].op = "idle")
    /\ roster' = IF Outstanding(k) THEN [roster EXCEPT ![k] = "unadmitted"] ELSE roster
    /\ adm' = [adm EXCEPT ![k] = NoAdm]
    /\ UNCHANGED <<subVars, callback, phase, starts, retry, consumer, leaving, queue, member, changes,
                   faults, announced, lost, ghost>>

\* The finally clause rolls a room whose ticket is outstanding back to Unadmitted; the
\* task of a re-join ends if it was cancelled, and goes on after a stale ticket.
CleanedUp(k) ==
    /\ adm[k].stage = "cleaned" \/ (adm[k].stage = "cleaning" /\ call[k].op = "idle")
    /\ roster' = IF Outstanding(k) THEN [roster EXCEPT ![k] = "unadmitted"] ELSE roster
    /\ adm' = [adm EXCEPT ![k] = NoAdm]
    /\ retry' = IF adm[k].by # "retry" THEN retry
                ELSE [retry EXCEPT ![k] = IF Cancelled(k) THEN NoRetry ELSE NextAttempt(k)]
    /\ UNCHANGED <<subVars, callback, phase, starts, consumer, leaving, queue, member, changes,
                   faults, announced, lost, ghost>>

\* _retry_join woke: a room admitted or claimed meanwhile ends the task.
RetryWakes(k) ==
    /\ ~Resumable
    /\ retry[k].pc = "sleep" /\ ~retry[k].cancel
    /\ IF Claimable(k)
       THEN /\ roster' = [roster EXCEPT ![k] = "admitting"]
            /\ adm' = [adm EXCEPT ![k] = Subscribing(k, "retry")]
            /\ retry' = [retry EXCEPT ![k].pc = "admit", ![k].used = @ + 1]
            /\ ghost' = IF leaving[k] = "begin" THEN [ghost EXCEPT !.unsettled = @ \cup {k}]
                        ELSE ghost
            /\ StartSubscribe(k)
       ELSE /\ retry' = [retry EXCEPT ![k] = NoRetry]
            /\ UNCHANGED <<subVars, roster, adm, callback, ghost>>
    /\ UNCHANGED <<callback, phase, starts, consumer, leaving, queue, member, changes, faults,
                   announced, lost>>

\* A sleeping re-join task is cancelled.
RetryCancelled(k) ==
    /\ retry[k].pc = "sleep" /\ retry[k].cancel
    /\ retry' = [retry EXCEPT ![k] = NoRetry]
    /\ UNCHANGED <<subVars, phase, starts, roster, adm, callback, consumer, leaving, queue, member,
                   changes, faults, announced, lost, ghost>>

-----------------------------------------------------------------------------
(* Leaving: _leave_and_notify, one coroutine per room                       *)

LeaveOneRoom(k) ==
    /\ leaving[k] = "begin"
    /\ StartUnsubscribe(k)
    /\ leaving' = [leaving EXCEPT ![k] = IF MayUnsubscribe(k) THEN "wait" ELSE "left"]
    /\ UNCHANGED <<phase, starts, roster, adm, callback, retry, consumer, queue, member, changes,
                   faults, announced, lost, ghost>>

LeftCallback(k) ==
    /\ leaving[k] = "left" \/ (leaving[k] = "wait" /\ call[k].op = "idle")
    /\ leaving' = [leaving EXCEPT ![k] = "no"]
    /\ announced' = [announced EXCEPT ![k] = @ - 1]
    /\ UNCHANGED <<subVars, phase, starts, roster, adm, callback, retry, consumer, queue, member,
                   changes, faults, lost, ghost>>

-----------------------------------------------------------------------------
(* The consumer: _on_platform_event                                         *)

Take(kind) == consumer.pc = "idle" /\ phase = "up" /\ queue # <<>> /\ Head(queue).kind = kind

\* _handle_room_added: claim and subscribe, or ignore a room already claimed.
HandleRoomAdded ==
    LET k == Head(queue).room IN
    /\ Take("added")
    /\ queue' = Tail(queue)
    /\ IF Claimable(k)
       THEN /\ roster' = [roster EXCEPT ![k] = "admitting"]
            /\ adm' = [adm EXCEPT ![k] = Subscribing(k, "consumer")]
            /\ consumer' = Consumer("admit", k)
            /\ ghost' = [ghost EXCEPT !.gaveUp = @ \ {k}]
            /\ StartSubscribe(k)
       ELSE UNCHANGED <<subVars, roster, adm, callback, consumer, ghost>>
    /\ UNCHANGED <<callback, phase, starts, retry, leaving, member, changes, faults, announced, lost>>

\* The admissions the consumer awaits are over.
Admitted ==
    /\ consumer.pc \in {"admit", "admitall"} /\ phase = "up"
    /\ ~Busy("consumer")
    /\ consumer' = Consumer("idle", NoKey)
    /\ UNCHANGED <<subVars, phase, starts, roster, adm, callback, retry, leaving, queue, member,
                   changes, faults, announced, lost, ghost>>

\* _handle_room_left, to its first await: the room's re-join task is cancelled.
HandleRoomLeft ==
    LET k == Head(queue).room IN
    /\ Take("removed")
    /\ queue' = Tail(queue)
    /\ retry' = IF retry[k].pc = "none" THEN retry ELSE [retry EXCEPT ![k].cancel = TRUE]
    /\ consumer' = Consumer("unretry", k)
    /\ UNCHANGED <<subVars, phase, starts, roster, adm, callback, leaving, member, changes, faults,
                   announced, lost, ghost>>

\* The cancelled task is done: unsubscribe.
RetryGone ==
    LET k == consumer.key IN
    /\ consumer.pc = "unretry" /\ phase = "up" /\ (retry[k].cancel => retry[k].pc = "none")
    /\ StartUnsubscribe(k)
    /\ consumer' = Consumer(IF MayUnsubscribe(k) THEN "leave" ELSE "left", k)
    /\ UNCHANGED <<phase, starts, roster, adm, callback, retry, leaving, queue, member, changes,
                   faults, announced, lost, ghost>>

\* record_room_removed, and on_room_left for a room that was admitted.
RoomLeft ==
    LET k == consumer.key IN
    /\ consumer.pc = "left" \/ (consumer.pc = "leave" /\ call[k].op = "idle")
    /\ phase = "up"
    /\ consumer' = Consumer("idle", NoKey)
    /\ roster' = [roster EXCEPT ![k] = "unadmitted"]
    /\ announced' = IF roster[k] = "admitted" THEN [announced EXCEPT ![k] = @ - 1] ELSE announced
    /\ ghost' = [ghost EXCEPT !.gaveUp = @ \ {k},
                              !.unsettled = IF k \in member THEN @ ELSE @ \ {k}]
    /\ UNCHANGED <<subVars, phase, starts, adm, callback, retry, leaving, queue, member, changes,
                   faults, lost>>

\* _handle_reconnect starts listing the agent's rooms.
HandleReconnect ==
    /\ Take("reconnected")
    /\ queue' = Tail(queue)
    /\ consumer' = Consumer("list", NoKey)
    /\ UNCHANGED <<subVars, phase, starts, roster, adm, callback, retry, leaving, member, changes,
                   faults, announced, lost, ghost>>

\* The listing failed: no reconciliation, only on_reconnected.
ReconnectListFails ==
    /\ ~Resumable
    /\ consumer.pc = "list" /\ phase = "up" /\ Fault
    /\ consumer' = Consumer("idle", NoKey)
    /\ lost' = Rooms
    /\ UNCHANGED <<subVars, phase, starts, roster, adm, callback, retry, leaving, queue, member,
                   changes, announced, ghost>>

\* Mutant of Reconcile: rooms that are gone stay in the roster.
ReconcileAddsOnly ==
    LET admitting == {k \in member : roster[k] = "unadmitted"} IN
    /\ ~Resumable
    /\ consumer.pc = "list" /\ phase = "up"
    /\ roster' = [k \in Rooms |-> IF k \in admitting THEN "admitting" ELSE roster[k]]
    /\ leaving' = leaving
    /\ consumer' = [Consumer("remove", NoKey) EXCEPT !.rooms = admitting]
    /\ lost' = StillLost
    /\ UNCHANGED <<subVars, phase, starts, adm, callback, retry, queue, member, changes, faults,
                   announced, ghost>>

\* roster.reconcile against the listing: admitted rooms that are gone are
\* untracked, newly found ones are claimed before anything is awaited.
Reconcile ==
    LET removed == {k \in Rooms : roster[k] = "admitted" /\ k \notin member}
        admitting == {k \in member : roster[k] = "unadmitted"}
    IN
    /\ ~Resumable
    /\ consumer.pc = "list" /\ phase = "up"
    /\ roster' = [k \in Rooms |-> IF k \in removed THEN "unadmitted"
                                  ELSE IF k \in admitting THEN "admitting" ELSE roster[k]]
    /\ leaving' = [k \in Rooms |-> IF k \in removed THEN "begin" ELSE leaving[k]]
    /\ consumer' = [Consumer("remove", NoKey) EXCEPT !.rooms = admitting]
    /\ lost' = StillLost
    /\ UNCHANGED <<subVars, phase, starts, adm, callback, retry, queue, member, changes, faults,
                   announced, ghost>>

\* The removed rooms are left: the claimed ones are admitted in parallel.
AdmitReconciled ==
    /\ consumer.pc = "remove" /\ phase = "up"
    /\ \A k \in Rooms : leaving[k] = "no"
    /\ adm' = [k \in Rooms |-> IF k \in consumer.rooms
                               THEN [stage |-> "start", by |-> "consumer"] ELSE adm[k]]
    /\ consumer' = Consumer("admitall", NoKey)
    /\ ghost' = [ghost EXCEPT !.gaveUp = @ \ consumer.rooms]
    /\ UNCHANGED <<subVars, callback, phase, starts, roster, retry, leaving, queue, member, changes,
                   faults, announced, lost>>

\* One of the coroutines gathered for a batch of admissions starts.
StartAdmission(k) ==
    /\ adm[k].stage = "start" /\ ~Cancelled(k)
    /\ StartSubscribe(k)
    /\ adm' = [adm EXCEPT ![k] = Subscribing(k, adm[k].by)]
    /\ UNCHANGED <<callback, phase, starts, roster, retry, consumer, leaving, queue, member, changes,
                   faults, announced, lost, ghost>>

-----------------------------------------------------------------------------
(* start() and stop(), serialised by the lifecycle lock                     *)

\* start(): the agent_rooms topic first, so that no room is missed.
Start ==
    /\ phase = "down" /\ starts < MaxStarts
    /\ starts' = starts + 1
    /\ phase' = "agent"
    /\ IF MaySubscribe(AgentRooms) THEN Subscribe(AgentRooms, AgentRooms) ELSE UNCHANGED subVars
    /\ UNCHANGED <<roster, adm, callback, retry, consumer, leaving, queue, member, changes, faults,
                   announced, lost, ghost>>

\* subscribe_agent_rooms returned, joined or not; the rooms are listed.
StartLists ==
    /\ phase = "agent" /\ call[AgentRooms].op = "idle"
    /\ phase' = "list"
    /\ UNCHANGED <<subVars, starts, roster, adm, callback, retry, consumer, leaving, queue, member,
                   changes, faults, announced, lost, ghost>>

\* The startup snapshot is read; its rooms are claimed and joined in parallel.
StartJoins ==
    LET claimed == {k \in member : Claimable(k)} IN
    /\ ~Resumable
    /\ phase = "list"
    /\ phase' = "startup"
    /\ roster' = [k \in Rooms |-> IF k \in claimed THEN "admitting" ELSE roster[k]]
    /\ adm' = [k \in Rooms |-> IF k \in claimed
                               THEN [stage |-> "start", by |-> "startup"] ELSE adm[k]]
    /\ lost' = StillLost
    /\ UNCHANGED <<subVars, callback, starts, retry, consumer, leaving, queue, member, changes,
                   faults, announced, ghost>>

\* The snapshot failed: start() goes on without it.
StartListFails ==
    /\ ~Resumable
    /\ phase = "list" /\ Fault
    /\ phase' = "startup" /\ lost' = Rooms
    /\ UNCHANGED <<subVars, starts, roster, adm, callback, retry, consumer, leaving, queue, member,
                   changes, announced, ghost>>

Started ==
    /\ phase = "startup" /\ ~Busy("startup")
    /\ phase' = "up"
    /\ consumer' = Consumer("idle", NoKey)
    /\ UNCHANGED <<subVars, starts, roster, adm, callback, retry, leaving, queue, member, changes,
                   faults, announced, lost, ghost>>

\* stop() cancels the consumer.
Stop ==
    /\ phase = "up"
    /\ phase' = "stopping"
    /\ UNCHANGED <<subVars, starts, roster, adm, callback, retry, consumer, leaving, queue, member,
                   changes, faults, announced, lost, ghost>>

\* stop() cancelled the leaves of the rooms ks: nothing announces or completes them.
CutShort(ks) ==
    [ghost EXCEPT !.unsettled = @ \cup ks,
                  !.missed = [k \in Rooms |-> IF k \in ks THEN @[k] + 1 ELSE @[k]]]

\* The cancellation reaches a leave the consumer was awaiting.
CancelLeave(k) ==
    /\ phase = "stopping" /\ call[k].op = "leave"
    /\ leaving[k] = "wait" \/ (consumer.pc = "leave" /\ consumer.key = k)
    /\ CancelUnsubscribe(k)
    /\ leaving' = [leaving EXCEPT ![k] = "no"]
    /\ ghost' = IF leaving[k] = "wait" THEN CutShort({k}) ELSE ghost
    /\ consumer' = IF consumer.pc = "leave" THEN Consumer("idle", NoKey) ELSE consumer
    /\ UNCHANGED <<phase, starts, roster, adm, callback, retry, queue, member, changes, faults,
                   announced, lost>>

\* An admission of the cancelled gather that never started.
CancelUnstarted(k) ==
    /\ adm[k].stage = "start" /\ Cancelled(k)
    /\ adm' = [adm EXCEPT ![k] = NoAdm]
    /\ UNCHANGED <<subVars, callback, phase, starts, roster, retry, consumer, leaving, queue, member,
                   changes, faults, announced, lost, ghost>>

\* The consumer has unwound; the re-join tasks are cancelled.
ConsumerGone ==
    /\ phase = "stopping"
    /\ ~Busy("consumer") /\ \A k \in Rooms : leaving[k] \notin {"wait", "left"}
    /\ consumer.pc = "leave" => call[consumer.key].op = "idle"
    /\ phase' = "unretry"
    /\ consumer' = Consumer("off", NoKey)
    /\ ghost' = CutShort({k \in Rooms : leaving[k] = "begin"})
    /\ leaving' = [k \in Rooms |-> "no"]
    /\ retry' = [k \in Rooms |-> IF retry[k].pc = "none" THEN NoRetry
                                 ELSE [retry[k] EXCEPT !.cancel = TRUE]]
    /\ UNCHANGED <<subVars, starts, roster, adm, callback, queue, member, changes, faults, announced,
                   lost>>

\* Mutant of StopLeaves: the rooms are left without waiting for the re-join tasks.
StopLeavesUnwaited ==
    /\ phase = "unretry"
    /\ phase' = "leaving"
    /\ leaving' = [k \in Rooms |-> IF roster[k] = "admitted" THEN "begin" ELSE "no"]
    /\ roster' = [k \in Rooms |-> "unadmitted"]
    /\ UNCHANGED <<subVars, starts, adm, callback, retry, consumer, queue, member, changes, faults,
                   announced, lost, ghost>>

\* roster.clear(), then every admitted room is left.
StopLeaves ==
    /\ phase = "unretry" /\ \A k \in Rooms : retry[k].pc = "none"
    /\ phase' = "leaving"
    /\ leaving' = [k \in Rooms |-> IF roster[k] = "admitted" THEN "begin" ELSE "no"]
    /\ roster' = [k \in Rooms |-> "unadmitted"]
    /\ UNCHANGED <<subVars, starts, adm, callback, retry, consumer, queue, member, changes, faults,
                   announced, lost, ghost>>

Stopped ==
    /\ phase = "leaving" /\ \A k \in Rooms : leaving[k] = "no"
    /\ phase' = "down"
    /\ UNCHANGED <<subVars, starts, roster, adm, callback, retry, consumer, leaving, queue, member,
                   changes, faults, announced, lost, ghost>>

-----------------------------------------------------------------------------
(* The wire, as the presence's calls meet it                                *)

\* The server lets the agent join a room it participates in.
WireAnswers ==
    \/ /\ ~Resumable
       /\ \E k \in Keys : JoinSucceeds(k) /\ (k \in Rooms => k \in member)
       /\ UNCHANGED presVars
    \/ /\ ~Resumable
       /\ \E k \in Keys : RollbackEnds(k, TRUE) \/ LeaveEnds(k, TRUE)
       /\ UNCHANGED presVars

WireFails ==
    /\ ~Resumable
    /\ \E k \in Keys : JoinFails(k) \/ RollbackEnds(k, FALSE) \/ LeaveEnds(k, FALSE)
    /\ IF online THEN Fault ELSE faults' = faults
    /\ UNCHANGED <<phase, starts, roster, adm, callback, retry, consumer, leaving, queue, member,
                   changes, announced, lost, ghost>>

\* A room the agent no longer belongs to is refused; that is no fault.
WireRefuses ==
    /\ ~Resumable
    /\ \E k \in Rooms \ member : call[k].op = "join" /\ JoinFails(k)
    /\ UNCHANGED presVars

Transport ==
    /\ ~Resumable
    /\ TransportDrops \/ Reconnects
    /\ UNCHANGED presVars

Hook ==
    \/ ~Resumable /\ DrainLeave(TRUE) /\ UNCHANGED presVars
    \/ /\ ~Resumable /\ DetectRejoinFailures
       /\ ghost' = [ghost EXCEPT !.rejected =
                        @ \cup {k \in Rooms : tracker[k] = "joined" /\ tracker'[k] # "joined"}]
       /\ UNCHANGED <<phase, starts, roster, adm, callback, retry, consumer, leaving, queue, member,
                      changes, faults, announced, lost>>
    \/ /\ ~Resumable
       /\ DrainLeave(FALSE)
       /\ IF online THEN Fault ELSE faults' = faults
       /\ UNCHANGED <<phase, starts, roster, adm, callback, retry, consumer, leaving, queue, member,
                      changes, announced, lost, ghost>>
    \/ /\ HookEnds /\ QueueEvent(Event("reconnected", NoKey))
       /\ UNCHANGED <<phase, starts, roster, adm, callback, retry, consumer, leaving, member, changes,
                      faults, announced, ghost>>

\* Steps the event loop takes once what they wait for is there.
Progress ==
    \/ \E k \in Rooms : \/ SubscribeReturned(k) \/ JoinedCallbackEnds(k)
                        \/ CancelAdmission(k) \/ CleanUp(k) \/ CleanedUp(k)
                        \/ RetryWakes(k) \/ RetryCancelled(k)
                        \/ LeaveOneRoom(k) \/ LeftCallback(k)
                        \/ StartAdmission(k) \/ CancelLeave(k) \/ CancelUnstarted(k)
    \/ HandleRoomAdded \/ Admitted \/ HandleRoomLeft \/ RetryGone \/ RoomLeft
    \/ HandleReconnect \/ Reconcile \/ AdmitReconciled
    \/ StartLists \/ StartJoins \/ Started \/ ConsumerGone \/ StopLeaves \/ Stopped

Next ==
    \/ Progress \/ ReconnectListFails \/ StartListFails
    \/ Start \/ Stop
    \/ \E k \in Rooms : MembershipChanges(k)
    \/ WireAnswers \/ WireFails \/ WireRefuses \/ Transport \/ Hook

Spec == Init /\ [][Next]_vars

\* The event loop runs, the wire answers one way or another, a dropped transport
\* is re-established, and a loop of events does not starve start() or stop().
Fairness ==
    /\ WF_vars(Progress)
    /\ WF_vars(WireAnswers) /\ WF_vars(WireRefuses)
    /\ WF_vars(~online /\ (Transport \/ WireFails))
    /\ WF_vars(Hook)

FairSpec == Spec /\ Fairness

-----------------------------------------------------------------------------

Phases == {"down", "agent", "list", "startup", "up", "stopping", "unretry", "leaving"}
Owners == {"startup", "consumer", "retry"}
Admissions ==
    {NoAdm} \cup [stage : {"start", "sub", "denied", "cleanup", "cleaning", "cleaned"},
                 by : Owners]
Retries == [pc : {"none", "sleep", "admit"}, used : 0..MaxRetries, cancel : BOOLEAN]
Consumers ==
    [pc : {"off", "idle", "admit", "unretry", "leave", "left", "list", "remove", "admitall"},
     key : Rooms \cup {NoKey}, rooms : SUBSET Rooms]
Events == [kind : {"added", "removed"}, room : Rooms] \cup {Event("reconnected", NoKey)}
Ghosts == [gaveUp : SUBSET Rooms, unsettled : SUBSET Rooms, rejected : SUBSET Rooms,
           missed : [Rooms -> Nat]]

\* Types of the presence's own state.
TypeOK ==
    /\ phase \in Phases
    /\ roster \in [Rooms -> {"unadmitted", "admitting", "admitted"}]
    /\ adm \in [Rooms -> Admissions]
    /\ callback \in [Rooms -> SUBSET Owners]
    /\ retry \in [Rooms -> Retries]
    /\ consumer \in Consumers
    /\ leaving \in [Rooms -> {"no", "begin", "wait", "left"}]
    /\ queue \in Seq(Events) /\ Len(queue) <= QueueCap
    /\ member \in SUBSET Rooms /\ lost \in SUBSET Rooms
    /\ announced \in [Rooms -> Int]
    /\ ghost \in Ghosts

\* One, if the condition holds.
Unit(condition) == IF condition THEN 1 ELSE 0

\* One admission at a time holds a room's ticket, and the ticket is still outstanding
\* when it ends: stop() and a leave wait for the admissions they could outrun, so the
\* stale-ticket branch of _complete_room_admission is never needed.  And the owner's
\* account of a room is exact: on_room_joined calls less on_room_left calls are one for
\* a room of the roster, one for a leave that is pending, and one for every leave that a
\* stop() cancelled.  So an announcement is never doubled or lost but in two ways: a
\* re-join that wakes before a reconcile's leave begins announces the room a second time
\* (the sum is two), and the leaves stop() cancels are never announced.
AnnouncedOnce ==
    \A k \in Rooms :
        /\ adm[k].stage # "none" => Outstanding(k)
        /\ announced[k] = Unit(roster[k] = "admitted") + Unit(leaving[k] # "no")
                          + ghost.missed[k]

Resting ==
    /\ phase = "up" /\ consumer.pc = "idle" /\ queue = <<>>
    /\ online /\ hook.pc = "idle"
    /\ \A k \in Rooms : adm[k] = NoAdm /\ retry[k].pc = "none"

\* Once everything has come to rest the roster is the platform's membership and the
\* agent receives the messages of every room in it, whatever order the startup
\* snapshot, the pushes, the reconnects, the failures and the re-joins came in, but
\* for rooms whose re-joins ran out, events that were lost since the last listing,
\* topics the server refused to rejoin after a reconnect, until they are joined again,
\* and rooms whose re-join outran their leave or whose leave stop() cancelled, until a
\* later admission or leave puts them right.
Converged ==
    Resting =>
        \A k \in Rooms \ ghost.unsettled :
            /\ roster[k] = "admitted" => k \in member \cup lost
            /\ k \in member \ lost => (roster[k] = "admitted" \/ k \in ghost.gaveUp)
            /\ roster[k] = "admitted" => (tracker[k] = "joined" \/ k \in ghost.rejected)

\* stop() "unsubscribes from all rooms", whatever joins, re-joins and leaves it cut
\* short: a stopped presence is subscribed to no room, with one exception that a later
\* admission puts right.  A reconcile takes its removed rooms out of the roster before it
\* leaves them, and a stop() that cancels those leaves before they begin leaves the
\* rooms subscribed.
StopUnsubscribes ==
    phase = "down" =>
        \A k \in Rooms : tracker[k] = "joined" => k \in ghost.unsettled /\ ghost.missed[k] > 0

-----------------------------------------------------------------------------
(* The inductive invariant of AnnouncedOnce, Converged and StopUnsubscribes *)

\* The consumer is at one of the points pcs of a leave of room k.
At(k, pcs) == consumer.pc \in pcs /\ consumer.key = k

\* A room that a reconcile claimed and the consumer has yet to admit.
Preclaimed(k) == consumer.pc = "remove" /\ k \in consumer.rooms

\* The link keeps its one session, and caller k works on key k.
CallsOwn ==
    /\ session = 1 /\ opened = 1
    /\ \A k \in Keys : call[k].op # "idle" => call[k].key = k

\* What start(), stop() and the consumer may rely on in each phase.
PhaseFits ==
    /\ consumer.pc # "off" <=> phase \in {"up", "stopping"}
    /\ consumer.pc \in {"admit", "unretry", "leave", "left"} => consumer.key \in Rooms
    /\ phase \in {"down", "agent", "list", "leaving"} =>
          \A k \in Rooms : roster[k] = "unadmitted" /\ adm[k] = NoAdm /\ callback[k] = {}
    /\ \A k \in Rooms : leaving[k] # "no" =>
          \/ phase = "leaving"
          \/ phase \in {"up", "stopping"} /\ consumer.pc = "remove"

\* Whose coroutine an admission or a callback belongs to, and where that one stands.
OwnersFit(k) ==
    /\ adm[k].by = "startup" \/ "startup" \in callback[k] => phase = "startup"
    /\ adm[k].by = "consumer" \/ "consumer" \in callback[k] =>
          phase \in {"up", "stopping"} /\ consumer.pc \in {"admit", "admitall"}
    /\ adm[k].by = "retry" => retry[k].pc = "admit" /\ "retry" \notin callback[k]
    /\ "retry" \in callback[k] => retry[k].pc = "admit"
    /\ adm[k].stage = "start" => adm[k].by # "retry"
    /\ adm[k].stage \in {"cleanup", "cleaning", "cleaned"} => Cancelled(k)

\* A re-join task lives only beside a running presence; it is cancelled by a leave
\* of its room, which waits for its end, or by stop().
RetryFits(k) ==
    /\ retry[k].pc # "none" => phase \in {"startup", "up", "stopping", "unretry"}
    /\ retry[k].pc = "none" => ~retry[k].cancel
    /\ retry[k].pc = "sleep" => retry[k].used < MaxRetries
    /\ retry[k].cancel /\ phase \in {"startup", "up"} => At(k, {"unretry"})
    /\ At(k, {"unretry"}) => retry[k].pc = "none" \/ retry[k].cancel
    /\ At(k, {"leave", "left"}) => retry[k].pc = "none"

\* A room is claimed exactly while an admission, or a reconcile, holds its ticket.
ClaimFits(k) ==
    /\ adm[k] # NoAdm => roster[k] = "admitting"
    /\ Preclaimed(k) => roster[k] = "admitting" /\ adm[k] = NoAdm
    /\ roster[k] = "admitting" /\ phase \in {"startup", "up"} =>
          adm[k] # NoAdm \/ Preclaimed(k)

\* The account of a room's announcements.  A re-join may claim a room during its leave,
\* but the link denies it the room, unless it outran the leave.
AnnounceFits(k) ==
    /\ announced[k] = Unit(roster[k] = "admitted") + Unit(leaving[k] # "no")
                      + ghost.missed[k]
    /\ leaving[k] # "no" /\ k \notin ghost.unsettled =>
          /\ roster[k] # "admitted"
          /\ adm[k] # NoAdm =>
                adm[k].stage = "denied" /\ leaving[k] = "wait" /\ call[k].op # "idle"

\* A room's channel is joined by its admission, for a room of the platform, and left
\* before the roster forgets the room.
TrackFits(k) ==
    /\ call[k].op \in {"join", "rollback"} => adm[k].stage = "sub"
    /\ At(k, {"leave", "left"}) => tracker[k] # "joined"
    /\ tracker[k] = "joined" /\ ghost.missed[k] = 0 =>
          \/ roster[k] = "admitted" \/ leaving[k] = "begin"
          \/ adm[k].stage = "sub" /\ call[k].op = "idle"
    /\ tracker[k] = "joined" /\ k \notin ghost.unsettled =>
          \/ roster[k] = "admitted" \/ leaving[k] = "begin"
          \/ adm[k].stage = "sub" /\ call[k].op = "idle" /\ k \in member
    /\ roster[k] = "admitted" /\ k \notin ghost.unsettled \cup ghost.rejected =>
          \/ tracker[k] = "joined" \/ phase \notin {"startup", "up"}
          \/ At(k, {"leave", "left"})

Pushed(k) == \E i \in DOMAIN queue : queue[i].room = k

\* The last push of a room in the queue tells its membership.
QueueFits(k) ==
    k \in lost \/
    \A i \in DOMAIN queue :
        queue[i].room = k /\ (\A j \in DOMAIN queue : j > i => queue[j].room # k) =>
            (queue[i].kind = "added" <=> k \in member)

\* With no push on its way the presence is at the room's membership or on its way there.
MemberFits(k) ==
    k \notin lost \cup ghost.unsettled /\ ~Pushed(k) /\ phase \in {"startup", "up"} =>
        /\ roster[k] = "admitted" => k \in member \/ At(k, {"unretry", "leave", "left"})
        /\ k \in member =>
              /\ leaving[k] = "no" /\ ~At(k, {"unretry", "leave", "left"})
              /\ roster[k] # "unadmitted" \/ retry[k].pc = "sleep" \/ k \in ghost.gaveUp

RoomFits(k) ==
    /\ OwnersFit(k) /\ RetryFits(k) /\ ClaimFits(k) /\ AnnounceFits(k)
    /\ TrackFits(k) /\ QueueFits(k) /\ MemberFits(k)

PresenceInv == TypeOK /\ CallsOwn /\ PhaseFits /\ \A k \in Rooms : RoomFits(k)

-----------------------------------------------------------------------------

\* start() comes to an end, although joins fail, and so does stop(), whatever the
\* consumer and the re-joins were doing.
CallsComplete ==
    /\ phase = "agent" ~> phase = "up"
    /\ phase = "stopping" ~> phase = "down"

=============================================================================
