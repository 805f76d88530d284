-------------------------------- MODULE Link --------------------------------
(***************************************************************************)
(* BandLink (platform/link.py) over one WebSocketClient session at a time  *)
(* (client/streaming/client.py) whose every connect, reconnect and stop is *)
(* decided by SessionDecider (client/streaming/session_decider.py).        *)
(*                                                                         *)
(* Four tasks of one event loop interleave at their awaits: the caller of  *)
(* connect() and disconnect(), phoenix's supervisor (external), the topic  *)
(* task that delivers agent_control pushes, and the control lane.  The     *)
(* band_sdk_core Session (external) answers each decision with retry or    *)
(* dead; it is modelled by the answers session_decider.py matches on.      *)
(***************************************************************************)
EXTENDS Naturals, Sequences, SequencesExt

CONSTANTS
    MaxSessions,   \* bound: connect() calls that start a session
    MaxAttempts,   \* bound: transport attempts over the whole behaviour
    MaxControls,   \* bound: agent.control pushes
    MaxEvents,     \* bound: room events and synthetic events
    Capacity       \* maxsize of _event_queue (1000 in the code)

ASSUME LinkAssumption ==
    /\ MaxSessions \in Nat /\ MaxAttempts \in Nat
    /\ MaxControls \in Nat /\ MaxEvents \in Nat
    /\ Capacity \in Nat \ {0}

VARIABLES
    cur,       \* the newest session's number; 0 before the first connect()
    decider,   \* the newest session's SessionDecider
    core,      \* its band_sdk_core Session
    sup,       \* phoenix's supervisor and socket
    ctl,       \* the agent_control topic
    conn,      \* where the connect() call is
    disc,      \* where the disconnect() call is
    link,      \* _ws, _is_connected, _last_disconnect_reason, as sessions
    queue,     \* _event_queue
    lane,      \* _control_lane
    waitFor,   \* the lane tasks _cancel_control_lane waits for
    rehook,    \* the on_reconnect callback: none, due, running
    shutdown,  \* _supersede_shutdown is still to run
    used,      \* attempts, controls and events spent so far
    applied,   \* history: control hooks started, in order
    reports,   \* history: _on_terminal calls of each session
    leftover   \* what ended connect() calls left behind: clients and events

connVars == <<conn, disc, link>>
sessVars == <<cur, decider, core>>
vars == <<cur, decider, core, sup, ctl, conn, disc, link, queue, lane,
          waitFor, rehook, shutdown, used, applied, reports, leftover>>

Sessions == 1..MaxSessions
Kinds == {"room", "reconnected", "verdict", "synthetic"}
FreshDecider == [accepted |-> FALSE, ended |-> FALSE, superseded |-> FALSE,
                 terminal |-> FALSE, decided |-> FALSE]

(* SessionDecider._decided *)
Decided == decider.terminal \/ decider.ended

(* BandLink._queue_event: a full queue drops the event *)
Queued(q, kind, sess) ==
    IF Len(q) < Capacity THEN Append(q, [kind |-> kind, sess |-> sess]) ELSE q

Init ==
    /\ cur = 0 /\ decider = FreshDecider /\ core = "dead"
    /\ sup = "off" /\ ctl = "none" /\ conn = "idle" /\ disc = "idle"
    /\ link = [ws |-> 0, connected |-> FALSE, reason |-> 0]
    /\ queue = <<>> /\ lane = <<>> /\ waitFor = {}
    /\ rehook = "none" /\ shutdown = FALSE
    /\ used = [attempts |-> 0, controls |-> 0, events |-> 0]
    /\ applied = <<>> /\ reports = [s \in Sessions |-> 0]
    /\ leftover = [stray |-> {}, unswept |-> {}]

-----------------------------------------------------------------------------
(* SessionDecider *)

(* _report, with BandLink._on_terminal for a session that was accepted.    *)
(* d is the decider the report starts from.                                *)
Report(d) ==
    /\ decider' = [d EXCEPT !.terminal = TRUE]
    /\ IF d.accepted
       THEN /\ link' = [link EXCEPT !.reason = cur, !.connected = FALSE]
            /\ queue' = Queued(queue, "verdict", cur)
            /\ reports' = [reports EXCEPT ![cur] = @ + 1]
       ELSE UNCHANGED <<link, queue, reports>>

(* _end: a session that already has its verdict, or ended locally, stops *)
(* without another report.                                               *)
EndWithVerdict(d) ==
    IF Decided THEN decider' = d /\ UNCHANGED <<link, queue, reports>>
    ELSE Report(d)

(* Connecting: the Session hands out an epoch unless it is dead *)
BeginAttempt ==
    /\ sup \in {"start", "backoff"}
    /\ decider' = [decider EXCEPT !.superseded = FALSE]
    /\ \/ /\ core = "dead"
          /\ sup' = "stopped"
          /\ UNCHANGED <<core, used>>
       \/ /\ core # "dead" /\ used.attempts < MaxAttempts
          /\ used' = [used EXCEPT !.attempts = @ + 1]
          /\ core' = "attempting" /\ sup' = "attempting"
    /\ UNCHANGED <<leftover, cur, ctl, conn, disc, link, queue, lane, waitFor,
                   rehook, shutdown, applied, reports>>

(* Connected: a fresh disconnect_decided; the connection is up unless the  *)
(* session moved on.  A reconnect rejoins the topics, of which the         *)
(* platform may reject agent_control, and makes on_reconnect due.          *)
AttemptConnected ==
    /\ sup = "attempting"
    /\ \/ /\ core = "attempting"
          /\ decider' = [decider EXCEPT !.accepted = TRUE, !.decided = FALSE]
          /\ core' = "up" /\ sup' = "open"
          /\ rehook' = IF decider.accepted THEN "due" ELSE "none"
          /\ ctl' \in {ctl} \cup (IF ctl = "joined" THEN {"none"} ELSE {})
          /\ UNCHANGED <<link, queue, reports>>
       \/ /\ core # "attempting"
          /\ EndWithVerdict([decider EXCEPT !.decided = FALSE])
          /\ sup' = "stopped"
          /\ UNCHANGED <<core, rehook, ctl>>
    /\ UNCHANGED <<leftover, cur, conn, disc, lane, waitFor, shutdown, used,
                   applied>>

(* _failed and _connect_failed: an upgrade refused, or no response at all *)
AttemptFails ==
    /\ sup = "attempting"
    /\ \/ /\ core # "dead"
          /\ core' = "backoff" /\ sup' = "backoff"
          /\ UNCHANGED <<decider, link, queue, reports>>
       \/ /\ core' = "dead" /\ sup' = "stopped"
          /\ EndWithVerdict(decider)
    /\ UNCHANGED <<leftover, cur, ctl, conn, disc, lane, waitFor, rehook,
                   shutdown, used, applied>>

(* external: the socket closes, at worst before __aenter__ has resumed *)
SocketLost ==
    /\ sup = "open"
    /\ sup' = "lost"
    /\ UNCHANGED <<leftover, sessVars, ctl, connVars, queue, lane, waitFor,
                   rehook, shutdown, used, applied, reports>>

(* mutant: disconnect_decided is not set for a close that is retried *)
DecideDisconnectedSilent ==
    /\ sup = "lost"
    /\ rehook' = "none"
    /\ \/ /\ core # "dead" \/ decider.superseded
          /\ sup' = "backoff"
          /\ core' = IF core = "dead" THEN "dead" ELSE "backoff"
          /\ UNCHANGED <<decider, link, queue, reports>>
       \/ /\ ~decider.superseded
          /\ core' = "dead" /\ sup' = "stopped"
          /\ EndWithVerdict([decider EXCEPT !.decided = TRUE])
    /\ UNCHANGED <<leftover, cur, ctl, conn, disc, lane, waitFor, shutdown, used,
                   applied>>

(* Disconnected: a recorded supersede decides first, with its delay; else *)
(* _closed.  Either way disconnect_decided is set.                        *)
DecideDisconnected ==
    /\ sup = "lost"
    /\ rehook' = "none"
    /\ \/ /\ core # "dead" \/ decider.superseded
          /\ sup' = "backoff"
          /\ core' = IF core = "dead" THEN "dead" ELSE "backoff"
          /\ decider' = [decider EXCEPT !.decided = TRUE]
          /\ UNCHANGED <<link, queue, reports>>
       \/ /\ ~decider.superseded
          /\ core' = "dead" /\ sup' = "stopped"
          /\ EndWithVerdict([decider EXCEPT !.decided = TRUE])
    /\ UNCHANGED <<leftover, cur, ctl, conn, disc, lane, waitFor, shutdown, used,
                   applied>>

(* mutant: supersede() does not ask whether the session was already decided *)
SupersedeRepeats ==
    /\ ctl = "joined" /\ sup # "off" /\ core \in {"up", "dead"} /\ ~shutdown
    /\ Report(decider)
    /\ core' = "dead" /\ shutdown' = TRUE
    /\ UNCHANGED <<leftover, cur, sup, ctl, conn, disc, lane, waitFor, rehook,
                   used, applied>>

(* handle_supersede on the topic task.  A Session that is not up answers   *)
(* stale, and a dead one answers dead to a session that is already decided *)
(* (ALREADY_ENDED): both do nothing.                                       *)
Supersede ==
    /\ ctl = "joined" /\ sup # "off" /\ core = "up"
    /\ \/ /\ Report(decider)
          /\ core' = "dead" /\ shutdown' = TRUE
          /\ UNCHANGED sup
       \/ /\ decider' = [decider EXCEPT !.superseded = TRUE]
          /\ core' = "backoff"
          /\ sup' = IF sup = "open" THEN "lost" ELSE sup
          /\ UNCHANGED <<link, queue, reports, shutdown>>
    /\ UNCHANGED <<leftover, cur, ctl, conn, disc, lane, waitFor, rehook, used,
                   applied>>

(* the shutdown spawned by an ending supersede closes the transport *)
SupersedeShutdown ==
    /\ shutdown /\ shutdown' = FALSE
    /\ sup' = IF sup = "off" THEN "off" ELSE "stopped"
    /\ rehook' = "none"
    /\ UNCHANGED <<leftover, sessVars, ctl, connVars, queue, lane, waitFor, used,
                   applied, reports>>

-----------------------------------------------------------------------------
(* BandLink.connect *)

(* end(): local, so nothing after it reports a verdict *)
Ended(d) == [d EXCEPT !.ended = TRUE, !.decided = TRUE]

(* connect() to its first await; a second concurrent call returns at once *)
ConnectStart ==
    /\ conn = "idle" /\ link.ws = 0 /\ cur < MaxSessions
    /\ cur' = cur + 1 /\ decider' = FreshDecider /\ core' = "idle"
    /\ sup' = "start" /\ ctl' = "none" /\ rehook' = "none" /\ shutdown' = FALSE
    /\ link' = [link EXCEPT !.reason = 0]
    /\ conn' = "entering"
    /\ UNCHANGED <<disc, queue, lane, waitFor, used, applied, reports, leftover>>

(* WebSocketClient.__aenter__ returns after the first Connected, whatever  *)
(* became of the socket since; the agent_control join starts               *)
EnterReturns ==
    /\ conn = "entering" /\ decider.accepted
    /\ conn' = "joining" /\ ctl' = "joining"
    /\ UNCHANGED <<leftover, sessVars, sup, disc, link, queue, lane, waitFor,
                   rehook, shutdown, used, applied, reports>>

(* __aenter__ raises: the session was refused, the connect timeout expired *)
(* or the caller was cancelled.  It ends the session; connect() copies the *)
(* verdict, if there is one, and closes the half-opened client.            *)
EnterFails ==
    /\ conn = "entering"
    /\ decider' = Ended(decider) /\ core' = "dead"
    /\ link' = [link EXCEPT !.reason = IF decider.terminal THEN cur ELSE @]
    /\ conn' = "rollbackUnaccepted"
    /\ UNCHANGED <<leftover, cur, sup, ctl, disc, queue, lane, waitFor, rehook,
                   shutdown, used, applied, reports>>

(* the platform's join reply; connect() resumes in a later step *)
JoinReply ==
    /\ conn = "joining" /\ sup = "open"
    /\ conn' = "joined" /\ ctl' = "joined"
    /\ UNCHANGED <<leftover, sessVars, sup, disc, link, queue, lane, waitFor,
                   rehook, shutdown, used, applied, reports>>

(* the join fails on the socket: a close in progress is decided first *)
JoinFails ==
    /\ conn = "joining"
    /\ conn' = "deciding"
    /\ UNCHANGED <<leftover, sessVars, sup, ctl, disc, link, queue, lane, waitFor,
                   rehook, shutdown, used, applied, reports>>

(* except BaseException: copy the verdict, end the session, start the exit *)
Rollback ==
    /\ link' = [link EXCEPT !.reason = IF decider.terminal THEN cur ELSE @]
    /\ decider' = Ended(decider) /\ core' = "dead"
    /\ conn' = "rollback"
    /\ UNCHANGED <<leftover, cur, sup, ctl, disc, queue, lane, waitFor, rehook,
                   shutdown, used, applied, reports>>

(* wait_for_disconnect_decision is over, or a rejection or a cancellation  *)
(* needs no decision                                                       *)
StartRollback ==
    /\ \/ conn \in {"joining", "joined"}
       \/ conn = "deciding" /\ (sup = "open" \/ decider.decided)
    /\ Rollback

(* the caller is cancelled while it waits for the decision *)
DecisionCancelled == conn = "deciding" /\ Rollback

(* connect() raises: an accepted session whose events are not dropped      *)
(* leaves them to whoever reads the queue next                             *)
ConnectRaises(swept) ==
    /\ conn' = "idle" /\ sup' = "off" /\ ctl' = "none" /\ rehook' = "none"
    /\ queue' = IF swept THEN <<>> ELSE queue
    /\ UNCHANGED <<sessVars, disc, link, lane, waitFor, shutdown, used, applied, reports>>

Unswept == leftover.unswept \cup (IF decider.accepted THEN {cur} ELSE {})

(* __aexit__ is over; the queue is dropped if __aenter__ had returned      *)
RollbackDone ==
    /\ conn \in {"rollback", "rollbackUnaccepted"}
    /\ ConnectRaises(conn = "rollback")
    /\ leftover' = IF conn = "rollback" THEN leftover
                   ELSE [leftover EXCEPT !.unswept = Unswept]

(* __aexit__ is cancelled or fails: nothing after it runs, and the client, *)
(* which the link never held, may go on delivering control pushes          *)
RollbackCut ==
    /\ conn \in {"rollback", "rollbackUnaccepted"}
    /\ ConnectRaises(FALSE)
    /\ leftover' = [stray |-> IF conn = "rollback" THEN leftover.stray \cup {cur}
                             ELSE leftover.stray,
                    unswept |-> Unswept]

(* mutant: connected whatever happened during the join *)
ConnectReturnsBlind ==
    /\ conn = "joined" /\ conn' = "idle"
    /\ link' = [link EXCEPT !.ws = cur, !.connected = TRUE]
    /\ UNCHANGED <<leftover, sessVars, sup, ctl, disc, queue, lane, waitFor,
                   rehook, shutdown, used, applied, reports>>

(* connect() returns; a verdict reached during the join has already ended it *)
ConnectReturns ==
    /\ conn = "joined" /\ conn' = "idle"
    /\ link' = [link EXCEPT !.ws = cur, !.connected = (link.reason = 0)]
    /\ UNCHANGED <<leftover, sessVars, sup, ctl, disc, queue, lane, waitFor,
                   rehook, shutdown, used, applied, reports>>

-----------------------------------------------------------------------------
(* BandLink.disconnect *)

Ids(tasks) == {tasks[i].id : i \in DOMAIN tasks}

(* _cancel_control_lane to its await *)
CancelLane ==
    /\ lane' = [i \in DOMAIN lane |-> [lane[i] EXCEPT !.cancelled = TRUE]]
    /\ waitFor' = Ids(lane)
    /\ disc' = "cancelling"

(* end_session, then the leave unless a verdict already ended the socket *)
DisconnectStart ==
    /\ link.ws # 0 /\ disc = "idle"
    /\ decider' = Ended(decider) /\ core' = "dead"
    /\ \/ /\ link.reason = 0 /\ disc' = "leaving"
          /\ UNCHANGED <<lane, waitFor>>
       \/ /\ link.reason # 0 /\ CancelLane
    /\ UNCHANGED <<leftover, cur, sup, ctl, conn, link, queue, rehook, shutdown,
                   used, applied, reports>>

(* the leave succeeds, or fails and is only logged *)
LeaveDone ==
    /\ disc = "leaving"
    /\ ctl' \in {"none", ctl}
    /\ CancelLane
    /\ UNCHANGED <<leftover, sessVars, sup, conn, link, queue, rehook, shutdown,
                   used, applied, reports>>

(* asyncio.wait(pending) returns *)
LaneCancelled ==
    /\ disc = "cancelling" /\ waitFor \cap Ids(lane) = {}
    /\ disc' = "exiting" /\ waitFor' = {}
    /\ UNCHANGED <<leftover, sessVars, sup, ctl, conn, link, queue, lane, rehook,
                   shutdown, used, applied, reports>>

(* __aexit__ is over: drop the queue, forget the client *)
ExitDone ==
    /\ disc = "exiting" /\ disc' = "idle"
    /\ sup' = "off" /\ ctl' = "none" /\ rehook' = "none"
    /\ queue' = <<>>
    /\ link' = [link EXCEPT !.ws = 0, !.connected = FALSE]
    /\ UNCHANGED <<leftover, sessVars, conn, lane, waitFor, shutdown, used,
                   applied, reports>>

(* the caller of disconnect() is cancelled at one of its awaits, or the     *)
(* exit fails: _ws stays, so a later disconnect() starts over               *)
DisconnectCancelled ==
    /\ disc # "idle" /\ disc' = "idle" /\ waitFor' = {}
    /\ UNCHANGED <<leftover, sessVars, sup, ctl, conn, link, queue, lane, rehook,
                   shutdown, used, applied, reports>>

-----------------------------------------------------------------------------
(* Callbacks of the client *)

(* _on_reconnected starts; before _ws is assigned it raises and is logged *)
ReconnectHookStarts ==
    /\ rehook = "due"
    /\ rehook' = IF link.ws = 0 THEN "none" ELSE "running"
    /\ UNCHANGED <<leftover, sessVars, sup, ctl, connVars, queue, lane, waitFor,
                   shutdown, used, applied, reports>>

(* ... repairs agent_control, which may fail, reconciles the subscriptions *)
(* (module Subscriptions) and announces the reconnect                      *)
ReconnectHookEnds ==
    /\ rehook = "running" /\ rehook' = "none"
    /\ ctl' \in IF ctl = "none" /\ disc = "idle" THEN {"none", "joined"} ELSE {ctl}
    /\ queue' = Queued(queue, "reconnected", cur)
    /\ UNCHANGED <<leftover, sessVars, sup, connVars, lane, waitFor, shutdown,
                   used, applied, reports>>

(* the _on_... callbacks of room, participant and contact topics *)
RoomEvent ==
    /\ sup = "open" /\ link.ws # 0 /\ used.events < MaxEvents
    /\ used' = [used EXCEPT !.events = @ + 1]
    /\ queue' = Queued(queue, "room", cur)
    /\ UNCHANGED <<leftover, sessVars, sup, ctl, connVars, lane, waitFor, rehook,
                   shutdown, applied, reports>>

(* queue_event, the public API for synthetic events *)
SyntheticEvent ==
    /\ used.events < MaxEvents
    /\ used' = [used EXCEPT !.events = @ + 1]
    /\ queue' = Queued(queue, "synthetic", 0)
    /\ UNCHANGED <<leftover, sessVars, sup, ctl, connVars, lane, waitFor, rehook,
                   shutdown, applied, reports>>

(* __anext__ *)
NextEvent ==
    /\ queue # <<>>
    /\ queue' = Tail(queue)
    /\ UNCHANGED <<leftover, sessVars, sup, ctl, connVars, lane, waitFor, rehook,
                   shutdown, used, applied, reports>>

-----------------------------------------------------------------------------
(* The control lane *)

(* a push arrives on the session's agent_control topic, or on a stray one's *)
ControlHeard == (ctl = "joined" /\ sup # "off") \/ leftover.stray # {}

(* mutant: a signal waits for the oldest unfinished one, not the last *)
OnControlAfterFirst ==
    /\ ControlHeard /\ used.controls < MaxControls
    /\ used' = [used EXCEPT !.controls = @ + 1]
    /\ lane' = Append(lane,
          [id |-> used'.controls, st |-> "waiting", cancelled |-> FALSE,
           prev |-> IF lane = <<>> THEN 0 ELSE Head(lane).id])
    /\ UNCHANGED <<leftover, sessVars, sup, ctl, connVars, queue, waitFor, rehook,
                   shutdown, applied, reports>>

(* _on_control: a task ordered after the last one still in the lane *)
OnControl ==
    /\ ControlHeard /\ used.controls < MaxControls
    /\ used' = [used EXCEPT !.controls = @ + 1]
    /\ lane' = Append(lane,
          [id |-> used'.controls, st |-> "waiting", cancelled |-> FALSE,
           prev |-> IF lane = <<>> THEN 0 ELSE Last(lane).id])
    /\ UNCHANGED <<leftover, sessVars, sup, ctl, connVars, queue, waitFor, rehook,
                   shutdown, applied, reports>>

(* _apply_control: the previous task is done, the hook starts *)
HookStarts(i) ==
    /\ lane[i].st = "waiting" /\ ~lane[i].cancelled
    /\ lane[i].prev \notin Ids(lane)
    /\ lane' = [lane EXCEPT ![i].st = "running"]
    /\ applied' = Append(applied, lane[i].id)
    /\ UNCHANGED <<leftover, sessVars, sup, ctl, connVars, queue, waitFor, rehook,
                   shutdown, used, reports>>

(* the hook returned or raised, or the cancelled task unwound; its done    *)
(* callback removes it from the lane                                       *)
TaskEnds(i) ==
    /\ lane[i].st = "running" \/ lane[i].cancelled
    /\ lane' = RemoveAt(lane, i)
    /\ UNCHANGED <<leftover, sessVars, sup, ctl, connVars, queue, waitFor, rehook,
                   shutdown, used, applied, reports>>

-----------------------------------------------------------------------------
Supervisor ==
    \/ BeginAttempt \/ AttemptConnected \/ AttemptFails \/ DecideDisconnected
    \/ SupersedeShutdown

Connecting ==
    \/ ConnectStart \/ EnterReturns \/ EnterFails \/ JoinReply \/ JoinFails
    \/ StartRollback \/ DecisionCancelled \/ RollbackDone \/ RollbackCut
    \/ ConnectReturns

Disconnecting ==
    \/ DisconnectStart \/ LeaveDone \/ LaneCancelled \/ ExitDone
    \/ DisconnectCancelled

Callbacks ==
    \/ ReconnectHookStarts \/ ReconnectHookEnds \/ RoomEvent \/ SyntheticEvent
    \/ NextEvent

ControlLane == OnControl \/ \E i \in DOMAIN lane : HookStarts(i) \/ TaskEnds(i)

Next ==
    \/ Supervisor \/ SocketLost \/ Supersede
    \/ Connecting \/ Disconnecting \/ Callbacks \/ ControlLane

Spec == Init /\ [][Next]_vars

(* Fairness: the event loop runs every ready task; phoenix decides a close *)
(* that happened; a join, a leave and an exit are bounded by the client's  *)
(* own timeouts; a cancelled control task unwinds.                         *)
CancelledTaskEnds == \E i \in DOMAIN lane : lane[i].cancelled /\ TaskEnds(i)
LiveSpec ==
    /\ Spec
    /\ WF_vars(DecideDisconnected) /\ WF_vars(EnterReturns \/ EnterFails)
    /\ WF_vars(JoinReply \/ JoinFails \/ StartRollback \/ ConnectReturns)
    /\ WF_vars(RollbackDone)
    /\ WF_vars(LeaveDone) /\ WF_vars(LaneCancelled) /\ WF_vars(ExitDone)
    /\ WF_vars(CancelledTaskEnds)

-----------------------------------------------------------------------------
(* Properties *)

Deciders == [accepted : BOOLEAN, ended : BOOLEAN, superseded : BOOLEAN,
             terminal : BOOLEAN, decided : BOOLEAN]
Links == [ws : 0..MaxSessions, connected : BOOLEAN, reason : 0..MaxSessions]
Events == [kind : Kinds, sess : 0..MaxSessions]
Tasks == [id : 1..MaxControls, st : {"waiting", "running"}, cancelled : BOOLEAN,
          prev : 0..MaxControls]

(* Type invariant of the link, its client and its decider. *)
LinkTypeOK ==
    /\ cur \in 0..MaxSessions
    /\ decider \in Deciders
    /\ core \in {"idle", "attempting", "up", "backoff", "dead"}
    /\ sup \in {"off", "start", "attempting", "open", "lost", "backoff", "stopped"}
    /\ ctl \in {"none", "joining", "joined"}
    /\ conn \in {"idle", "entering", "joining", "joined", "deciding", "rollback",
                 "rollbackUnaccepted"}
    /\ disc \in {"idle", "leaving", "cancelling", "exiting"}
    /\ link \in Links
    /\ queue \in Seq(Events)
    /\ Len(queue) <= Capacity
    /\ lane \in Seq(Tasks)
    /\ waitFor \subseteq 1..MaxControls
    /\ used \in [attempts : 0..MaxAttempts, controls : 0..MaxControls,
                 events : 0..MaxEvents]
    /\ applied \in Seq(1..MaxControls)
    /\ rehook \in {"none", "due", "running"} /\ shutdown \in BOOLEAN
    /\ reports \in [Sessions -> Nat]
    /\ leftover \in [stray : SUBSET Sessions, unswept : SUBSET Sessions]

(* A session's verdict is reported at most once, whatever races it: a      *)
(* close, a refused reconnect, a supersede push and a local end; and no    *)
(* transport attempt begins after it, whatever retry was recorded before   *)
(* (SessionDecider._end, supersede, _begin_attempt, BandLink._on_terminal).*)
VerdictOnce ==
    [][/\ \A s \in Sessions : reports'[s] <= 1
       /\ Decided /\ cur' = cur => used'.attempts = used.attempts]_vars

(* What the host reads from the link agrees with the session: it says      *)
(* connected only of a session without a verdict, and a reason is the      *)
(* current session's own verdict.  The queue holds, besides the host's own *)
(* events, only those of the session that connect() is opening or that the *)
(* link holds, so that a verdict or a reconnect is not read as the next    *)
(* session's; the exceptions are the sessions in leftover.unswept, whose   *)
(* connect() failed without dropping the queue: its __aexit__ was          *)
(* cancelled or failed, or __aenter__ failed after the session had been    *)
(* accepted (connect, _on_terminal, disconnect, _drop_queued_events).      *)
LinkAgreesWithSession ==
    /\ link.connected => ~decider.terminal /\ link.ws = cur
    /\ link.reason # 0 => link.reason = cur /\ decider.terminal
    /\ \A i \in DOMAIN queue :
          \/ queue[i].sess \in {0} \cup leftover.unswept
          \/ queue[i].sess = cur /\ (conn # "idle" \/ link.ws # 0)

(* Control signals are applied one at a time and in arrival order, through *)
(* failures and cancellations; only a hook that disconnect() has cancelled *)
(* may still be unwinding beside another (_on_control, _apply_control).    *)
ControlsInOrder ==
    /\ \A i, j \in DOMAIN lane :
          /\ lane[i].st = "running" /\ ~lane[i].cancelled
          /\ lane[j].st = "running" /\ ~lane[j].cancelled
          => i = j
    /\ \A i, j \in DOMAIN applied : i < j => applied[i] < applied[j]

(* connect() always returns or raises: the wait for the close's decision   *)
(* cannot hang (wait_for_disconnect_decision); and disconnect() always     *)
(* returns: every cancelled control task unwinds and is no longer waited   *)
(* for (_cancel_control_lane).                                             *)
CallsEnd ==
    /\ conn # "idle" ~> conn = "idle"
    /\ disc # "idle" ~> disc = "idle"

-----------------------------------------------------------------------------
(* The inductive invariant behind LinkAgreesWithSession, VerdictOnce and    *)
(* ControlsInOrder                                                          *)

(* The queue holds no event of a session but those a rollback left there... *)
QueueClean == \A i \in DOMAIN queue : queue[i].sess \in {0} \cup leftover.unswept

(* ... and those of the newest one. *)
QueueOwn == \A i \in DOMAIN queue : queue[i].sess \in {0, cur} \cup leftover.unswept

(* What a session may still do once its verdict is in: nothing, since the   *)
(* core answers dead from then on; and who has been told of the verdict.    *)
VerdictFits ==
    /\ Decided => core = "dead"
    /\ sup = "attempting" => core \in {"attempting", "dead"}
    /\ decider.accepted /\ decider.terminal => link.reason = cur
    /\ link.reason # 0 => link.reason = cur /\ decider.terminal
    /\ \A s \in Sessions : /\ reports[s] <= 1
                           /\ s > cur \/ (s = cur /\ ~decider.terminal) => reports[s] = 0

(* Where connect() and disconnect() are, and what the client can still send *)
(* up from there.                                                           *)
CallsFit ==
    /\ link.ws # 0 => link.ws = cur /\ conn = "idle" /\ decider.accepted
    /\ link.connected => link.ws # 0 /\ link.reason = 0
    /\ disc # "idle" => link.ws # 0
    /\ conn # "idle" => cur # 0
    /\ sup = "open" => decider.accepted
    /\ conn \in {"joining", "joined", "deciding", "rollback"} => decider.accepted
    /\ rehook = "running" => link.ws # 0
    /\ conn = "entering" => ctl = "none" /\ ~shutdown
    /\ conn = "rollbackUnaccepted" => decider.ended
    /\ conn = "idle" /\ link.ws = 0 => sup = "off"
    /\ conn \in {"entering", "rollbackUnaccepted"} /\ ~decider.accepted => QueueClean
    /\ conn = "idle" /\ link.ws = 0 => QueueClean

(* The lane is in arrival order, and a cancellation reaches a prefix of it. *)
(* A task whose predecessor is done has only cancelled tasks before it: the *)
(* chain of predecessors is broken by cancellation alone.                   *)
LaneFits ==
    /\ \A i \in DOMAIN lane :
          /\ lane[i].prev < lane[i].id /\ lane[i].id <= used.controls
          /\ lane[i].st = "running" => lane[i].prev \notin Ids(lane)
    /\ \A i, j \in DOMAIN lane : i < j =>
          /\ lane[i].id < lane[j].id /\ lane[i].id <= lane[j].prev
          /\ lane[j].cancelled => lane[i].cancelled
          /\ lane[j].prev \notin Ids(lane) => lane[i].cancelled

(* What was applied came before what still waits. *)
AppliedFits ==
    /\ \A i \in DOMAIN applied : applied[i] <= used.controls
    /\ \A i, j \in DOMAIN applied : i < j => applied[i] < applied[j]
    /\ \A i \in DOMAIN applied, j \in DOMAIN lane :
          lane[j].st = "waiting" /\ ~lane[j].cancelled => applied[i] < lane[j].id

LinkInv ==
    /\ LinkTypeOK /\ VerdictFits /\ CallsFit /\ QueueOwn
    /\ LaneFits /\ AppliedFits

=============================================================================
