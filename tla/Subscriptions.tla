---------------------------- MODULE Subscriptions ----------------------------
(***************************************************************************)
(* The channel subscriptions of one link (platform/subscriptions.py) and    *)
(* the reconnect hook that reconciles them (link.py, _on_reconnected).      *)
(*                                                                         *)
(* A key is a room, which owns two topics joined one after the other, or an *)
(* agent channel, which owns one.  The tracker that hands out tickets       *)
(* (band_sdk_core) and the Phoenix client that keeps the joined topics are  *)
(* libraries: they are modelled from how this code uses them.  A ticket is  *)
(* represented by whether it is still the current one of its key.           *)
(***************************************************************************)
EXTENDS Naturals, Sequences, FiniteSets

CONSTANTS
    Rooms,          \* room ids
    AgentTopics,    \* single-topic agent channels (agent_rooms, agent_contacts)
    NoKey,          \* no key: a coroutine that is not running
    Callers,        \* concurrent subscribe/unsubscribe coroutines
    MaxSessions,    \* bound: WebSocket clients created by connect()
    MaxReconnects,  \* bound: transport reconnects
    RejoinMayFail   \* whether the server may reject a topic's rejoin

ASSUME KeysAssumption == Rooms \cap AgentTopics = {} /\ NoKey \notin Rooms \cup AgentTopics
ASSUME RejoinAssumption == RejoinMayFail \in BOOLEAN
ASSUME SubscriptionBounds == MaxSessions \in Nat /\ MaxReconnects \in Nat

Keys == Rooms \cup AgentTopics

\* chat_room and room_participants, in the order subscribe_room joins them.
TopicCount(k) == IF k \in Rooms THEN 2 ELSE 1
TopicsOf(k) == 1..TopicCount(k)

VARIABLES
    session,    \* BandLink._ws: the number of the current client, 0 for None
    opened,     \* clients created so far
    online,     \* whether the transport is up
    reconnects, \* reconnects so far
    tracker,    \* SubscriptionTracker: the status of each key
    held,       \* ws.joined_topics(): the topics the transport keeps, per key
    pending,    \* _rooms_/_agent_topics_needing_reconciliation
    marked,     \* ghost: the session whose operation put a key into pending
    call,       \* the coroutine each caller runs
    candidates, \* tracker: keys subscribed before the reconnect being handled
    hook        \* the reconnect hook's coroutine

subVars == <<session, opened, online, reconnects, tracker, held, pending, marked,
             call, candidates, hook>>

IdleCall == [op |-> "idle", key |-> NoKey, at |-> 1, ok |-> TRUE, live |-> FALSE, ws |-> 0]
IdleHook == [pc |-> "idle", ws |-> 0, snapshot |-> [k \in Keys |-> {}],
             todo |-> {}, key |-> NoKey, at |-> 1]

SubInit ==
    /\ session = 1 /\ opened = 1 /\ online = TRUE /\ reconnects = 0
    /\ tracker = [k \in Keys |-> "absent"]
    /\ held = [k \in Keys |-> {}]
    /\ pending = {}
    /\ marked = [k \in Keys |-> 0]
    /\ call = [c \in Callers |-> IdleCall]
    /\ candidates = {}
    /\ hook = IdleHook

-----------------------------------------------------------------------------
(* The libraries' side                                                      *)

\* Recording an outcome moves the key only while the ticket is current.
Record(c, status) ==
    tracker' = IF call[c].live THEN [tracker EXCEPT ![call[c].key] = status] ELSE tracker

\* What one wire operation may leave in the transport's registry.  The client of
\* an ended session holds nothing.
Joins(c) ==
    held' = [held EXCEPT ![call[c].key] = @ \cup {call[c].at}]

LeaveAttempt(k, topic, left, mine) ==
    IF ~mine THEN held' = held
    ELSE IF left THEN held' = [held EXCEPT ![k] = @ \ {topic}]
    ELSE held' \in {held, [held EXCEPT ![k] = @ \ {topic}]}

\* is_current_session of a caller's client.
Current(c) == call[c].ws = session

\* Mutant of MarkNeedingReconciliation: the ambiguity is recorded nowhere.
MarkNeedingNever(ks, ws) == UNCHANGED <<pending, marked>>

\* _mark_needing_reconciliation
MarkNeedingReconciliation(ks, ws) ==
    IF ws = session
    THEN /\ pending' = pending \cup ks
         /\ marked' = [k \in Keys |-> IF k \in ks THEN ws ELSE marked[k]]
    ELSE UNCHANGED <<pending, marked>>

-----------------------------------------------------------------------------
(* subscribe_room and _subscribe_agent_topic                                *)

\* The two early returns: blocked by reconciliation, or no ticket to be had.
MaySubscribe(k) == session # 0 /\ k \notin pending /\ tracker[k] = "absent"

Subscribe(c, k) ==
    /\ MaySubscribe(k)
    /\ call[c].op = "idle"
    /\ call' = [call EXCEPT ![c] = [op |-> "join", key |-> k, at |-> 1, ok |-> TRUE,
                                    live |-> TRUE, ws |-> session]]
    /\ tracker' = [tracker EXCEPT ![k] = "joining"]
    /\ candidates' = candidates \ {k}
    /\ UNCHANGED <<session, opened, online, reconnects, held, pending, marked, hook>>

\* A join answered: the next topic, or record_both_room_topics_joined.
JoinSucceeds(c) ==
    LET last == call[c].at = TopicCount(call[c].key) IN
    /\ call[c].op = "join" /\ online /\ Current(c)
    /\ Joins(c)
    /\ IF last THEN Record(c, "joined") ELSE tracker' = tracker
    /\ call' = [call EXCEPT ![c] = IF last THEN IdleCall
                                    ELSE [call[c] EXCEPT !.at = call[c].at + 1]]
    /\ UNCHANGED <<session, opened, online, reconnects, pending, marked, candidates, hook>>

\* The first join failed: the ticket resolves to Absent.  A later one failed: the
\* chat_room topic joined before it is left again.  (The client reports no join as
\* failed and keeps its topic: a cleanup reservation is taken to be released by then.)
JoinFails(c) ==
    /\ call[c].op = "join"
    /\ IF call[c].at = 1
       THEN Record(c, "absent") /\ call' = [call EXCEPT ![c] = IdleCall]
       ELSE /\ tracker' = tracker
            /\ call' = [call EXCEPT ![c].op = "rollback", ![c].at = 1]
    /\ UNCHANGED <<session, opened, online, reconnects, held, pending, marked,
                   candidates, hook>>

\* The rollback's leave ended: clean, or in need of reconciliation.
RollbackEnds(c, left) ==
    LET k == call[c].key IN
    /\ call[c].op = "rollback" /\ (left => online /\ Current(c))
    /\ LeaveAttempt(k, 1, left, Current(c))
    /\ IF left \/ ~call[c].live
       THEN Record(c, "absent") /\ UNCHANGED <<pending, marked>>
       ELSE Record(c, "ambiguous") /\ MarkNeedingReconciliation({k}, call[c].ws)
    /\ call' = [call EXCEPT ![c] = IdleCall]
    /\ UNCHANGED <<session, opened, online, reconnects, candidates, hook>>

\* Cancellation in any await of subscribe: what the server did is unknown, so the
\* ticket is forced to the ambiguous outcome (the finally clause).
CancelSubscribe(c) ==
    LET k == call[c].key IN
    /\ call[c].op \in {"join", "rollback"}
    /\ \/ call[c].op = "join" /\ online /\ Current(c) /\ Joins(c)
       \/ call[c].op = "rollback" /\ LeaveAttempt(k, 1, FALSE, Current(c))
       \/ held' = held
    /\ IF call[c].live
       THEN Record(c, "ambiguous") /\ MarkNeedingReconciliation({k}, call[c].ws)
       ELSE UNCHANGED <<tracker, pending, marked>>
    /\ call' = [call EXCEPT ![c] = IdleCall]
    /\ UNCHANGED <<session, opened, online, reconnects, candidates, hook>>

-----------------------------------------------------------------------------
(* unsubscribe_room and _leave_agent_topic                                  *)

\* The tracker hands out a leave ticket for a key that is, or may be, joined.
MayUnsubscribe(k) == session # 0 /\ tracker[k] \in {"joined", "ambiguous"}

Unsubscribe(c, k) ==
    /\ MayUnsubscribe(k)
    /\ call[c].op = "idle"
    /\ call' = [call EXCEPT ![c] = [op |-> "leave", key |-> k, at |-> 1, ok |-> TRUE,
                                    live |-> TRUE, ws |-> session]]
    /\ tracker' = [tracker EXCEPT ![k] = "leaving"]
    /\ candidates' = candidates \ {k}
    /\ UNCHANGED <<session, opened, online, reconnects, held, pending, marked, hook>>

\* Every topic is left whether or not the one before it was; then the outcome.
LeaveEnds(c, left) ==
    LET k == call[c].key
        ok == call[c].ok /\ left
        last == call[c].at = TopicCount(k)
    IN
    /\ call[c].op = "leave" /\ (left => online /\ Current(c))
    /\ LeaveAttempt(k, call[c].at, left, Current(c))
    /\ IF ~last
       THEN /\ call' = [call EXCEPT ![c].at = @ + 1, ![c].ok = ok]
            /\ UNCHANGED <<tracker, pending, marked>>
       ELSE /\ call' = [call EXCEPT ![c] = IdleCall]
            /\ Record(c, IF ok THEN "absent" ELSE "ambiguous")
            /\ IF ok THEN UNCHANGED <<pending, marked>>
                     ELSE MarkNeedingReconciliation({k}, call[c].ws)
    /\ UNCHANGED <<session, opened, online, reconnects, candidates, hook>>

\* Cancelled while leaving: LeaveOutcome.Unknown.
CancelUnsubscribe(c) ==
    LET k == call[c].key IN
    /\ call[c].op = "leave"
    /\ LeaveAttempt(k, call[c].at, FALSE, Current(c))
    /\ Record(c, "ambiguous")
    /\ MarkNeedingReconciliation({k}, call[c].ws)
    /\ call' = [call EXCEPT ![c] = IdleCall]
    /\ UNCHANGED <<session, opened, online, reconnects, candidates, hook>>

-----------------------------------------------------------------------------
(* The transport and the reconnect hook                                     *)

TransportDrops ==
    /\ session # 0 /\ online
    /\ reconnects < MaxReconnects
    /\ online' = FALSE
    /\ UNCHANGED <<session, opened, reconnects, tracker, held, pending, marked, call,
                   candidates, hook>>

\* The client reconnected and rejoined its topics; one whose rejoin is rejected
\* is retired.  The hook starts: mark_reconnected, the retained snapshot, and
\* then it waits while agent_control is joined again, if that was retired.
Reconnects ==
    /\ session # 0 /\ ~online /\ hook.pc = "idle"
    /\ online' = TRUE /\ reconnects' = reconnects + 1
    /\ IF RejoinMayFail
       THEN \E lost \in SUBSET (UNION {{<<k, t>> : t \in held[k]} : k \in Keys}) :
                held' = [k \in Keys |-> {t \in held[k] : <<k, t>> \notin lost}]
       ELSE held' = held
    /\ candidates' = {k \in Keys : tracker[k] = "joined"}
    /\ hook' = [IdleHook EXCEPT !.pc = "control", !.ws = session, !.snapshot = held']
    /\ UNCHANGED <<session, opened, tracker, pending, marked, call>>

\* Rooms are drained before agent topics.
DrainOrder(todo) == IF todo \cap Rooms # {} THEN todo \cap Rooms ELSE todo

NextDrain(h, todo) ==
    IF todo = {} \/ h.ws # session
    THEN {[h EXCEPT !.pc = "done", !.todo = {}, !.key = NoKey, !.at = 1]}
    ELSE {[h EXCEPT !.pc = "drain", !.todo = todo, !.key = k, !.at = 1]
            : k \in DrainOrder(todo)}

\* The hook asks _connected_ws() again after the wait.
ThroughCurrent(h) == [h EXCEPT !.ws = session]

\* detect_rejoin_failures on the snapshot read before the wait, then the drain
\* begins, through the client that is current by now, be it a replacement and its
\* keys.  Without a client _connected_ws() raises and the hook is over.
DetectRejoinFailures ==
    LET dropped == {k \in candidates : tracker[k] = "joined"
                                       /\ hook.snapshot[k] # TopicsOf(k)}
    IN
    /\ hook.pc = "control"
    /\ tracker' = [k \in Keys |-> IF k \in dropped THEN "ambiguous" ELSE tracker[k]]
    /\ MarkNeedingReconciliation(dropped, hook.ws)
    /\ hook' \in IF session = 0 THEN {IdleHook} ELSE NextDrain(ThroughCurrent(hook), pending')
    /\ candidates' = {}
    /\ UNCHANGED <<session, opened, online, reconnects, held, call>>

\* Mutant of DrainLeave: a key is released although the transport kept its topic.
DrainLeaveReleases(left) ==
    LET k == hook.key
        last == hook.at = TopicCount(k)
    IN
    /\ hook.pc = "drain" /\ (left => online)
    /\ LeaveAttempt(k, hook.at, left, hook.ws = session)
    /\ IF last
       THEN /\ pending' = pending \ {k}
            /\ tracker' = IF tracker[k] = "ambiguous"
                          THEN [tracker EXCEPT ![k] = "absent"] ELSE tracker
            /\ hook' \in NextDrain(hook, hook.todo \ {k})
       ELSE hook' = [hook EXCEPT !.at = @ + 1] /\ UNCHANGED <<pending, tracker>>
    /\ UNCHANGED <<session, opened, online, reconnects, marked, call, candidates>>

\* One best-effort leave of the drain.  After the key's last topic it is
\* acknowledged and released, unless the session ended or a topic is retained.
DrainLeave(left) ==
    LET k == hook.key
        mine == hook.ws = session
        last == hook.at = TopicCount(k)
    IN
    /\ hook.pc = "drain" /\ (left => online /\ mine)
    /\ LeaveAttempt(k, hook.at, left, mine)
    /\ IF ~last
       THEN hook' = [hook EXCEPT !.at = @ + 1] /\ UNCHANGED <<pending, tracker>>
       ELSE /\ hook' \in NextDrain(hook, hook.todo \ {k})
            /\ IF mine /\ held'[k] = {}
               THEN /\ pending' = pending \ {k}
                    /\ tracker' = IF tracker[k] = "ambiguous"
                                  THEN [tracker EXCEPT ![k] = "absent"] ELSE tracker
               ELSE UNCHANGED <<pending, tracker>>
    /\ UNCHANGED <<session, opened, online, reconnects, marked, call, candidates>>

\* The hook's last act is to queue ReconnectedEvent.
HookEnds ==
    /\ hook.pc = "done"
    /\ hook' = IdleHook
    /\ UNCHANGED <<session, opened, online, reconnects, tracker, held, pending, marked,
                   call, candidates>>

\* disconnect(), once the client is closed: the session's tickets and blocks end
\* with it.
Disconnect ==
    /\ session # 0
    /\ session' = 0 /\ online' = FALSE
    /\ tracker' = [k \in Keys |-> "absent"]
    /\ held' = [k \in Keys |-> {}]
    /\ pending' = {} /\ candidates' = {}
    /\ call' = [c \in Callers |-> [call[c] EXCEPT !.live = FALSE]]
    /\ UNCHANGED <<opened, reconnects, marked, hook>>

\* connect()
Connect ==
    /\ session = 0 /\ opened < MaxSessions
    /\ session' = opened + 1 /\ opened' = opened + 1 /\ online' = TRUE
    /\ UNCHANGED <<reconnects, tracker, held, pending, marked, call, candidates, hook>>

-----------------------------------------------------------------------------

SubStep ==
    \/ \E c \in Callers : \/ JoinSucceeds(c)
                          \/ JoinFails(c)
                          \/ CancelSubscribe(c)
                          \/ CancelUnsubscribe(c)
                          \/ \E left \in BOOLEAN : RollbackEnds(c, left) \/ LeaveEnds(c, left)
    \/ TransportDrops
    \/ Reconnects
    \/ DetectRejoinFailures
    \/ \E left \in BOOLEAN : DrainLeave(left)

SubNext ==
    \/ SubStep
    \/ HookEnds
    \/ Disconnect
    \/ Connect
    \/ \E c \in Callers, k \in Keys : Subscribe(c, k) \/ Unsubscribe(c, k)

SubSpec == SubInit /\ [][SubNext]_subVars

-----------------------------------------------------------------------------

Statuses == {"absent", "joining", "joined", "leaving", "ambiguous"}

CallType ==
    [op : {"idle", "join", "rollback", "leave"}, key : Keys \cup {NoKey}, at : 1..2,
     ok : BOOLEAN, live : BOOLEAN, ws : Nat]

HookType ==
    [pc : {"idle", "control", "drain", "done"}, ws : Nat, snapshot : [Keys -> SUBSET (1..2)],
     todo : SUBSET Keys, key : Keys \cup {NoKey}, at : 1..2]

\* Types of the link's subscription state.
SubTypeOK ==
    /\ session \in Nat /\ opened \in Nat /\ reconnects \in Nat
    /\ online \in BOOLEAN
    /\ tracker \in [Keys -> Statuses]
    /\ held \in [Keys -> SUBSET (1..2)]
    /\ pending \in SUBSET Keys /\ candidates \in SUBSET Keys
    /\ marked \in [Keys -> Nat]
    /\ call \in [Callers -> CallType]
    /\ hook \in HookType

Quiet(k) == \A c \in Callers : call[c].key # k \/ call[c].ws # session

\* No topic is leaked: whatever topic the transport still holds belongs to a key
\* that is subscribed, is being worked on, or will be left at the next reconnect.
NoOrphanTopic ==
    \A k \in Keys : (held[k] # {} /\ Quiet(k)) => (tracker[k] = "joined" \/ k \in pending)

\* A key the tracker cannot decide about is always in the set a reconnect drains:
\* otherwise no ticket is ever given for it again in this session.  And a key is
\* blocked only by the session that met the ambiguity: an operation that outlives
\* its client blocks nothing in the session that replaced it.
AmbiguousIsBlocked ==
    /\ \A k \in Keys : tracker[k] = "ambiguous" => k \in pending
    /\ \A k \in pending : session # 0 /\ marked[k] = session

-----------------------------------------------------------------------------
(* The inductive invariant of the two properties *)

\* The status a key has while the operation op holds its current ticket.
Working(op) == IF op = "leave" THEN "leaving" ELSE "joining"

\* A client's number is never given out again.
SessionsFresh ==
    /\ session \in {0, opened}
    /\ \A c \in Callers : call[c].ws <= opened
    /\ hook.ws <= opened

\* A ticket is current exactly while its operation runs in its own session, and it
\* is the only one of its key.
TicketsCurrent ==
    /\ \A c \in Callers :
          /\ call[c].op = "idle" => call[c].key = NoKey /\ ~call[c].live
          /\ call[c].op # "idle" =>
                /\ call[c].key \in Keys /\ call[c].at \in TopicsOf(call[c].key)
                /\ call[c].ws # 0
                /\ call[c].live <=> call[c].ws = session
          /\ call[c].live => tracker[call[c].key] = Working(call[c].op)
    /\ \A c, d \in Callers :
          call[c].live /\ call[d].live /\ call[c].key = call[d].key => c = d
    /\ \A k \in Keys : tracker[k] \in {"joining", "leaving"} =>
          \E c \in Callers : call[c].live /\ call[c].key = k

\* What the transport may hold of the key of an operation x, at each of its points.
HeldFits(x, topics) ==
    /\ x.op = "join" => topics \subseteq (IF x.at = 1 THEN {} ELSE {1})
    /\ x.op = "rollback" => x.at = 1 /\ topics \subseteq {1}
    /\ x.op = "leave" /\ x.ok /\ x.at = 2 => 1 \notin topics

HoldingsKnown ==
    /\ \A k \in Keys : held[k] \subseteq TopicsOf(k)
    /\ \A k \in Keys : tracker[k] = "absent" /\ k \notin pending => held[k] = {}
    /\ \A c \in Callers : call[c].live => HeldFits(call[c], held[call[c].key])

\* What blocks a key, and what the hook works on: never a key that is being joined.
BlockedKeys ==
    /\ \A k \in Keys : tracker[k] = "ambiguous" => k \in pending
    /\ \A k \in pending : session # 0 /\ marked[k] = session /\ tracker[k] # "joining"
    /\ candidates # {} => hook.pc = "control" /\ hook.ws = session
    /\ hook.pc # "idle" => hook.ws # 0
    /\ hook.pc = "drain" =>
          /\ hook.key \in hook.todo /\ hook.at \in TopicsOf(hook.key)
          /\ hook.ws = session => hook.todo \subseteq pending

SubInv ==
    SubTypeOK /\ SessionsFresh /\ TicketsCurrent /\ HoldingsKnown /\ BlockedKeys

=============================================================================
