---------------------------- MODULE PresenceProof ----------------------------
(***************************************************************************)
(* What TLAPS proves of Subscriptions and of Presence, for any rooms, agent *)
(* channels, callers and bounds, whether or not the server may reject a     *)
(* rejoin.  SubInv is inductive for the link's subscriptions alone; every   *)
(* step of Presence is a step of theirs or leaves them alone, so SubInv     *)
(* holds there too, and PresenceInv is inductive beside it.                 *)
(***************************************************************************)
EXTENDS Presence, TLAPS


-----------------------------------------------------------------------------
(* The subscriptions: types *)

LEMMA TopicFacts ==
    ASSUME NEW k \in Keys
    PROVE  /\ TopicCount(k) \in {1, 2}
           /\ TopicsOf(k) = IF TopicCount(k) = 2 THEN {1, 2} ELSE {1}
<1>1. 1..2 = {1, 2} /\ 1..1 = {1} OBVIOUS
<1> QED BY <1>1 DEF TopicCount, TopicsOf

LEMMA IdleTyped ==
    /\ IdleCall \in CallType
    /\ IdleHook \in HookType /\ IdleHook.pc = "idle" /\ IdleHook.ws = 0
BY DEF IdleCall, IdleHook, CallType, HookType

LEMMA NextDrainTyped ==
    ASSUME NEW h \in HookType, NEW todo \in SUBSET Keys, NEW g \in NextDrain(h, todo)
    PROVE  /\ g \in HookType /\ g.ws = h.ws
           /\ \/ g.pc = "done"
              \/ /\ g.pc = "drain" /\ h.ws = session
                 /\ g.todo = todo /\ g.key \in todo /\ g.at = 1
<1>0. /\ h.ws \in Nat /\ h.snapshot \in [Keys -> SUBSET (1..2)]
      /\ 1 \in 1..2 /\ NoKey \in Keys \cup {NoKey}
  BY DEF HookType
<1>1. CASE g = [h EXCEPT !.pc = "done", !.todo = {}, !.key = NoKey, !.at = 1]
  BY <1>0, <1>1 DEF HookType
<1>2. CASE /\ h.ws = session
           /\ \E k \in DrainOrder(todo) :
                 g = [h EXCEPT !.pc = "drain", !.todo = todo, !.key = k, !.at = 1]
  <2>1. PICK k \in DrainOrder(todo) :
            g = [h EXCEPT !.pc = "drain", !.todo = todo, !.key = k, !.at = 1]
    BY <1>2
  <2>2. k \in todo /\ k \in Keys BY DEF DrainOrder
  <2>3. g = [pc |-> "drain", ws |-> h.ws, snapshot |-> h.snapshot, todo |-> todo,
             key |-> k, at |-> 1]
    BY <2>1 DEF HookType
  <2>4. g \in HookType BY <1>0, <2>2, <2>3 DEF HookType
  <2> QED BY <1>2, <2>2, <2>3, <2>4
<1> QED BY <1>1, <1>2 DEF NextDrain

-----------------------------------------------------------------------------
(* The subscriptions: what the shared parts of the actions do, key by key *)

LEMMA RecordEffect ==
    ASSUME SubTypeOK, NEW c \in Callers, NEW status \in Statuses, Record(c, status)
    PROVE  /\ tracker' \in [Keys -> Statuses]
           /\ \A k \in Keys : tracker'[k] =
                 IF call[c].live /\ k = call[c].key THEN status ELSE tracker[k]
BY DEF Record, SubTypeOK

LEMMA LeaveEffect ==
    ASSUME SubTypeOK, NEW k \in Keys, NEW topic, NEW left \in BOOLEAN, NEW mine \in BOOLEAN,
           LeaveAttempt(k, topic, left, mine)
    PROVE  /\ held' \in [Keys -> SUBSET (1..2)]
           /\ \A j \in Keys : held'[j] \subseteq held[j] /\ (j # k => held'[j] = held[j])
           /\ mine /\ left => topic \notin held'[k]
           /\ ~mine => held' = held
BY DEF LeaveAttempt, SubTypeOK

LEMMA MarkEffect ==
    ASSUME SubTypeOK, NEW ks \in SUBSET Keys, NEW ws \in Nat,
           MarkNeedingReconciliation(ks, ws)
    PROVE  /\ pending' \in SUBSET Keys /\ marked' \in [Keys -> Nat]
           /\ ws = session =>
                /\ pending' = pending \cup ks
                /\ \A k \in Keys : marked'[k] = IF k \in ks THEN ws ELSE marked[k]
           /\ ws # session => pending' = pending /\ marked' = marked
BY DEF MarkNeedingReconciliation, SubTypeOK

LEMMA CallEffect ==
    ASSUME SubTypeOK, NEW c \in Callers, NEW x \in CallType,
           call' = [call EXCEPT ![c] = x]
    PROVE  /\ call' \in [Callers -> CallType]
           /\ call'[c] = x
           /\ \A d \in Callers : d # c => call'[d] = call[d]
BY DEF SubTypeOK

LEMMA CallFields ==
    ASSUME SubTypeOK, NEW c \in Callers
    PROVE  /\ call[c].op \in {"idle", "join", "rollback", "leave"}
           /\ call[c].key \in Keys \cup {NoKey}
           /\ call[c].at \in {1, 2}
           /\ call[c].ok \in BOOLEAN /\ call[c].live \in BOOLEAN
           /\ call[c].ws \in Nat
<1>1. call[c] \in CallType BY DEF SubTypeOK
<1> QED BY <1>1 DEF CallType

LEMMA InitSub == SubInit => SubInv
<1> SUFFICES ASSUME SubInit PROVE SubInv OBVIOUS
<1> USE DEF SubInit
<1>1. SubTypeOK BY IdleTyped DEF SubTypeOK, Statuses
<1>2. SessionsFresh BY DEF SessionsFresh, IdleCall, IdleHook
<1>3. TicketsCurrent BY DEF TicketsCurrent, IdleCall
<1>4. HoldingsKnown BY DEF HoldingsKnown, IdleCall
<1>5. BlockedKeys BY DEF BlockedKeys, IdleHook
<1> QED BY <1>1, <1>2, <1>3, <1>4, <1>5 DEF SubInv

\* What is known of an operation under way.
LEMMA Underway ==
    ASSUME SubInv, NEW c \in Callers, call[c].op # "idle"
    PROVE  /\ call[c].key \in Keys /\ call[c].at \in TopicsOf(call[c].key)
           /\ call[c].live <=> Current(c)
           /\ call[c].live =>
                /\ tracker[call[c].key] = Working(call[c].op)
                /\ session # 0
                /\ call[c].op # "leave" => call[c].key \notin pending
           /\ held[call[c].key] \subseteq TopicsOf(call[c].key)
<1> USE CallFields DEF SubInv
<1>1. /\ call[c].key \in Keys /\ call[c].at \in TopicsOf(call[c].key)
      /\ call[c].live <=> Current(c)
      /\ call[c].ws # 0
      /\ call[c].live => tracker[call[c].key] = Working(call[c].op)
  BY DEF TicketsCurrent, Current
<1>2. call[c].live /\ call[c].op # "leave" => call[c].key \notin pending
  BY <1>1 DEF BlockedKeys, Working
<1>3. held[call[c].key] \subseteq TopicsOf(call[c].key) BY <1>1 DEF HoldingsKnown
<1> QED BY <1>1, <1>2, <1>3 DEF Current

\* The end of an operation: its ticket is resolved to a status, and the invariant is
\* kept if that status is true of what the transport holds.
LEMMA CallOver ==
    ASSUME SubInv, NEW c \in Callers, call[c].op # "idle",
           NEW status \in {"absent", "joined", "ambiguous"},
           call' = [call EXCEPT ![c] = IdleCall],
           tracker' \in [Keys -> Statuses],
           \A k \in Keys : tracker'[k] =
              IF call[c].live /\ k = call[c].key THEN status ELSE tracker[k],
           held' \in [Keys -> SUBSET (1..2)],
           \A k \in Keys : k # call[c].key => held'[k] = held[k],
           ~call[c].live => held' = held,
           held'[call[c].key] \subseteq TopicsOf(call[c].key),
           pending' \in SUBSET Keys, marked' \in [Keys -> Nat],
           pending \subseteq pending',
           \A k \in Keys : k # call[c].key \/ ~call[c].live =>
              (k \in pending' <=> k \in pending) /\ marked'[k] = marked[k],
           call[c].key \in pending' => call[c].key \in pending \/ status = "ambiguous",
           call[c].key \in pending' => marked'[call[c].key] \in {marked[call[c].key], session},
           call[c].live /\ status = "ambiguous" => marked'[call[c].key] = session,
           call[c].live /\ status = "ambiguous" => call[c].key \in pending',
           call[c].live /\ status = "absent" =>
              held'[call[c].key] = {} \/ call[c].key \in pending',
           UNCHANGED <<session, opened, online, reconnects, candidates, hook>>
    PROVE  SubInv'
<1> USE DEF SubInv
<1> DEFINE key == call[c].key
<1>0. /\ key \in Keys
      /\ call[c].live => session # 0
  BY Underway
<1>1. /\ call' \in [Callers -> CallType]
      /\ call'[c] = IdleCall
      /\ \A d \in Callers : d # c => call'[d] = call[d]
  BY CallEffect, IdleTyped
<1>2. \A d \in Callers : call'[d].live =>
         d # c /\ call'[d] = call[d] /\ (call[c].live => call[d].key # key)
  BY <1>1 DEF TicketsCurrent, IdleCall
<1>3. SubTypeOK' BY <1>1 DEF SubTypeOK
<1>4. SessionsFresh'
  BY <1>1 DEF SessionsFresh, IdleCall, SubTypeOK
<1>5. TicketsCurrent'
  <2>1. ASSUME NEW d \in Callers
        PROVE  /\ call'[d].op = "idle" => call'[d].key = NoKey /\ ~call'[d].live
               /\ call'[d].op # "idle" =>
                     /\ call'[d].key \in Keys /\ call'[d].at \in TopicsOf(call'[d].key)
                     /\ call'[d].ws # 0
                     /\ call'[d].live <=> call'[d].ws = session'
    BY <1>1 DEF TicketsCurrent, IdleCall
  <2>2. ASSUME NEW d \in Callers, call'[d].live
        PROVE  tracker'[call'[d].key] = Working(call'[d].op)
    <3>1. /\ call'[d] = call[d] /\ call[d].key \in Keys
          /\ call[c].live => call[d].key # key
          /\ tracker[call[d].key] = Working(call[d].op)
      BY <1>2, <2>2 DEF TicketsCurrent
    <3> QED BY <3>1
  <2>3. ASSUME NEW k \in Keys, tracker'[k] \in {"joining", "leaving"}
        PROVE  \E d \in Callers : call'[d].live /\ call'[d].key = k
    <3>1. /\ tracker[k] \in {"joining", "leaving"}
          /\ ~(call[c].live /\ k = key)
      BY <2>3
    <3>2. PICK d \in Callers : call[d].live /\ call[d].key = k
      BY <3>1 DEF TicketsCurrent
    <3> QED BY <1>1, <3>1, <3>2
  <2>4. \A d, e \in Callers :
           call'[d].live /\ call'[e].live /\ call'[d].key = call'[e].key => d = e
    BY <1>2 DEF TicketsCurrent
  <2> QED BY <2>1, <2>2, <2>3, <2>4 DEF TicketsCurrent
<1>6. HoldingsKnown'
  <2>1. \A k \in Keys : held'[k] \subseteq TopicsOf(k) BY <1>0 DEF HoldingsKnown
  <2>2. ASSUME NEW k \in Keys, tracker'[k] = "absent", k \notin pending'
        PROVE  held'[k] = {}
    BY <2>2 DEF HoldingsKnown
  <2>3. ASSUME NEW d \in Callers, call'[d].live
        PROVE  call'[d] = call[d] /\ held'[call[d].key] = held[call[d].key]
    <3>1. /\ call'[d] = call[d] /\ call[d].key \in Keys
          /\ call[c].live => call[d].key # key
      BY <1>2, <2>3 DEF TicketsCurrent
    <3> QED BY <3>1
  <2>4. ASSUME NEW d \in Callers, call'[d].live
        PROVE  HeldFits(call'[d], held'[call'[d].key])
    <3>1. call'[d] = call[d] /\ held'[call[d].key] = held[call[d].key] BY <2>3, <2>4
    <3>2. HeldFits(call[d], held[call[d].key]) BY <2>4, <3>1 DEF HoldingsKnown
    <3> QED BY <3>1, <3>2
  <2> QED BY <2>1, <2>2, <2>4 DEF HoldingsKnown
<1>7. BlockedKeys'
  <2>1. ASSUME NEW k \in Keys, tracker'[k] = "ambiguous"
        PROVE  k \in pending'
    BY <2>1 DEF BlockedKeys
  <2>2. ASSUME NEW k \in pending'
        PROVE  session' # 0 /\ marked'[k] = session' /\ tracker'[k] # "joining"
    <3>1. CASE k = key /\ call[c].live
      BY <1>0, <3>1 DEF BlockedKeys
    <3>2. CASE ~(k = key /\ call[c].live)
      <4>1. k \in pending /\ marked'[k] = marked[k] /\ tracker'[k] = tracker[k]
        BY <3>2
      <4> QED BY <4>1 DEF BlockedKeys
    <3> QED BY <3>1, <3>2
  <2> QED BY <2>1, <2>2 DEF BlockedKeys
<1> QED BY <1>3, <1>4, <1>5, <1>6, <1>7

\* An operation goes on to its next topic, or to its rollback.
LEMMA CallMoves ==
    ASSUME SubInv, NEW c \in Callers, call[c].op # "idle",
           NEW x \in CallType, call' = [call EXCEPT ![c] = x],
           x.op # "idle", Working(x.op) = Working(call[c].op),
           x.key = call[c].key, x.live = call[c].live, x.ws = call[c].ws,
           x.at \in TopicsOf(x.key),
           held' \in [Keys -> SUBSET (1..2)],
           \A k \in Keys : k # call[c].key => held'[k] = held[k],
           ~call[c].live => held' = held,
           held'[call[c].key] \subseteq TopicsOf(call[c].key),
           x.live => HeldFits(x, held'[x.key]),
           UNCHANGED <<session, opened, online, reconnects, tracker, pending, marked,
                       candidates, hook>>
    PROVE  SubInv'
<1> USE DEF SubInv
<1> DEFINE key == call[c].key
<1>0. key \in Keys /\ (call[c].live => tracker[key] = Working(call[c].op)) BY Underway
<1>1. /\ call' \in [Callers -> CallType]
      /\ call'[c] = x
      /\ \A d \in Callers : d # c => call'[d] = call[d]
  BY CallEffect
<1>2. \A d \in Callers : call'[d].live = call[d].live /\ call'[d].key = call[d].key
                          /\ call'[d].ws = call[d].ws
                          /\ Working(call'[d].op) = Working(call[d].op)
                          /\ (call'[d].op = "idle" <=> call[d].op = "idle")
  BY <1>1
<1>3. SubTypeOK' BY <1>1 DEF SubTypeOK
<1>4. SessionsFresh' BY <1>2 DEF SessionsFresh
<1>5. TicketsCurrent'
  <2>1. \A d \in Callers : call'[d].op # "idle" => call'[d].at \in TopicsOf(call'[d].key)
    BY <1>1 DEF TicketsCurrent
  <2> QED BY <1>2, <2>1 DEF TicketsCurrent
<1>6. HoldingsKnown'
  <2>1. \A k \in Keys : held'[k] \subseteq TopicsOf(k) BY <1>0 DEF HoldingsKnown
  <2>2. ASSUME NEW k \in Keys, tracker'[k] = "absent", k \notin pending'
        PROVE  held'[k] = {}
    BY <1>0, <2>2 DEF HoldingsKnown, Working
  <2>3. ASSUME NEW d \in Callers, call'[d].live
        PROVE  HeldFits(call'[d], held'[call'[d].key])
    <3>1. CASE d = c BY <1>1, <2>3, <3>1
    <3>2. CASE d # c
      <4>1. /\ call'[d] = call[d] /\ call[d].live /\ call[d].key \in Keys
            /\ call[c].live => call[d].key # key
        BY <1>1, <1>2, <2>3, <3>2 DEF TicketsCurrent
      <4>2. held'[call[d].key] = held[call[d].key] BY <4>1
      <4>3. HeldFits(call[d], held[call[d].key]) BY <4>1 DEF HoldingsKnown
      <4> QED BY <4>1, <4>2, <4>3
    <3> QED BY <3>1, <3>2
  <2> QED BY <2>1, <2>2, <2>3 DEF HoldingsKnown
<1>7. BlockedKeys' BY DEF BlockedKeys
<1> QED BY <1>3, <1>4, <1>5, <1>6, <1>7

LEMMA SubscribeKeeps ==
    ASSUME SubInv, NEW c \in Callers, NEW k \in Keys, Subscribe(c, k)
    PROVE  SubInv'
<1> USE TopicFacts, IdleTyped DEF SubInv
<1>1. SubTypeOK' BY SMT DEF SubTypeOK, Statuses, CallType, HookType, Subscribe, MaySubscribe
<1>2. SessionsFresh' BY SMT DEF SubTypeOK, SessionsFresh, IdleCall, IdleHook, Subscribe, MaySubscribe
<1>3. TicketsCurrent' BY SMT DEF SubTypeOK, SessionsFresh, TicketsCurrent, Working, IdleCall, IdleHook, Subscribe, MaySubscribe
<1>4. HoldingsKnown' BY SMT DEF SubTypeOK, SessionsFresh, TicketsCurrent, HoldingsKnown, HeldFits, BlockedKeys, Working, IdleCall, IdleHook, Subscribe, MaySubscribe
<1>5. BlockedKeys' BY SMT DEF SubTypeOK, SessionsFresh, TicketsCurrent, HoldingsKnown, HeldFits, BlockedKeys, Working, IdleCall, IdleHook, Subscribe, MaySubscribe
<1> QED BY <1>1, <1>2, <1>3, <1>4, <1>5

LEMMA UnsubscribeKeeps ==
    ASSUME SubInv, NEW c \in Callers, NEW k \in Keys, Unsubscribe(c, k)
    PROVE  SubInv'
<1> USE TopicFacts, IdleTyped DEF SubInv
<1>1. SubTypeOK' BY SMT DEF SubTypeOK, Statuses, CallType, HookType, Unsubscribe, MayUnsubscribe
<1>2. SessionsFresh' BY SMT DEF SubTypeOK, SessionsFresh, IdleCall, IdleHook, Unsubscribe, MayUnsubscribe
<1>3. TicketsCurrent' BY SMT DEF SubTypeOK, SessionsFresh, TicketsCurrent, Working, IdleCall, IdleHook, Unsubscribe, MayUnsubscribe
<1>4. HoldingsKnown' BY SMT DEF SubTypeOK, SessionsFresh, TicketsCurrent, HoldingsKnown, HeldFits, BlockedKeys, Working, IdleCall, IdleHook, Unsubscribe, MayUnsubscribe
<1>5. BlockedKeys' BY SMT DEF SubTypeOK, SessionsFresh, TicketsCurrent, HoldingsKnown, HeldFits, BlockedKeys, Working, IdleCall, IdleHook, Unsubscribe, MayUnsubscribe
<1> QED BY <1>1, <1>2, <1>3, <1>4, <1>5

\* JoinSucceeds and JoinFails.
LEMMA JoinKeeps ==
    ASSUME SubInv, NEW c \in Callers, JoinSucceeds(c) \/ JoinFails(c)
    PROVE  SubInv'
<1> DEFINE k == call[c].key
           last == call[c].at = TopicCount(k)
<1>0. SubTypeOK /\ call[c].op = "join" BY DEF SubInv, JoinSucceeds, JoinFails
<1>1. /\ k \in Keys /\ call[c].at \in TopicsOf(k)
      /\ call[c].live <=> Current(c)
      /\ call[c].live => k \notin pending
      /\ held[k] \subseteq TopicsOf(k)
      /\ call[c].live => held[k] \subseteq (IF call[c].at = 1 THEN {} ELSE {1})
  BY <1>0, Underway DEF SubInv, HoldingsKnown, HeldFits
<1>2. call[c] \in CallType BY <1>0 DEF SubTypeOK
<1>3. CASE JoinSucceeds(c)
  <2>1. /\ call[c].live
        /\ held' \in [Keys -> SUBSET (1..2)]
        /\ \A j \in Keys : held'[j] = IF j = k THEN held[k] \cup {call[c].at} ELSE held[j]
        /\ UNCHANGED <<session, opened, online, reconnects, pending, marked, candidates, hook>>
    BY <1>0, <1>1, <1>3, CallFields DEF JoinSucceeds, Joins, SubTypeOK
  <2>2. held'[k] \subseteq TopicsOf(k) BY <1>1, <2>1
  <2>3. CASE last
    <3>1. call' = [call EXCEPT ![c] = IdleCall] BY <1>3, <2>3 DEF JoinSucceeds
    <3>2. Record(c, "joined") BY <1>3, <2>3 DEF JoinSucceeds
    <3>3. /\ tracker' \in [Keys -> Statuses]
          /\ \A j \in Keys : tracker'[j] =
                IF call[c].live /\ j = call[c].key THEN "joined" ELSE tracker[j]
      BY <1>0, <3>2, RecordEffect DEF Statuses
    <3> HIDE DEF last, k
    <3> QED BY <1>0, <1>1, <2>1, <2>2, <3>1, <3>3, CallOver DEF k, SubTypeOK
  <2>4. CASE ~last
    <3> DEFINE x == [call[c] EXCEPT !.at = call[c].at + 1]
    <3>1. tracker' = tracker BY <1>3, <2>4 DEF JoinSucceeds
    <3>2. call' = [call EXCEPT ![c] = x]
      <4>1. call' = [call EXCEPT ![c] = IF last THEN IdleCall ELSE x]
        BY <1>3, Zenon DEF JoinSucceeds
      <4> QED BY <2>4, <4>1
    <3>3. TopicCount(k) = 2 /\ call[c].at = 1 /\ 2 \in TopicsOf(k)
      BY <1>1, <2>4, TopicFacts
    <3>4. /\ x \in CallType /\ x.op = "join" /\ x.key = k /\ x.live = call[c].live
          /\ x.ws = call[c].ws /\ x.at = 2
      BY <1>0, <1>2, <3>3 DEF CallType
    <3>5. held'[k] \subseteq {1} BY <1>1, <2>1, <3>3
    <3>6. Working(x.op) = Working(call[c].op) /\ x.at # 1 /\ x.at \in TopicsOf(x.key)
      BY <1>0, <3>3, <3>4
    <3>7. HeldFits(x, held'[k]) BY <3>4, <3>5 DEF HeldFits
    <3> HIDE DEF x, last, k
    <3> QED BY <1>0, <1>1, <2>1, <2>2, <3>1, <3>2, <3>4, <3>6, <3>7, CallMoves DEF k
  <2> QED BY <2>3, <2>4
<1>4. CASE JoinFails(c)
  <2>1. UNCHANGED <<session, opened, online, reconnects, held, pending, marked,
                    candidates, hook>>
    BY <1>4 DEF JoinFails
  <2>2. CASE call[c].at = 1
    <3>1. call' = [call EXCEPT ![c] = IdleCall] /\ Record(c, "absent")
      BY <1>4, <2>2 DEF JoinFails
    <3>2. /\ tracker' \in [Keys -> Statuses]
          /\ \A j \in Keys : tracker'[j] =
                IF call[c].live /\ j = call[c].key THEN "absent" ELSE tracker[j]
      BY <1>0, <3>1, RecordEffect DEF Statuses
    <3> HIDE DEF last, k
    <3> QED BY <1>0, <1>1, <2>1, <2>2, <3>1, <3>2, CallOver DEF k, SubTypeOK
  <2>3. CASE call[c].at # 1
    <3> DEFINE x == [call[c] EXCEPT !.op = "rollback", !.at = 1]
    <3>1. call' = [call EXCEPT ![c].op = "rollback", ![c].at = 1] /\ tracker' = tracker
      BY <1>4, <2>3 DEF JoinFails
    <3>2. call' = [call EXCEPT ![c] = x]
      BY <1>0, <3>1 DEF SubTypeOK, CallType
    <3>3. /\ x \in CallType /\ x.op = "rollback" /\ x.key = k /\ x.live = call[c].live
          /\ x.ws = call[c].ws /\ x.at = 1
      BY <1>2, 1 \in 1..2 DEF CallType
    <3>4. 1 \in TopicsOf(k) /\ Working(x.op) = Working(call[c].op)
      BY <1>0, <1>1, <3>3, TopicFacts DEF Working
    <3>5. x.live => HeldFits(x, held'[k]) BY <1>1, <2>1, <2>3, <3>3 DEF HeldFits
    <3> HIDE DEF x, last, k
    <3> QED BY <1>0, <1>1, <2>1, <2>3, <3>1, <3>2, <3>3, <3>4, <3>5, CallMoves DEF k, SubTypeOK
  <2> QED BY <2>2, <2>3
<1> QED BY <1>3, <1>4

\* Every other end of an operation: what it did to the transport, then its outcome.
LEMMA AmbiguousEnd ==
    ASSUME SubInv, NEW c \in Callers, call[c].op # "idle",
           call' = [call EXCEPT ![c] = IdleCall],
           held' \in [Keys -> SUBSET (1..2)],
           \A k \in Keys : k # call[c].key => held'[k] = held[k],
           ~call[c].live => held' = held,
           held'[call[c].key] \subseteq TopicsOf(call[c].key),
           Record(c, "ambiguous"), MarkNeedingReconciliation({call[c].key}, call[c].ws),
           UNCHANGED <<session, opened, online, reconnects, candidates, hook>>
    PROVE  SubInv'
<1> DEFINE k == call[c].key
<1>0. SubTypeOK BY DEF SubInv
<1>1. /\ k \in Keys
      /\ call[c].live <=> call[c].ws = session
      /\ call[c].ws \in Nat
  BY <1>0, Underway, CallFields DEF Current
<1>2. /\ tracker' \in [Keys -> Statuses]
      /\ \A j \in Keys : tracker'[j] =
            IF call[c].live /\ j = call[c].key THEN "ambiguous" ELSE tracker[j]
  BY <1>0, RecordEffect DEF Statuses
<1>3. /\ pending' \in SUBSET Keys /\ marked' \in [Keys -> Nat]
      /\ call[c].ws = session =>
           /\ pending' = pending \cup {k}
           /\ \A j \in Keys : marked'[j] = IF j \in {k} THEN call[c].ws ELSE marked[j]
      /\ call[c].ws # session => pending' = pending /\ marked' = marked
  BY <1>0, <1>1, MarkEffect
<1> HIDE DEF k
<1>4. /\ pending \subseteq pending'
      /\ \A j \in Keys : j # k \/ ~call[c].live =>
            (j \in pending' <=> j \in pending) /\ marked'[j] = marked[j]
      /\ k \in pending' => marked'[k] \in {marked[k], session}
      /\ call[c].live => k \in pending' /\ marked'[k] = session
  BY <1>1, <1>3
<1> QED BY <1>1, <1>2, <1>3, <1>4, CallOver DEF k

\* A clean end: the ticket resolves to absent and the transport holds nothing.
LEMMA CleanEnd ==
    ASSUME SubInv, NEW c \in Callers, call[c].op # "idle",
           call' = [call EXCEPT ![c] = IdleCall],
           held' \in [Keys -> SUBSET (1..2)],
           \A k \in Keys : k # call[c].key => held'[k] = held[k],
           ~call[c].live => held' = held,
           held'[call[c].key] \subseteq TopicsOf(call[c].key),
           call[c].live => held'[call[c].key] = {},
           Record(c, "absent"),
           UNCHANGED <<session, opened, online, reconnects, candidates, hook, pending, marked>>
    PROVE  SubInv'
<1>0. SubTypeOK BY DEF SubInv
<1>1. /\ tracker' \in [Keys -> Statuses]
      /\ \A j \in Keys : tracker'[j] =
            IF call[c].live /\ j = call[c].key THEN "absent" ELSE tracker[j]
  BY <1>0, RecordEffect DEF Statuses
<1>2. pending' \in SUBSET Keys /\ marked' \in [Keys -> Nat] BY <1>0 DEF SubTypeOK
<1> QED BY <1>1, <1>2, CallOver

LEMMA RollbackKeeps ==
    ASSUME SubInv, NEW c \in Callers, NEW left \in BOOLEAN, RollbackEnds(c, left)
    PROVE  SubInv'
<1> DEFINE k == call[c].key
<1>0. SubTypeOK /\ call[c].op = "rollback" BY DEF SubInv, RollbackEnds
<1>1. /\ k \in Keys
      /\ call[c].live <=> Current(c)
      /\ held[k] \subseteq TopicsOf(k)
      /\ call[c].live => held[k] \subseteq {1}
  BY <1>0, Underway DEF SubInv, HoldingsKnown, HeldFits
<1>2. /\ held' \in [Keys -> SUBSET (1..2)]
      /\ \A j \in Keys : held'[j] \subseteq held[j] /\ (j # k => held'[j] = held[j])
      /\ Current(c) /\ left => 1 \notin held'[k]
      /\ ~Current(c) => held' = held
  <2>1. LeaveAttempt(k, 1, left, Current(c)) /\ Current(c) \in BOOLEAN
    BY DEF RollbackEnds, Current
  <2> HIDE DEF k
  <2> QED BY <1>0, <1>1, <2>1, LeaveEffect
<1>3. /\ call' = [call EXCEPT ![c] = IdleCall]
      /\ UNCHANGED <<session, opened, online, reconnects, candidates, hook>>
  BY DEF RollbackEnds
<1>4. CASE left \/ ~call[c].live
  <2>1. Record(c, "absent") /\ UNCHANGED <<pending, marked>> BY <1>4 DEF RollbackEnds
  <2>2. call[c].live => held'[k] = {} BY <1>1, <1>2, <1>4
  <2> HIDE DEF k
  <2> QED BY <1>0, <1>1, <1>2, <1>3, <2>1, <2>2, CleanEnd DEF k
<1>5. CASE ~(left \/ ~call[c].live)
  <2>1. Record(c, "ambiguous") /\ MarkNeedingReconciliation({k}, call[c].ws)
    BY <1>5 DEF RollbackEnds
  <2> HIDE DEF k
  <2> QED BY <1>0, <1>1, <1>2, <1>3, <2>1, AmbiguousEnd DEF k
<1> QED BY <1>4, <1>5

LEMMA CancelSubscribeKeeps ==
    ASSUME SubInv, NEW c \in Callers, CancelSubscribe(c)
    PROVE  SubInv'
<1> DEFINE k == call[c].key
<1>0. SubTypeOK /\ call[c].op \in {"join", "rollback"} BY DEF SubInv, CancelSubscribe
<1>1. /\ k \in Keys /\ call[c].at \in TopicsOf(k)
      /\ call[c].live <=> Current(c)
      /\ held[k] \subseteq TopicsOf(k)
  BY <1>0, Underway DEF SubInv
<1>2. /\ held' \in [Keys -> SUBSET (1..2)]
      /\ \A j \in Keys : j # k => held'[j] = held[j]
      /\ held'[k] \subseteq TopicsOf(k)
      /\ ~call[c].live => held' = held
  <2>1. CASE Current(c) /\ Joins(c)
    BY <1>0, <1>1, <2>1, CallFields DEF Joins, SubTypeOK
  <2>2. CASE LeaveAttempt(k, 1, FALSE, Current(c))
    <3>1. Current(c) \in BOOLEAN BY DEF Current
    <3> HIDE DEF k
    <3> QED BY <1>0, <1>1, <2>2, <3>1, LeaveEffect
  <2>3. CASE held' = held
    BY <1>0, <1>1, <2>3 DEF SubTypeOK
  <2> QED BY <2>1, <2>2, <2>3 DEF CancelSubscribe
<1>3. /\ call' = [call EXCEPT ![c] = IdleCall]
      /\ UNCHANGED <<session, opened, online, reconnects, candidates, hook>>
  BY DEF CancelSubscribe
<1>4. CASE call[c].live
  <2>1. Record(c, "ambiguous") /\ MarkNeedingReconciliation({k}, call[c].ws)
    BY <1>4 DEF CancelSubscribe
  <2> HIDE DEF k
  <2> QED BY <1>0, <1>1, <1>2, <1>3, <2>1, AmbiguousEnd DEF k
<1>5. CASE ~call[c].live
  <2>1. Record(c, "absent") /\ UNCHANGED <<pending, marked>>
    BY <1>5 DEF CancelSubscribe, Record
  <2> HIDE DEF k
  <2> QED BY <1>0, <1>1, <1>2, <1>3, <1>5, <2>1, CleanEnd DEF k
<1> QED BY <1>4, <1>5

\* LeaveEnds and CancelUnsubscribe.
LEMMA LeaveKeeps ==
    ASSUME SubInv, NEW c \in Callers, NEW left \in BOOLEAN,
           LeaveEnds(c, left) \/ (left = FALSE /\ CancelUnsubscribe(c))
    PROVE  SubInv'
<1> DEFINE k == call[c].key
           ok == call[c].ok /\ left
           last == call[c].at = TopicCount(k)
<1>0. SubTypeOK /\ call[c].op = "leave" BY DEF SubInv, LeaveEnds, CancelUnsubscribe
<1>1. /\ k \in Keys /\ call[c].at \in TopicsOf(k)
      /\ call[c].live <=> Current(c)
      /\ held[k] \subseteq TopicsOf(k)
      /\ call[c].live /\ call[c].ok /\ call[c].at = 2 => 1 \notin held[k]
  BY <1>0, Underway DEF SubInv, HoldingsKnown, HeldFits
<1>2. /\ held' \in [Keys -> SUBSET (1..2)]
      /\ \A j \in Keys : held'[j] \subseteq held[j] /\ (j # k => held'[j] = held[j])
      /\ Current(c) /\ left => call[c].at \notin held'[k]
      /\ ~Current(c) => held' = held
  <2>1. LeaveAttempt(k, call[c].at, left, Current(c)) /\ Current(c) \in BOOLEAN
    BY DEF LeaveEnds, CancelUnsubscribe, Current
  <2> HIDE DEF k
  <2> QED BY <1>0, <1>1, <2>1, LeaveEffect
<1>3. UNCHANGED <<session, opened, online, reconnects, candidates, hook>>
  BY DEF LeaveEnds, CancelUnsubscribe
<1>4. CASE LeaveEnds(c, left) /\ last /\ ok
  <2>1. /\ call' = [call EXCEPT ![c] = IdleCall]
        /\ Record(c, "absent") /\ UNCHANGED <<pending, marked>>
    BY <1>4 DEF LeaveEnds
  <2>2. call[c].live => held'[k] = {}
    BY <1>1, <1>2, <1>4, TopicFacts
  <2> HIDE DEF k
  <2> QED BY <1>0, <1>1, <1>2, <1>3, <2>1, <2>2, CleanEnd DEF k
<1>5. CASE (LeaveEnds(c, left) /\ last /\ ~ok) \/ CancelUnsubscribe(c)
  <2>1. /\ call' = [call EXCEPT ![c] = IdleCall]
        /\ Record(c, "ambiguous") /\ MarkNeedingReconciliation({k}, call[c].ws)
    BY <1>5 DEF LeaveEnds, CancelUnsubscribe
  <2> HIDE DEF k
  <2> QED BY <1>0, <1>1, <1>2, <1>3, <2>1, AmbiguousEnd DEF k
<1>6. CASE LeaveEnds(c, left) /\ ~last
  <2> DEFINE x == [call[c] EXCEPT !.at = call[c].at + 1, !.ok = ok]
  <2>0. call[c] \in CallType /\ ok \in BOOLEAN BY <1>0, CallFields DEF SubTypeOK
  <2>1. /\ call' = [call EXCEPT ![c].at = @ + 1, ![c].ok = ok]
        /\ UNCHANGED <<tracker, pending, marked>>
    BY <1>6 DEF LeaveEnds
  <2>2. TopicCount(k) = 2 /\ call[c].at = 1 /\ 2 \in TopicsOf(k)
    BY <1>1, <1>6, TopicFacts
  <2> HIDE DEF ok
  <2>3. call' = [call EXCEPT ![c] = x] BY <1>0, <2>1 DEF SubTypeOK, CallType
  <2>4. /\ x \in CallType /\ x.op = "leave" /\ x.key = k /\ x.live = call[c].live
        /\ x.ws = call[c].ws /\ x.at = 2 /\ x.ok = ok
    <3>1. call[c].at + 1 = 2 BY <2>2
    <3>2. x = [call[c] EXCEPT !.at = 2, !.ok = ok] BY <3>1
    <3> HIDE DEF x
    <3> QED BY <1>0, <2>0, <3>2, 2 \in 1..2 DEF CallType
  <2>5. x.live => HeldFits(x, held'[k]) BY <1>1, <1>2, <2>2, <2>4 DEF ok, HeldFits
  <2>6. Working(x.op) = Working(call[c].op) /\ x.at \in TopicsOf(x.key)
    BY <1>0, <2>2, <2>4
  <2> HIDE DEF x, last, k
  <2> QED BY <1>0, <1>1, <1>2, <1>3, <2>1, <2>3, <2>4, <2>5, <2>6, CallMoves DEF k
<1> QED BY <1>4, <1>5, <1>6

\* A step of the hook or the transport runs no operation and takes nothing into the
\* transport.
LEMMA HookStep ==
    ASSUME SubInv, SubTypeOK',
           \A k \in Keys : held'[k] \subseteq held[k],
           UNCHANGED <<session, opened, call>>, hook'.ws <= opened,
           \A k \in Keys : tracker'[k] = tracker[k] \/ tracker[k] \in {"joined", "ambiguous"},
           \A k \in Keys : tracker'[k] \in {"joining", "leaving"} => tracker[k] = tracker'[k],
           \A k \in Keys : tracker'[k] = "absent" /\ k \notin pending' =>
              held'[k] = {} \/ (tracker[k] = "absent" /\ k \notin pending)
    PROVE  SessionsFresh' /\ TicketsCurrent' /\ HoldingsKnown'
<1> USE DEF SubInv
<1>1. SessionsFresh' BY DEF SessionsFresh
<1>2. TicketsCurrent'
  <2>1. \A c \in Callers : call[c].live =>
           /\ call[c].key \in Keys
           /\ tracker[call[c].key] = Working(call[c].op)
           /\ tracker'[call[c].key] = tracker[call[c].key]
    BY DEF TicketsCurrent, Working
  <2> QED BY <2>1 DEF TicketsCurrent
<1>3. HoldingsKnown'
  <2>1. ASSUME NEW c \in Callers, call[c].live
        PROVE  HeldFits(call[c], held'[call[c].key])
    <3>1. HeldFits(call[c], held[call[c].key]) /\ call[c].key \in Keys
      BY <2>1 DEF HoldingsKnown, TicketsCurrent
    <3> QED BY <3>1 DEF HeldFits
  <2>2. \A k \in Keys : held'[k] \subseteq TopicsOf(k) BY DEF HoldingsKnown
  <2>3. ASSUME NEW k \in Keys, tracker'[k] = "absent", k \notin pending'
        PROVE  held'[k] = {}
    BY <2>3 DEF HoldingsKnown
  <2> QED BY <2>1, <2>2, <2>3 DEF HoldingsKnown
<1> QED BY <1>1, <1>2, <1>3

LEMMA ReconnectsKeeps ==
    ASSUME SubInv, Reconnects
    PROVE  SubInv'
<1> USE DEF SubInv
<1>1. /\ held' \in [Keys -> SUBSET (1..2)]
      /\ \A k \in Keys : held'[k] \subseteq held[k]
  <2>1. CASE held' = held BY <2>1 DEF SubTypeOK
  <2>2. CASE \E shed \in SUBSET (UNION {{<<k, t>> : t \in held[k]} : k \in Keys}) :
                held' = [k \in Keys |-> {t \in held[k] : <<k, t>> \notin shed}]
    BY <2>2 DEF SubTypeOK
  <2> QED BY <2>1, <2>2 DEF Reconnects
<1>2. /\ hook' = [IdleHook EXCEPT !.pc = "control", !.ws = session, !.snapshot = held']
      /\ candidates' \in SUBSET Keys
      /\ online' \in BOOLEAN /\ reconnects' \in Nat
      /\ session # 0
      /\ UNCHANGED <<session, opened, tracker, pending, marked, call>>
  BY DEF Reconnects, SubTypeOK
<1>3. /\ hook' \in HookType /\ hook'.pc = "control" /\ hook'.ws = session
  BY <1>1, <1>2, IdleTyped DEF HookType, IdleHook, SubTypeOK
<1>4. SubTypeOK' BY <1>1, <1>2, <1>3 DEF SubTypeOK
<1>5. SessionsFresh' /\ TicketsCurrent' /\ HoldingsKnown'
  <2>1. hook'.ws <= opened BY <1>3 DEF SessionsFresh, SubTypeOK
  <2> QED BY <1>1, <1>2, <1>4, <2>1, HookStep
<1>6. BlockedKeys' BY <1>2, <1>3 DEF BlockedKeys
<1> QED BY <1>4, <1>5, <1>6

LEMMA DetectKeeps ==
    ASSUME SubInv, DetectRejoinFailures
    PROVE  SubInv'
<1> USE DEF SubInv
<1> DEFINE dropped == {k \in candidates : tracker[k] = "joined"
                                            /\ hook.snapshot[k] # TopicsOf(k)}
<1>0. /\ dropped \in SUBSET Keys
      /\ hook.ws \in Nat /\ hook.ws # 0 /\ hook.pc = "control"
      /\ dropped # {} => hook.ws = session
      /\ \A k \in dropped : tracker[k] = "joined"
  BY DEF SubTypeOK, BlockedKeys, HookType, DetectRejoinFailures
<1>1. /\ tracker' = [k \in Keys |-> IF k \in dropped THEN "ambiguous" ELSE tracker[k]]
      /\ MarkNeedingReconciliation(dropped, hook.ws)
      /\ hook' \in IF session = 0 THEN {IdleHook} ELSE NextDrain(ThroughCurrent(hook), pending')
      /\ candidates' = {}
      /\ UNCHANGED <<session, opened, online, reconnects, held, call>>
  BY DEF DetectRejoinFailures
<1> HIDE DEF dropped
<1>2. /\ pending' \in SUBSET Keys /\ marked' \in [Keys -> Nat]
      /\ hook.ws = session =>
           /\ pending' = pending \cup dropped
           /\ \A k \in Keys : marked'[k] = IF k \in dropped THEN hook.ws ELSE marked[k]
      /\ hook.ws # session => pending' = pending /\ marked' = marked
  BY <1>0, <1>1, MarkEffect
<1>3. /\ tracker' \in [Keys -> Statuses]
      /\ \A k \in Keys : tracker'[k] = IF k \in dropped THEN "ambiguous" ELSE tracker[k]
  BY <1>1 DEF SubTypeOK, Statuses
<1>4. /\ hook' \in HookType /\ hook'.ws <= opened
      /\ hook'.pc \in {"idle", "done", "drain"}
      /\ hook'.pc # "idle" => hook'.ws # 0
      /\ hook'.pc = "drain" =>
           hook'.todo = pending' /\ hook'.key \in pending' /\ hook'.at = 1
  <2>1. CASE session = 0
    BY <1>1, <2>1, IdleTyped DEF SubTypeOK
  <2>2. CASE session # 0
    <3>1. /\ hook' \in NextDrain(ThroughCurrent(hook), pending')
          /\ ThroughCurrent(hook) \in HookType /\ ThroughCurrent(hook).ws = session
      BY <1>1, <2>2 DEF SubTypeOK, HookType, ThroughCurrent
    <3>2. /\ hook' \in HookType /\ hook'.ws = session
          /\ \/ hook'.pc = "done"
             \/ /\ hook'.pc = "drain"
                /\ hook'.todo = pending' /\ hook'.key \in pending' /\ hook'.at = 1
      BY <1>2, <3>1, NextDrainTyped
    <3>3. session <= opened BY DEF SessionsFresh, SubTypeOK
    <3> QED BY <2>2, <3>2, <3>3
  <2> QED BY <2>1, <2>2
<1>5. SubTypeOK' BY <1>1, <1>2, <1>3, <1>4 DEF SubTypeOK
<1>6. SessionsFresh' /\ TicketsCurrent' /\ HoldingsKnown'
  <2>1. \A k \in Keys : tracker'[k] = tracker[k] \/ tracker[k] \in {"joined", "ambiguous"}
    BY <1>0, <1>3
  <2>2. \A k \in Keys : tracker'[k] \in {"joining", "leaving"} => tracker[k] = tracker'[k]
    BY <1>3
  <2>3. \A k \in Keys : tracker'[k] = "absent" /\ k \notin pending' =>
           tracker[k] = "absent" /\ k \notin pending
    BY <1>2, <1>3
  <2> QED BY <1>1, <1>4, <1>5, <2>1, <2>2, <2>3, HookStep
<1>7. BlockedKeys'
  <2>1. \A k \in Keys : tracker'[k] = "ambiguous" => k \in pending'
    BY <1>0, <1>2, <1>3 DEF BlockedKeys
  <2>2. ASSUME NEW k \in pending'
        PROVE  session # 0 /\ marked'[k] = session /\ tracker'[k] # "joining"
    BY <1>0, <1>2, <1>3 DEF BlockedKeys
  <2>3. hook'.pc = "drain" =>
           /\ hook'.key \in hook'.todo /\ hook'.at \in TopicsOf(hook'.key)
           /\ hook'.ws = session' => hook'.todo \subseteq pending'
    BY <1>2, <1>4, TopicFacts
  <2> QED BY <1>0, <1>1, <1>4, <2>1, <2>2, <2>3 DEF BlockedKeys
<1> QED BY <1>5, <1>6, <1>7

LEMMA DrainLeaveKeeps ==
    ASSUME SubInv, NEW left \in BOOLEAN, DrainLeave(left)
    PROVE  SubInv'
<1> USE DEF SubInv
<1> DEFINE k == hook.key
           mine == hook.ws = session
           last == hook.at = TopicCount(k)
<1>0. /\ hook \in HookType /\ hook.pc = "drain" /\ hook.ws # 0
      /\ k \in Keys /\ k \in hook.todo /\ hook.todo \in SUBSET Keys
      /\ hook.at \in TopicsOf(k)
      /\ mine => hook.todo \subseteq pending
      /\ candidates = {}
  BY DEF SubTypeOK, BlockedKeys, HookType, DrainLeave
<1>1. /\ held' \in [Keys -> SUBSET (1..2)]
      /\ \A j \in Keys : held'[j] \subseteq held[j] /\ (j # k => held'[j] = held[j])
  <2>1. LeaveAttempt(k, hook.at, left, mine) /\ mine \in BOOLEAN BY DEF DrainLeave
  <2> HIDE DEF k, mine
  <2> QED BY <1>0, <2>1, LeaveEffect
<1>2. UNCHANGED <<session, opened, online, reconnects, marked, call, candidates>>
  BY DEF DrainLeave
<1>3. \/ pending' = pending /\ tracker' = tracker
      \/ /\ mine /\ held'[k] = {} /\ pending' = pending \ {k}
         /\ tracker' = IF tracker[k] = "ambiguous"
                       THEN [tracker EXCEPT ![k] = "absent"] ELSE tracker
         /\ last
  BY DEF DrainLeave
<1>4. /\ hook' \in HookType /\ hook'.ws = hook.ws
      /\ \/ hook'.pc = "done"
         \/ /\ hook'.pc = "drain" /\ hook'.key \in hook'.todo
            /\ hook'.at \in TopicsOf(hook'.key)
            /\ hook'.todo = IF last THEN hook.todo \ {k} ELSE hook.todo
  <2>1. CASE last
    <3>1. hook' \in NextDrain(hook, hook.todo \ {k}) BY <2>1 DEF DrainLeave
    <3>2. hook.todo \ {k} \in SUBSET Keys BY <1>0
    <3>3. /\ hook' \in HookType /\ hook'.ws = hook.ws
          /\ \/ hook'.pc = "done"
             \/ /\ hook'.pc = "drain" /\ hook'.todo = hook.todo \ {k}
                /\ hook'.key \in hook.todo \ {k} /\ hook'.at = 1
      BY <1>0, <3>1, <3>2, NextDrainTyped
    <3> QED BY <1>0, <2>1, <3>3, TopicFacts
  <2>2. CASE ~last
    <3>1. hook' = [hook EXCEPT !.at = hook.at + 1] BY <2>2 DEF DrainLeave
    <3>2. hook.at = 1 /\ 2 \in TopicsOf(k) BY <1>0, <2>2, TopicFacts
    <3>3. hook' = [hook EXCEPT !.at = 2] BY <3>1, <3>2
    <3> QED BY <1>0, <2>2, <3>2, <3>3, 2 \in 1..2 DEF HookType
  <2> QED BY <2>1, <2>2
<1>5. /\ tracker' \in [Keys -> Statuses] /\ pending' \in SUBSET Keys
      /\ \A j \in Keys : j # k => tracker'[j] = tracker[j]
      /\ tracker'[k] \in {tracker[k], "absent"}
      /\ tracker'[k] # tracker[k] =>
           tracker[k] = "ambiguous" /\ held'[k] = {} /\ pending' = pending \ {k}
      /\ pending' # pending =>
           /\ mine /\ last /\ held'[k] = {} /\ pending' = pending \ {k}
           /\ tracker'[k] # "ambiguous"
  <2> HIDE DEF k, mine, last
  <2> QED BY <1>0, <1>3 DEF SubTypeOK, Statuses
<1> HIDE DEF last
<1>6. SubTypeOK' BY <1>1, <1>2, <1>4, <1>5 DEF SubTypeOK
<1>7. SessionsFresh' /\ TicketsCurrent' /\ HoldingsKnown'
  <2>1. \A j \in Keys : tracker'[j] = tracker[j] \/ tracker[j] \in {"joined", "ambiguous"}
    BY <1>5
  <2>2. \A j \in Keys : tracker'[j] \in {"joining", "leaving"} => tracker[j] = tracker'[j]
    BY <1>5
  <2>3. \A j \in Keys : tracker'[j] = "absent" /\ j \notin pending' =>
           held'[j] = {} \/ (tracker[j] = "absent" /\ j \notin pending)
    BY <1>5
  <2>4. hook'.ws <= opened BY <1>4 DEF SessionsFresh
  <2> QED BY <1>1, <1>2, <1>6, <2>1, <2>2, <2>3, <2>4, HookStep
<1>8. BlockedKeys'
  <2>1. \A j \in Keys : tracker'[j] = "ambiguous" => j \in pending'
    BY <1>0, <1>5 DEF BlockedKeys
  <2>2. \A j \in pending' : session # 0 /\ marked[j] = session /\ tracker'[j] # "joining"
    BY <1>0, <1>5 DEF BlockedKeys
  <2>3. hook'.pc = "drain" /\ hook'.ws = session => hook'.todo \subseteq pending'
    BY <1>0, <1>4, <1>5
  <2> QED BY <1>0, <1>2, <1>4, <2>1, <2>2, <2>3 DEF BlockedKeys
<1> QED BY <1>6, <1>7, <1>8

LEMMA DisconnectKeeps ==
    ASSUME SubInv, Disconnect
    PROVE  SubInv'
<1> USE DEF SubInv
<1>1. /\ call' \in [Callers -> CallType]
      /\ \A c \in Callers :
            /\ call'[c].op = call[c].op /\ call'[c].key = call[c].key
            /\ call'[c].at = call[c].at /\ call'[c].ws = call[c].ws
            /\ ~call'[c].live
  <2>1. call' = [c \in Callers |-> [call[c] EXCEPT !.live = FALSE]] BY DEF Disconnect
  <2>2. ASSUME NEW c \in Callers
        PROVE  /\ [call[c] EXCEPT !.live = FALSE] \in CallType
               /\ call'[c] = [call[c] EXCEPT !.live = FALSE]
    BY <2>1 DEF CallType, SubTypeOK
  <2>3. \A c \in Callers : call[c] \in CallType BY DEF SubTypeOK
  <2> QED BY <2>1, <2>2, <2>3 DEF CallType
<1>2. /\ session' = 0 /\ online' = FALSE /\ pending' = {} /\ candidates' = {}
      /\ \A k \in Keys : tracker'[k] = "absent" /\ held'[k] = {}
      /\ tracker' \in [Keys -> Statuses] /\ held' \in [Keys -> SUBSET (1..2)]
      /\ UNCHANGED <<opened, reconnects, marked, hook>>
  BY DEF Disconnect, Statuses
<1>3. SubTypeOK' BY <1>1, <1>2 DEF SubTypeOK
<1>4. SessionsFresh' BY <1>1, <1>2 DEF SessionsFresh
<1>5. TicketsCurrent' BY <1>1, <1>2 DEF TicketsCurrent
<1>6. HoldingsKnown' BY <1>1, <1>2 DEF HoldingsKnown
<1>7. BlockedKeys' BY <1>2 DEF BlockedKeys
<1> QED BY <1>3, <1>4, <1>5, <1>6, <1>7

LEMMA ConnectKeeps ==
    ASSUME SubInv, Connect
    PROVE  SubInv'
<1> USE DEF SubInv
<1>1. /\ session = 0 /\ session' = opened + 1 /\ opened' = opened + 1 /\ online' = TRUE
      /\ UNCHANGED <<reconnects, tracker, held, pending, marked, call, candidates, hook>>
  BY DEF Connect
<1>2. \A c \in Callers : call[c].ws \in Nat /\ call[c].ws <= opened /\ call[c].ws # session'
  BY <1>1, CallFields DEF SubTypeOK, SessionsFresh
<1>3. opened \in Nat /\ hook.ws \in Nat /\ hook.ws <= opened
  BY DEF SubTypeOK, SessionsFresh, HookType
<1>4. SubTypeOK' BY <1>1, <1>3 DEF SubTypeOK
<1>5. SessionsFresh' BY <1>1, <1>2, <1>3 DEF SessionsFresh
<1>6. \A c \in Callers : ~call[c].live BY <1>1 DEF TicketsCurrent
<1>7. TicketsCurrent' BY <1>1, <1>2, <1>6 DEF TicketsCurrent
<1>8. HoldingsKnown' BY <1>1 DEF HoldingsKnown
<1>9. BlockedKeys'
  <2>1. pending = {} /\ candidates = {} BY <1>1 DEF BlockedKeys
  <2> QED BY <1>1, <1>3, <2>1 DEF BlockedKeys
<1> QED BY <1>4, <1>5, <1>7, <1>8, <1>9

LEMMA IdleHookKeeps ==
    ASSUME SubInv, HookEnds \/ TransportDrops \/ UNCHANGED subVars
    PROVE  SubInv'
<1> USE DEF SubInv
<1>0. /\ UNCHANGED <<session, opened, reconnects, tracker, held, pending, marked, call,
                     candidates>>
      /\ online' \in BOOLEAN
      /\ hook' = hook \/ (hook.pc = "done" /\ hook' = IdleHook)
  BY DEF HookEnds, TransportDrops, subVars, SubTypeOK
<1>1. hook' \in HookType /\ hook'.ws <= opened /\ (hook' # hook => hook'.pc = "idle")
  BY <1>0, IdleTyped DEF SubTypeOK, SessionsFresh
<1>2. SubTypeOK' BY <1>0, <1>1 DEF SubTypeOK
<1>3. SessionsFresh' BY <1>0, <1>1 DEF SessionsFresh
<1>4. TicketsCurrent' BY <1>0 DEF TicketsCurrent
<1>5. HoldingsKnown' BY <1>0 DEF HoldingsKnown
<1>6. BlockedKeys' BY <1>0, <1>1 DEF BlockedKeys
<1> QED BY <1>2, <1>3, <1>4, <1>5, <1>6

\* A step of the subscriptions, whoever takes it, keeps the invariant.
LEMMA SubNextKeeps ==
    ASSUME SubInv, [SubNext]_subVars PROVE SubInv'
<1>1. ASSUME NEW c \in Callers, JoinSucceeds(c) \/ JoinFails(c) PROVE SubInv'
  BY <1>1, JoinKeeps
<1>2. ASSUME NEW c \in Callers, CancelSubscribe(c) PROVE SubInv'
  BY <1>2, CancelSubscribeKeeps
<1>3. ASSUME NEW c \in Callers, CancelUnsubscribe(c) PROVE SubInv'
  BY <1>3, LeaveKeeps
<1>4. ASSUME NEW c \in Callers, NEW left \in BOOLEAN, RollbackEnds(c, left) PROVE SubInv'
  BY <1>4, RollbackKeeps
<1>5. ASSUME NEW c \in Callers, NEW left \in BOOLEAN, LeaveEnds(c, left) PROVE SubInv'
  BY <1>5, LeaveKeeps
<1>6. ASSUME NEW left \in BOOLEAN, DrainLeave(left) PROVE SubInv'
  BY <1>6, DrainLeaveKeeps
<1>7. ASSUME NEW c \in Callers, NEW k \in Keys, Subscribe(c, k) PROVE SubInv'
  BY <1>7, SubscribeKeeps
<1>8. ASSUME NEW c \in Callers, NEW k \in Keys, Unsubscribe(c, k) PROVE SubInv'
  BY <1>8, UnsubscribeKeeps
<1>9. CASE SubStep
  BY <1>1, <1>2, <1>3, <1>4, <1>5, <1>6, <1>9, IdleHookKeeps, ReconnectsKeeps, DetectKeeps
     DEF SubStep
<1>10. CASE HookEnds \/ Disconnect \/ Connect \/ UNCHANGED subVars
  BY <1>10, IdleHookKeeps, DisconnectKeeps, ConnectKeeps
<1> QED BY <1>7, <1>8, <1>9, <1>10 DEF SubNext

-----------------------------------------------------------------------------
(* The theorems about the subscriptions *)

\* SubInv is inductive: every reachable state of a link's subscriptions satisfies it
\* (subscriptions.py, link.py _on_reconnected).
THEOREM SubscriptionsInductive == SubSpec => []SubInv
<1>1. SubInv /\ [SubNext]_subVars => SubInv' BY SubNextKeeps
<1> QED BY InitSub, <1>1, PTL DEF SubSpec

\* No topic the transport holds is without a subscribed key, an operation under way or
\* a place in the next drain, through failed joins, failed leaves, cancellations,
\* rejected rejoins and replaced clients.
THEOREM NothingLeaked == SubSpec => []NoOrphanTopic
<1>1. SubInv => NoOrphanTopic
  <2> SUFFICES ASSUME SubInv, NEW k \in Keys, held[k] # {}, Quiet(k),
                      tracker[k] # "joined", k \notin pending
               PROVE  FALSE
    BY DEF NoOrphanTopic
  <2>1. tracker[k] \in {"joining", "leaving"}
    BY DEF SubInv, SubTypeOK, Statuses, HoldingsKnown, BlockedKeys
  <2>2. PICK c \in Callers : call[c].live /\ call[c].key = k
    BY <2>1 DEF SubInv, TicketsCurrent
  <2>3. call[c].ws = session BY <2>2 DEF SubInv, TicketsCurrent
  <2> QED BY <2>2, <2>3 DEF Quiet
<1> QED BY SubscriptionsInductive, <1>1, PTL

\* Every key the tracker cannot decide about is drained by the next reconnect, and no
\* key is blocked by an operation of a client that was replaced.
THEOREM AmbiguityDrained == SubSpec => []AmbiguousIsBlocked
<1>1. SubInv => AmbiguousIsBlocked BY DEF SubInv, BlockedKeys, AmbiguousIsBlocked
<1> QED BY SubscriptionsInductive, <1>1, PTL


-----------------------------------------------------------------------------
(* The presence: values *)

LEMMA RoomKeys ==
    /\ \A k \in Rooms : k \in Keys /\ k \in Callers /\ k # NoKey
    /\ Callers = Keys
BY KeysAssumption, PresenceAssumption DEF Keys

LEMMA NoAdmFields == NoAdm.stage = "none" /\ NoAdm.by = "nobody" /\ NoAdm \in Admissions
BY DEF NoAdm, Admissions

LEMMA AdmFields ==
    ASSUME NEW a \in Admissions
    PROVE  /\ a.stage \in {"none", "start", "sub", "denied", "cleanup", "cleaning", "cleaned"}
           /\ a.by \in {"nobody", "startup", "consumer", "retry"}
           /\ a = NoAdm <=> a.stage = "none"
           /\ a = NoAdm <=> a.by = "nobody"
BY DEF Admissions, NoAdm, Owners

\* The next stage of an admission, or its first one.
LEMMA AdmTyped ==
    ASSUME NEW stage \in {"start", "sub", "denied", "cleanup", "cleaning", "cleaned"},
           NEW by \in Owners
    PROVE  [stage |-> stage, by |-> by] \in Admissions
BY DEF Admissions

LEMMA RetryFields ==
    ASSUME NEW r \in Retries
    PROVE  /\ r.pc \in {"none", "sleep", "admit"} /\ r.used \in Nat /\ r.used <= MaxRetries
           /\ r.cancel \in BOOLEAN
BY PresenceAssumption DEF Retries

LEMMA NoRetryTyped ==
    NoRetry \in Retries /\ NoRetry.pc = "none" /\ NoRetry.used = 0 /\ NoRetry.cancel = FALSE
BY PresenceAssumption DEF NoRetry, Retries

LEMMA ConsumerTyped ==
    ASSUME NEW pc \in {"off", "idle", "admit", "unretry", "leave", "left", "list", "remove",
                       "admitall"},
           NEW k \in Rooms \cup {NoKey}
    PROVE  /\ Consumer(pc, k) \in Consumers
           /\ Consumer(pc, k).pc = pc /\ Consumer(pc, k).key = k /\ Consumer(pc, k).rooms = {}
BY DEF Consumer, Consumers

LEMMA ConsumerFields ==
    ASSUME NEW c \in Consumers
    PROVE  /\ c.pc \in {"off", "idle", "admit", "unretry", "leave", "left", "list", "remove",
                        "admitall"}
           /\ c.key \in Rooms \cup {NoKey} /\ c.rooms \in SUBSET Rooms
BY DEF Consumers

LEMMA GhostFields ==
    ASSUME NEW g \in Ghosts, NEW ks \in SUBSET Rooms
    PROVE  /\ g.gaveUp \in SUBSET Rooms /\ g.unsettled \in SUBSET Rooms
           /\ g.rejected \in SUBSET Rooms /\ g.missed \in [Rooms -> Nat]
           /\ [g EXCEPT !.gaveUp = @ \cup ks] \in Ghosts
           /\ [g EXCEPT !.gaveUp = @ \ ks] \in Ghosts
           /\ [g EXCEPT !.unsettled = @ \cup ks] \in Ghosts
           /\ [g EXCEPT !.rejected = @ \cup ks] \in Ghosts
BY DEF Ghosts

\* What a successful join, a leave and a cancelled leave do to the ghost.
LEMMA SettledFields ==
    ASSUME ghost \in Ghosts, NEW k \in Rooms
    PROVE  /\ SettledBy(k) \in Ghosts
           /\ SettledBy(k).gaveUp = ghost.gaveUp /\ SettledBy(k).missed = ghost.missed
           /\ SettledBy(k).rejected = ghost.rejected \ {k}
           /\ SettledBy(k).unsettled \subseteq ghost.unsettled
           /\ \A j \in Rooms : j # k =>
                 (j \in SettledBy(k).unsettled <=> j \in ghost.unsettled)
           /\ k \in ghost.unsettled /\ k \notin SettledBy(k).unsettled =>
                 k \in member /\ leaving[k] = "no" /\ ~At(k, {"unretry", "leave", "left"})
<1> DEFINE u == IF k \in member /\ leaving[k] = "no"
                   /\ ~(consumer.pc \in {"unretry", "leave", "left"} /\ consumer.key = k)
                THEN ghost.unsettled \ {k} ELSE ghost.unsettled
           g == [ghost EXCEPT !.rejected = @ \ {k}, !.unsettled = u]
<1>1. /\ u \in SUBSET Rooms /\ u \subseteq ghost.unsettled
      /\ \A j \in Rooms : j # k => (j \in u <=> j \in ghost.unsettled)
      /\ k \in ghost.unsettled /\ k \notin u =>
            k \in member /\ leaving[k] = "no" /\ ~At(k, {"unretry", "leave", "left"})
  BY DEF Ghosts, At
<1>2. SettledBy(k) = g BY DEF SettledBy, Ghosts
<1> HIDE DEF u
<1>3. /\ g \in Ghosts /\ g.gaveUp = ghost.gaveUp /\ g.missed = ghost.missed
      /\ g.rejected = ghost.rejected \ {k} /\ g.unsettled = u
  BY <1>1 DEF Ghosts
<1> HIDE DEF g
<1> QED BY <1>1, <1>2, <1>3

LEMMA CutFields ==
    ASSUME ghost \in Ghosts, NEW ks \in SUBSET Rooms
    PROVE  /\ CutShort(ks) \in Ghosts
           /\ CutShort(ks).gaveUp = ghost.gaveUp /\ CutShort(ks).rejected = ghost.rejected
           /\ CutShort(ks).unsettled = ghost.unsettled \cup ks
           /\ \A j \in Rooms : CutShort(ks).missed[j] =
                 IF j \in ks THEN ghost.missed[j] + 1 ELSE ghost.missed[j]
<1> DEFINE m == [k \in Rooms |-> IF k \in ks THEN ghost.missed[k] + 1 ELSE ghost.missed[k]]
           g == [ghost EXCEPT !.unsettled = @ \cup ks, !.missed = m]
<1>1. ghost.missed \in [Rooms -> Nat] BY DEF Ghosts
<1>2. /\ m \in [Rooms -> Nat]
      /\ \A j \in Rooms : m[j] = IF j \in ks THEN ghost.missed[j] + 1 ELSE ghost.missed[j]
  BY <1>1
<1>3. CutShort(ks) = g BY DEF CutShort, Ghosts
<1> HIDE DEF m
<1>4. /\ g \in Ghosts /\ g.gaveUp = ghost.gaveUp /\ g.rejected = ghost.rejected
      /\ g.unsettled = ghost.unsettled \cup ks /\ g.missed = m
  BY <1>2 DEF Ghosts
<1> HIDE DEF g
<1> QED BY <1>2, <1>3, <1>4

LEMMA LeftFields ==
    ASSUME ghost \in Ghosts, NEW k \in Rooms,
           ghost' = [ghost EXCEPT !.gaveUp = @ \ {k},
                                  !.unsettled = IF k \in member THEN @ ELSE @ \ {k}]
    PROVE  /\ ghost' \in Ghosts /\ ghost'.missed = ghost.missed
           /\ ghost'.rejected = ghost.rejected /\ ghost'.gaveUp = ghost.gaveUp \ {k}
           /\ ghost'.unsettled = IF k \in member THEN ghost.unsettled ELSE ghost.unsettled \ {k}
BY DEF Ghosts

-----------------------------------------------------------------------------
(* The queue *)

LEMMA EventFields ==
    ASSUME NEW e \in Events
    PROVE  /\ e.kind \in {"added", "removed", "reconnected"}
           /\ e.kind # "reconnected" <=> e.room \in Rooms
           /\ e.kind = "reconnected" <=> e.room = NoKey
BY RoomKeys DEF Events, Event

LEMMA QueueGrows ==
    ASSUME NEW q \in Seq(Events), NEW e \in Events
    PROVE  /\ Append(q, e) \in Seq(Events) /\ Len(Append(q, e)) = Len(q) + 1
           /\ DOMAIN q = 1..Len(q) /\ DOMAIN Append(q, e) = 1..(Len(q) + 1)
           /\ \A i \in 1..Len(q) : Append(q, e)[i] = q[i]
           /\ Append(q, e)[Len(q) + 1] = e
           /\ Len(q) \in Nat
OBVIOUS

LEMMA QueueShrinks ==
    ASSUME NEW q \in Seq(Events), q # <<>>
    PROVE  /\ Tail(q) \in Seq(Events) /\ Len(Tail(q)) = Len(q) - 1
           /\ DOMAIN q = 1..Len(q) /\ DOMAIN Tail(q) = 1..(Len(q) - 1)
           /\ \A i \in 1..(Len(q) - 1) : Tail(q)[i] = q[i + 1]
           /\ Head(q) = q[1] /\ Head(q) \in Events
           /\ Len(q) \in Nat /\ Len(q) >= 1
OBVIOUS

\* _queue_event, seen by one room.
LEMMA QueueEventFits ==
    ASSUME TypeOK, NEW e \in Events, QueueEvent(e), NEW j \in Rooms, QueueFits(j),
           e.room = j => (e.kind = "added" <=> j \in member'),
           e.room # j => (j \in member' <=> j \in member)
    PROVE  /\ QueueFits(j)'
           /\ e.room = j => Pushed(j)' \/ j \in lost'
           /\ e.room # j /\ j \notin lost' => j \notin lost /\ (Pushed(j)' <=> Pushed(j))
<1>1. e.kind = "reconnected" <=> e.room = NoKey BY EventFields
<1>2. j # NoKey BY RoomKeys
<1>3. CASE Len(queue) < QueueCap
  <2>1. queue' = Append(queue, e) /\ lost' = lost BY <1>3 DEF QueueEvent
  <2>2. queue \in Seq(Events) BY DEF TypeOK
  <2> DEFINE n == Len(queue)
  <2>3. /\ n \in Nat /\ DOMAIN queue = 1..n /\ DOMAIN queue' = 1..(n + 1)
        /\ \A i \in 1..n : queue'[i] = queue[i]
        /\ queue'[n + 1] = e
    BY <2>1, <2>2, QueueGrows
  <2> HIDE DEF n
  <2>4. CASE e.room = j
    <3>1. \A i \in 1..(n + 1) : (\A i2 \in 1..(n + 1) : i2 > i => queue'[i2].room # j) => i = n + 1
      BY <2>3, <2>4
    <3> QED BY <2>1, <2>3, <2>4, <3>1 DEF QueueFits, Pushed
  <2>5. CASE e.room # j
    <3>1. Pushed(j)' <=> Pushed(j) BY <2>3, <2>5 DEF Pushed
    <3>2. ASSUME j \notin lost', NEW i \in DOMAIN queue', queue'[i].room = j,
                 \A i2 \in DOMAIN queue' : i2 > i => queue'[i2].room # j
          PROVE  queue'[i].kind = "added" <=> j \in member'
      <4>1. i \in DOMAIN queue /\ queue'[i] = queue[i] BY <2>3, <2>5, <3>2
      <4>2. \A i2 \in DOMAIN queue : i2 > i => queue[i2].room # j BY <2>3, <3>2
      <4> QED BY <2>1, <2>5, <3>2, <4>1, <4>2 DEF QueueFits
    <3> QED BY <2>1, <2>5, <3>1, <3>2 DEF QueueFits
  <2> QED BY <2>4, <2>5
<1>4. CASE ~(Len(queue) < QueueCap)
  <2>1. queue' = queue /\ lost' = (IF e.kind = "reconnected" THEN Rooms ELSE lost \cup {e.room})
    BY <1>4 DEF QueueEvent
  <2> QED BY <1>1, <1>2, <2>1 DEF QueueFits, Pushed
<1> QED BY <1>3, <1>4

LEMMA QueueEventTyped ==
    ASSUME TypeOK, NEW e \in Events, QueueEvent(e)
    PROVE  queue' \in Seq(Events) /\ Len(queue') <= QueueCap /\ lost' \in SUBSET Rooms
<1>1. queue \in Seq(Events) /\ Len(queue) <= QueueCap /\ lost \in SUBSET Rooms /\ QueueCap \in Nat
  BY PresenceAssumption DEF TypeOK
<1>2. Append(queue, e) \in Seq(Events) /\ Len(Append(queue, e)) = Len(queue) + 1 /\ Len(queue) \in Nat
  BY <1>1, QueueGrows
<1>3. e.kind # "reconnected" => e.room \in Rooms BY EventFields
<1> QED BY <1>1, <1>2, <1>3 DEF QueueEvent

\* The consumer takes the event at the head of the queue, seen by one room.
LEMMA TakeFits ==
    ASSUME TypeOK, queue # <<>>, queue' = Tail(queue), lost' = lost, member' = member,
           NEW j \in Rooms, QueueFits(j)
    PROVE  /\ QueueFits(j)'
           /\ Head(queue).room # j => (Pushed(j)' <=> Pushed(j))
           /\ Head(queue).room = j /\ ~Pushed(j)' /\ j \notin lost =>
                 (Head(queue).kind = "added" <=> j \in member)
<1>1. queue \in Seq(Events) BY DEF TypeOK
<1> DEFINE n == Len(queue)
<1>2. /\ n \in Nat /\ n >= 1 /\ DOMAIN queue = 1..n /\ DOMAIN queue' = 1..(n - 1)
      /\ \A i \in 1..(n - 1) : queue'[i] = queue[i + 1]
      /\ Head(queue) = queue[1]
  BY <1>1, QueueShrinks
<1> HIDE DEF n
<1>3. \A i \in 1..n : i = 1 \/ (i - 1 \in 1..(n - 1) /\ queue'[i - 1] = queue[i])
  BY <1>2
<1>4. ASSUME j \notin lost', NEW i \in DOMAIN queue', queue'[i].room = j,
             \A i2 \in DOMAIN queue' : i2 > i => queue'[i2].room # j
      PROVE  queue'[i].kind = "added" <=> j \in member'
  <2>1. i + 1 \in DOMAIN queue /\ queue'[i] = queue[i + 1] BY <1>2, <1>4
  <2>2. ASSUME NEW i2 \in DOMAIN queue, i2 > i + 1 PROVE queue[i2].room # j
    <3>1. i2 \in 1..n /\ i \in 1..(n - 1) BY <1>2
    <3>2. i2 - 1 \in DOMAIN queue' /\ i2 - 1 > i /\ queue'[i2 - 1] = queue[i2]
      BY <1>2, <1>3, <2>2, <3>1
    <3> QED BY <1>4, <3>2
  <2> QED BY <1>4, <2>1, <2>2 DEF QueueFits
<1>5. Head(queue).room # j => (Pushed(j)' <=> Pushed(j))
  <2>1. ASSUME NEW i \in DOMAIN queue', queue'[i].room = j PROVE Pushed(j)
    <3>1. i + 1 \in DOMAIN queue /\ queue'[i] = queue[i + 1] BY <1>2, <2>1
    <3> QED BY <2>1, <3>1 DEF Pushed
  <2>2. ASSUME Head(queue).room # j, NEW i \in DOMAIN queue, queue[i].room = j PROVE Pushed(j)'
    <3>1. i - 1 \in DOMAIN queue' /\ queue'[i - 1] = queue[i] BY <1>2, <1>3, <2>2
    <3> QED BY <2>2, <3>1 DEF Pushed
  <2> QED BY <2>1, <2>2 DEF Pushed
<1>6. ASSUME Head(queue).room = j, ~Pushed(j)', j \notin lost
      PROVE  Head(queue).kind = "added" <=> j \in member
  <2>1. ASSUME NEW i2 \in DOMAIN queue, i2 > 1 PROVE queue[i2].room # j
    <3>1. i2 - 1 \in DOMAIN queue' /\ queue'[i2 - 1] = queue[i2] BY <1>2, <1>3, <2>1
    <3> QED BY <1>6, <3>1 DEF Pushed
  <2>2. 1 \in DOMAIN queue BY <1>2
  <2> QED BY <1>2, <1>6, <2>1, <2>2 DEF QueueFits
<1> QED BY <1>4, <1>5, <1>6 DEF QueueFits

LEMMA TakeTyped ==
    ASSUME TypeOK, queue # <<>>
    PROVE  /\ Tail(queue) \in Seq(Events) /\ Len(Tail(queue)) <= QueueCap
           /\ Head(queue) \in Events
BY QueueShrinks, PresenceAssumption DEF TypeOK

-----------------------------------------------------------------------------
(* What the link's steps do to the call and the status of each key *)

\* An operation under way holds its key's ticket.
LEMMA Occupied ==
    ASSUME SubInv, CallsOwn, NEW k \in Keys, call[k].op # "idle"
    PROVE  /\ call[k].key = k /\ call[k].live /\ Current(k)
           /\ tracker[k] = Working(call[k].op)
           /\ tracker[k] \in {"joining", "leaving"}
<1>1. k \in Callers BY RoomKeys
<1>2. call[k].ws = 1 /\ session = 1 /\ call[k].key = k
  <2>1. call[k].ws \in Nat /\ call[k].ws <= 1 /\ call[k].ws # 0
    BY <1>1, CallFields DEF SubInv, SessionsFresh, TicketsCurrent, CallsOwn
  <2> QED BY <2>1 DEF CallsOwn
<1>3. call[k].live BY <1>1, <1>2 DEF SubInv, TicketsCurrent
<1> QED BY <1>1, <1>2, <1>3 DEF SubInv, TicketsCurrent, Current, Working

OnlyKey(k) ==
    /\ session' = session /\ opened' = opened
    /\ \A j \in Keys : j # k => call'[j] = call[j] /\ tracker'[j] = tracker[j]
    /\ call'[k].op # "idle" => call'[k].key = k

LEMMA OnlyKeyOwns ==
    ASSUME CallsOwn, NEW k \in Keys, OnlyKey(k)
    PROVE  CallsOwn'
BY DEF CallsOwn, OnlyKey

LEMMA SubscribeEffect ==
    ASSUME SubInv, NEW k \in Keys, Subscribe(k, k)
    PROVE  /\ OnlyKey(k) /\ tracker[k] = "absent" /\ call[k].op = "idle"
           /\ call'[k].op = "join" /\ tracker'[k] = "joining"
<1>1. k \in Callers /\ Callers = Keys BY RoomKeys
<1> QED BY <1>1 DEF Subscribe, MaySubscribe, OnlyKey, SubInv, SubTypeOK

LEMMA UnsubscribeEffect ==
    ASSUME SubInv, NEW k \in Keys, Unsubscribe(k, k)
    PROVE  /\ OnlyKey(k) /\ tracker[k] \in {"joined", "ambiguous"} /\ call[k].op = "idle"
           /\ call'[k].op = "leave" /\ tracker'[k] = "leaving"
<1>1. k \in Callers /\ Callers = Keys BY RoomKeys
<1> QED BY <1>1 DEF Unsubscribe, MayUnsubscribe, OnlyKey, SubInv, SubTypeOK

\* The outcome of one wire operation of a call: only a join that succeeds joins.
Outcome(k) ==
    /\ OnlyKey(k) /\ call[k].op # "idle" /\ tracker[k] # "joined"
    /\ \/ call'[k].op = "idle" \/ call'[k].op = call[k].op
       \/ call[k].op = "join" /\ call'[k].op = "rollback"
    /\ tracker'[k] = "joined" => call[k].op = "join" /\ call'[k].op = "idle"

LEMMA JoinOutcome ==
    ASSUME SubInv, CallsOwn, NEW k \in Keys, JoinSucceeds(k)
    PROVE  Outcome(k)
<1>1. k \in Callers /\ Callers = Keys BY RoomKeys
<1>2. call[k].op = "join" BY DEF JoinSucceeds
<1>3. call[k].key = k /\ call[k].live /\ tracker[k] = "joining"
  BY <1>2, Occupied DEF Working
<1>4. /\ call \in [Keys -> CallType] /\ tracker \in [Keys -> Statuses] /\ call[k] \in CallType
  BY <1>1 DEF SubInv, SubTypeOK
<1>5. IdleCall.op = "idle" BY DEF IdleCall
<1>6. call'[k] = IdleCall \/ call'[k] = [call[k] EXCEPT !.at = call[k].at + 1]
  BY <1>4 DEF JoinSucceeds
<1>7. call'[k].op = "idle" \/ (call'[k].op = "join" /\ call'[k].key = k)
  BY <1>2, <1>3, <1>4, <1>5, <1>6 DEF CallType
<1>8. tracker'[k] = "joined" => call'[k].op = "idle"
  BY <1>3, <1>4, <1>5 DEF JoinSucceeds, Record
<1>9. OnlyKey(k) BY <1>3, <1>4, <1>7 DEF JoinSucceeds, Record, OnlyKey
<1> QED BY <1>2, <1>3, <1>7, <1>8, <1>9 DEF Outcome

LEMMA JoinFailsOutcome ==
    ASSUME SubInv, CallsOwn, NEW k \in Keys, JoinFails(k)
    PROVE  Outcome(k) /\ tracker'[k] # "joined"
<1>1. k \in Callers /\ Callers = Keys BY RoomKeys
<1>2. call[k].op = "join" BY DEF JoinFails
<1>3. call[k].key = k /\ call[k].live /\ tracker[k] = "joining"
  BY <1>2, Occupied DEF Working
<1>4. /\ call \in [Keys -> CallType] /\ tracker \in [Keys -> Statuses] /\ call[k] \in CallType
  BY <1>1 DEF SubInv, SubTypeOK
<1>5. IdleCall.op = "idle" BY DEF IdleCall
<1>6. call'[k] = IdleCall \/ call'[k] = [call[k] EXCEPT !.op = "rollback", !.at = 1]
  BY <1>4 DEF JoinFails
<1>7. call'[k].op = "idle" \/ (call'[k].op = "rollback" /\ call'[k].key = k)
  <2> DEFINE c == [call[k] EXCEPT !.op = "rollback", !.at = 1]
  <2>1. c.op = "rollback" /\ c.key = call[k].key BY <1>4 DEF CallType
  <2> HIDE DEF c
  <2>2. call'[k] = IdleCall \/ call'[k] = c BY <1>6 DEF c
  <2> QED BY <1>3, <1>5, <2>1, <2>2
<1>8. tracker'[k] # "joined" BY <1>3, <1>4 DEF JoinFails, Record
<1>9. OnlyKey(k) BY <1>3, <1>4, <1>7 DEF JoinFails, Record, OnlyKey
<1> QED BY <1>2, <1>3, <1>7, <1>8, <1>9 DEF Outcome

LEMMA LeaveOutcome ==
    ASSUME SubInv, CallsOwn, NEW k \in Keys, NEW left \in BOOLEAN,
           RollbackEnds(k, left) \/ LeaveEnds(k, left)
    PROVE  Outcome(k) /\ tracker'[k] # "joined"
<1>1. k \in Callers /\ Callers = Keys BY RoomKeys
<1>2. call[k].op \in {"rollback", "leave"} BY DEF RollbackEnds, LeaveEnds
<1>3. call[k].key = k /\ call[k].live /\ tracker[k] # "joined" BY <1>2, Occupied DEF Working
<1>4. /\ call \in [Keys -> CallType] /\ tracker \in [Keys -> Statuses] /\ call[k] \in CallType
  BY <1>1 DEF SubInv, SubTypeOK
<1>5. IdleCall.op = "idle" BY DEF IdleCall
<1>6. CASE RollbackEnds(k, left)
  <2>1. call'[k].op = "idle" BY <1>4, <1>5, <1>6 DEF RollbackEnds
  <2>2. tracker'[k] # "joined" BY <1>3, <1>4, <1>6 DEF RollbackEnds, Record
  <2>3. OnlyKey(k) BY <1>3, <1>4, <1>6, <2>1 DEF RollbackEnds, Record, OnlyKey
  <2> QED BY <1>2, <1>3, <2>1, <2>2, <2>3 DEF Outcome
<1>7. CASE LeaveEnds(k, left)
  <2>1. \/ call'[k] = IdleCall
        \/ \E ok : call'[k] = [call[k] EXCEPT !.at = call[k].at + 1, !.ok = ok]
    BY <1>4, <1>7 DEF LeaveEnds
  <2>2. call'[k].op = "idle" \/ (call'[k].op = call[k].op /\ call'[k].key = k)
    BY <1>2, <1>3, <1>4, <1>5, <2>1 DEF CallType
  <2>3. tracker'[k] # "joined" BY <1>3, <1>4, <1>7 DEF LeaveEnds, Record
  <2>4. OnlyKey(k) BY <1>3, <1>4, <1>7, <2>2 DEF LeaveEnds, Record, OnlyKey
  <2> QED BY <1>2, <1>3, <2>2, <2>3, <2>4 DEF Outcome
<1> QED BY <1>6, <1>7

LEMMA CancelOutcome ==
    ASSUME SubInv, CallsOwn, NEW k \in Keys, CancelSubscribe(k) \/ CancelUnsubscribe(k)
    PROVE  Outcome(k) /\ call'[k].op = "idle" /\ tracker'[k] = "ambiguous"
<1>1. k \in Callers /\ Callers = Keys BY RoomKeys
<1>2. call[k].op # "idle" BY DEF CancelSubscribe, CancelUnsubscribe
<1>3. call[k].key = k /\ call[k].live /\ tracker[k] # "joined" BY <1>2, Occupied DEF Working
<1>4. /\ call \in [Keys -> CallType] /\ tracker \in [Keys -> Statuses]
  BY <1>1 DEF SubInv, SubTypeOK
<1>5. call' = [call EXCEPT ![k] = IdleCall] /\ Record(k, "ambiguous")
      /\ session' = session /\ opened' = opened
  BY <1>3 DEF CancelSubscribe, CancelUnsubscribe
<1>6. call'[k].op = "idle" BY <1>4, <1>5 DEF IdleCall
<1> QED BY <1>2, <1>3, <1>4, <1>5, <1>6 DEF Outcome, OnlyKey, Record

\* The transport and the reconnect hook work on no call and join nothing.
HookOnly ==
    /\ session' = session /\ opened' = opened /\ call' = call
    /\ \A j \in Keys : tracker'[j] = "joined" => tracker[j] = "joined"

LEMMA HookEffect ==
    ASSUME SubInv, \/ TransportDrops \/ Reconnects \/ HookEnds
                   \/ \E left \in BOOLEAN : DrainLeave(left)
    PROVE  HookOnly /\ \A j \in Keys : tracker[j] = "joined" => tracker'[j] = "joined"
<1>1. tracker \in [Keys -> Statuses] BY DEF SubInv, SubTypeOK
<1>2. CASE TransportDrops \/ Reconnects \/ HookEnds
  BY <1>2 DEF TransportDrops, Reconnects, HookEnds, HookOnly
<1>3. ASSUME NEW left \in BOOLEAN, DrainLeave(left)
      PROVE  HookOnly /\ \A j \in Keys : tracker[j] = "joined" => tracker'[j] = "joined"
  <2>1. tracker' = tracker \/ (tracker[hook.key] = "ambiguous"
                               /\ tracker' = [tracker EXCEPT ![hook.key] = "absent"])
    BY <1>3 DEF DrainLeave
  <2>2. session' = session /\ opened' = opened /\ call' = call BY <1>3 DEF DrainLeave
  <2> QED BY <1>1, <2>1, <2>2 DEF HookOnly
<1> QED BY <1>2, <1>3

LEMMA DetectEffect ==
    ASSUME SubInv, DetectRejoinFailures
    PROVE  HookOnly
BY DEF DetectRejoinFailures, HookOnly, SubInv, SubTypeOK

LEMMA HookOnlyOwns ==
    ASSUME CallsOwn, HookOnly PROVE CallsOwn'
BY DEF CallsOwn, HookOnly

\* subscribe_room and unsubscribe_room, up to their first await.
LEMMA StartSubscribeEffect ==
    ASSUME SubInv, CallsOwn, NEW k \in Rooms, StartSubscribe(k)
    PROVE  /\ OnlyKey(k)
           /\ MaySubscribe(k) => /\ tracker[k] = "absent" /\ call[k].op = "idle"
                                 /\ call'[k].op = "join" /\ tracker'[k] = "joining"
           /\ ~MaySubscribe(k) => call'[k] = call[k] /\ tracker'[k] = tracker[k]
<1>1. k \in Keys BY RoomKeys
<1>2. CASE MaySubscribe(k) BY <1>1, <1>2, SubscribeEffect DEF StartSubscribe
<1>3. CASE ~MaySubscribe(k)
  BY <1>1, <1>3 DEF StartSubscribe, subVars, OnlyKey, CallsOwn
<1> QED BY <1>2, <1>3

LEMMA StartUnsubscribeEffect ==
    ASSUME SubInv, CallsOwn, NEW k \in Rooms, StartUnsubscribe(k)
    PROVE  /\ OnlyKey(k) /\ tracker'[k] # "joined"
           /\ MayUnsubscribe(k) => call[k].op = "idle" /\ call'[k].op = "leave"
           /\ ~MayUnsubscribe(k) => call'[k] = call[k] /\ tracker'[k] = tracker[k]
<1>1. k \in Keys BY RoomKeys
<1>2. CASE MayUnsubscribe(k) BY <1>1, <1>2, UnsubscribeEffect DEF StartUnsubscribe
<1>3. CASE ~MayUnsubscribe(k)
  BY <1>1, <1>3 DEF StartUnsubscribe, subVars, OnlyKey, CallsOwn, MayUnsubscribe
<1> QED BY <1>2, <1>3

-----------------------------------------------------------------------------
(* Rooms a step does not touch *)

LEMMA RoomTyped ==
    ASSUME TypeOK, NEW k \in Rooms
    PROVE  /\ adm[k] \in Admissions /\ retry[k] \in Retries /\ callback[k] \in SUBSET Owners
           /\ roster[k] \in {"unadmitted", "admitting", "admitted"}
           /\ leaving[k] \in {"no", "begin", "wait", "left"}
           /\ announced[k] \in Int /\ ghost.missed[k] \in Nat
BY DEF TypeOK, Ghosts

Untouched(j) ==
    /\ roster'[j] = roster[j] /\ adm'[j] = adm[j] /\ callback'[j] = callback[j]
    /\ retry'[j] = retry[j] /\ leaving'[j] = leaving[j] /\ announced'[j] = announced[j]
    /\ tracker'[j] = "joined" <=> tracker[j] = "joined"
    /\ call'[j].op = call[j].op
    /\ j \in member' <=> j \in member
    /\ j \in ghost'.gaveUp <=> j \in ghost.gaveUp
    /\ j \in ghost'.unsettled <=> j \in ghost.unsettled
    /\ ghost'.missed[j] = ghost.missed[j]
    /\ j \in ghost'.rejected <=> j \in ghost.rejected

\* The consumer's place, as far as one room can tell.
SameView(j) ==
    /\ At(j, {"unretry"})' <=> At(j, {"unretry"})
    /\ At(j, {"leave", "left"})' <=> At(j, {"leave", "left"})
    /\ Preclaimed(j)' <=> Preclaimed(j)
    /\ adm[j].by = "consumer" \/ "consumer" \in callback[j] =>
          consumer'.pc \in {"admit", "admitall"}

LEMMA FrameView ==
    ASSUME NEW j \in Rooms, RoomFits(j), Untouched(j), SameView(j), phase' = phase,
           QueueFits(j)', j \notin lost' => j \notin lost /\ (Pushed(j)' <=> Pushed(j))
    PROVE  RoomFits(j)'
<1>1. OwnersFit(j)' BY DEF RoomFits, OwnersFit, Untouched, SameView, Cancelled
<1>2. RetryFits(j)' BY DEF RoomFits, RetryFits, Untouched, SameView
<1>3. ClaimFits(j)' BY DEF RoomFits, ClaimFits, Untouched, SameView
<1>4. j \in ghost'.unsettled <=> j \in ghost.unsettled BY DEF Untouched
<1>5. AnnounceFits(j)' BY <1>4 DEF RoomFits, AnnounceFits, Unit, Untouched
<1>6. TrackFits(j)' BY <1>4 DEF RoomFits, TrackFits, Untouched, SameView
<1>7. MemberFits(j)'
  <2>1. At(j, {"unretry", "leave", "left"})' <=> At(j, {"unretry", "leave", "left"})
    BY DEF SameView, At
  <2> QED BY <1>4, <2>1 DEF RoomFits, MemberFits, Untouched
<1> QED BY <1>1, <1>2, <1>3, <1>5, <1>6, <1>7 DEF RoomFits

LEMMA Frame ==
    ASSUME NEW j \in Rooms, RoomFits(j), Untouched(j),
           UNCHANGED <<phase, consumer, queue, lost>>
    PROVE  RoomFits(j)'
<1>1. SameView(j) BY DEF RoomFits, OwnersFit, SameView, At, Preclaimed
<1>2. QueueFits(j)' /\ (Pushed(j)' <=> Pushed(j))
  BY DEF RoomFits, QueueFits, Pushed, Untouched
<1> QED BY <1>1, <1>2, FrameView

\* A step that moves neither the queue, the consumer nor the phase, and one room at most.
LEMMA FrameOthers ==
    ASSUME NEW k \in Rooms, PresenceInv, OnlyKey(k),
           UNCHANGED <<phase, consumer, queue, lost, member>>,
           \A j \in Rooms : j # k =>
               /\ roster'[j] = roster[j] /\ adm'[j] = adm[j] /\ callback'[j] = callback[j]
               /\ retry'[j] = retry[j] /\ leaving'[j] = leaving[j]
               /\ announced'[j] = announced[j]
               /\ j \in ghost'.gaveUp <=> j \in ghost.gaveUp
               /\ j \in ghost'.unsettled <=> j \in ghost.unsettled
               /\ ghost'.missed[j] = ghost.missed[j]
               /\ j \in ghost'.rejected <=> j \in ghost.rejected,
           TypeOK', PhaseFits', RoomFits(k)'
    PROVE  PresenceInv'
<1>1. CallsOwn' BY RoomKeys, OnlyKeyOwns DEF PresenceInv
<1>2. ASSUME NEW j \in Rooms, j # k PROVE RoomFits(j)'
  <2>1. Untouched(j) BY <1>2, RoomKeys DEF Untouched, OnlyKey
  <2> QED BY <2>1, Frame DEF PresenceInv
<1> QED BY <1>1, <1>2 DEF PresenceInv

LEMMA StaysPut == subVars' = subVars /\ CallsOwn => \A k \in Rooms : OnlyKey(k)
BY RoomKeys DEF subVars, OnlyKey, CallsOwn

-----------------------------------------------------------------------------
(* Admission *)

\* Only a coroutine of start(), of the consumer or of a re-join holds an admission, and
\* each of them only while the presence runs.
LEMMA AdmissionRuns ==
    ASSUME PresenceInv, NEW k \in Rooms, adm[k] # NoAdm
    PROVE  /\ adm[k].by \in Owners /\ roster[k] = "admitting"
           /\ phase \in {"startup", "up", "stopping", "unretry"}
           /\ adm[k].by # "retry" => Running
           /\ ~Preclaimed(k) /\ ~At(k, {"leave", "left"})
           /\ At(k, {"unretry"}) => adm[k].by = "retry"
<1>1. adm[k] \in Admissions /\ retry[k] \in Retries BY RoomTyped DEF PresenceInv
<1>2. adm[k].by \in Owners BY <1>1, AdmFields DEF Owners
<1>3. RoomFits(k) /\ PhaseFits BY DEF PresenceInv
<1> QED BY <1>2, <1>3 DEF RoomFits, OwnersFit, RetryFits, ClaimFits, PhaseFits, Owners, Running, At

LEMMA SubscribeReturnedKeeps ==
    ASSUME SubInv, PresenceInv, NEW k \in Rooms, SubscribeReturned(k)
    PROVE  PresenceInv'
<1>0. /\ TypeOK /\ CallsOwn /\ PhaseFits /\ RoomFits(k) /\ k \in Keys
  BY RoomKeys DEF PresenceInv
<1>1. /\ adm[k] \in Admissions /\ retry[k] \in Retries /\ callback[k] \in SUBSET Owners
      /\ announced[k] \in Int /\ ghost.missed[k] \in Nat
      /\ leaving[k] \in {"no", "begin", "wait", "left"}
  BY <1>0, RoomTyped
<1>2. adm[k].stage \in {"denied", "sub"} /\ adm[k] # NoAdm
  BY NoAdmFields DEF SubscribeReturned
<1>3. /\ adm[k].by \in Owners /\ roster[k] = "admitting"
      /\ phase \in {"startup", "up", "stopping", "unretry"}
      /\ adm[k].by # "retry" => Running
      /\ ~Preclaimed(k) /\ ~At(k, {"leave", "left"})
      /\ At(k, {"unretry"}) => adm[k].by = "retry"
  BY <1>2, AdmissionRuns
<1>4. /\ UNCHANGED <<subVars, phase, consumer, leaving, queue, member, lost>>
      /\ adm' = [adm EXCEPT ![k] = NoAdm]
  BY <1>3 DEF SubscribeReturned, Outstanding
<1>5. OnlyKey(k) /\ tracker' = tracker /\ call' = call BY <1>0, <1>4, StaysPut DEF subVars
<1>6. adm' \in [Rooms -> Admissions] /\ adm'[k] = NoAdm /\ \A j \in Rooms : j # k => adm'[j] = adm[j]
  BY <1>0, <1>4, NoAdmFields DEF TypeOK
<1>7. CASE tracker[k] = "joined"
  <2>1. /\ roster' = [roster EXCEPT ![k] = "admitted"]
        /\ announced' = [announced EXCEPT ![k] = @ + 1]
        /\ callback' = [callback EXCEPT ![k] = @ \cup {adm[k].by}]
        /\ UNCHANGED retry /\ ghost' = SettledBy(k)
    BY <1>3, <1>7 DEF SubscribeReturned, Outstanding
  <2>a. ghost \in Ghosts BY <1>0 DEF TypeOK
  <2>b. /\ ghost' \in Ghosts /\ ghost'.gaveUp = ghost.gaveUp /\ ghost'.missed = ghost.missed
        /\ ghost'.rejected = ghost.rejected \ {k}
        /\ \A j \in Rooms : j # k => (j \in ghost'.unsettled <=> j \in ghost.unsettled)
        /\ k \in ghost.unsettled /\ k \notin ghost'.unsettled =>
              k \in member /\ leaving[k] = "no" /\ ~At(k, {"unretry", "leave", "left"})
        /\ k \notin ghost.unsettled => k \notin ghost'.unsettled
    BY <2>1, <2>a, SettledFields
  <2>2. TypeOK' BY <1>0, <1>1, <1>3, <1>4, <1>6, <2>1, <2>b DEF TypeOK
  <2>3. /\ roster'[k] = "admitted" /\ announced'[k] = announced[k] + 1
        /\ callback'[k] = callback[k] \cup {adm[k].by}
        /\ \A j \in Rooms : j # k => /\ roster'[j] = roster[j] /\ announced'[j] = announced[j]
                                     /\ callback'[j] = callback[j]
    BY <1>0, <2>1 DEF TypeOK
  <2>4. PhaseFits' BY <1>0, <1>3, <1>4, <1>6, <2>3 DEF PhaseFits
  <2>6. k \notin ghost.unsettled => leaving[k] = "no" /\ k \in member /\ adm[k].stage = "sub"
    BY <1>0, <1>1, <1>2, <1>3, <1>7 DEF RoomFits, TrackFits, AnnounceFits
  <2>7. RoomFits(k)'
    <3>1. OwnersFit(k)'
      BY <1>0, <1>3, <1>4, <1>6, <2>1, <2>3, NoAdmFields DEF RoomFits, OwnersFit
    <3>2. RetryFits(k)' BY <1>0, <1>4, <2>1 DEF RoomFits, RetryFits, At
    <3>3. ClaimFits(k)' BY <1>3, <1>4, <1>6, <2>3 DEF ClaimFits, Preclaimed
    <3>4. AnnounceFits(k)'
      BY <1>0, <1>1, <1>3, <1>4, <1>6, <2>3, <2>6, <2>b DEF RoomFits, AnnounceFits, Unit
    <3>5. TrackFits(k)'
      BY <1>0, <1>2, <1>3, <1>4, <1>5, <1>7, <2>3 DEF RoomFits, TrackFits, SubscribeReturned, At
    <3>6. QueueFits(k)' BY <1>0, <1>4 DEF RoomFits, QueueFits
    <3>7. MemberFits(k)'
      BY <1>0, <1>4, <2>1, <2>3, <2>6, <2>b DEF RoomFits, MemberFits, Pushed, At
    <3> QED BY <3>1, <3>2, <3>3, <3>4, <3>5, <3>6, <3>7 DEF RoomFits
  <2>8. \A j \in Rooms : j # k =>
            /\ j \in ghost'.gaveUp <=> j \in ghost.gaveUp
            /\ j \in ghost'.unsettled <=> j \in ghost.unsettled
            /\ ghost'.missed[j] = ghost.missed[j]
            /\ j \in ghost'.rejected <=> j \in ghost.rejected
    BY <2>b
  <2> QED BY <1>4, <1>5, <1>6, <2>1, <2>2, <2>3, <2>4, <2>7, <2>8, FrameOthers
<1>8. CASE tracker[k] # "joined"
  <2> DEFINE r == IF adm[k].by = "retry" THEN NextAttempt(k) ELSE RetryJoinLater(k)
             gives == IF adm[k].by = "retry" THEN retry[k].used = MaxRetries
                                             ELSE retry[k].pc = "admit"
  <2>1. /\ roster' = [roster EXCEPT ![k] = "unadmitted"]
        /\ retry' = [retry EXCEPT ![k] = r]
        /\ ghost' = IF gives THEN [ghost EXCEPT !.gaveUp = @ \cup {k}] ELSE ghost
        /\ UNCHANGED <<announced, callback>>
    BY <1>3, <1>8 DEF SubscribeReturned, Outstanding
  <2>2. /\ r \in Retries
        /\ r.pc = "none" => ~r.cancel
        /\ r.pc = "sleep" => r.used < MaxRetries
        /\ r.pc = "admit" => adm[k].by # "retry" /\ retry[k].pc = "admit"
        /\ r.cancel => retry[k].cancel
        /\ retry[k].cancel => r.pc = "none" \/ r.cancel
        /\ r.pc = "sleep" \/ gives
        /\ adm[k].by # "retry" /\ retry[k].pc = "admit" => r = retry[k]
    <3>1. /\ NoRetry \in Retries /\ NoRetry.pc = "none" /\ ~NoRetry.cancel /\ NoRetry.used = 0
          /\ MaxRetries \in Nat \ {0}
      BY NoRetryTyped, PresenceAssumption
    <3>2. /\ retry[k].pc \in {"none", "sleep", "admit"} /\ retry[k].used \in Nat
          /\ retry[k].used <= MaxRetries /\ retry[k].cancel \in BOOLEAN
      BY <1>1, RetryFields
    <3>3. [NoRetry EXCEPT !.pc = "sleep"] \in Retries /\ [retry[k] EXCEPT !.pc = "sleep"] \in Retries
      BY <1>1, <3>1 DEF Retries
    <3>4. CASE adm[k].by = "retry"
      BY <1>0, <1>1, <3>1, <3>2, <3>3, <3>4 DEF NextAttempt, RoomFits, OwnersFit, Retries
    <3>5. CASE adm[k].by # "retry"
      BY <1>0, <1>1, <1>3, <3>1, <3>2, <3>3, <3>5 DEF RetryJoinLater, RoomFits, RetryFits, Retries
    <3> QED BY <3>4, <3>5
  <2> HIDE DEF r
  <2>3. ghost \in Ghosts BY <1>0 DEF TypeOK
  <2>4. /\ ghost' \in Ghosts /\ (gives => k \in ghost'.gaveUp)
        /\ ghost'.unsettled = ghost.unsettled /\ ghost'.missed = ghost.missed /\ ghost'.rejected = ghost.rejected
        /\ \A j \in Rooms : j # k => (j \in ghost'.gaveUp <=> j \in ghost.gaveUp)
    BY <2>1, <2>3, GhostFields DEF Ghosts
  <2>5. TypeOK' BY <1>0, <1>4, <1>6, <2>1, <2>2, <2>4 DEF TypeOK
  <2>6. /\ roster'[k] = "unadmitted" /\ retry'[k] = r
        /\ \A j \in Rooms : j # k => roster'[j] = roster[j] /\ retry'[j] = retry[j]
    BY <1>0, <2>1 DEF TypeOK
  <2>7. PhaseFits' BY <1>0, <1>3, <1>4, <1>6, <2>1, <2>6 DEF PhaseFits
  <2>8. k \in ghost'.unsettled <=> k \in ghost.unsettled BY <2>4
  <2>9. RoomFits(k)'
    <3>1. OwnersFit(k)'
      BY <1>0, <1>3, <1>4, <1>6, <2>1, <2>2, <2>6, NoAdmFields DEF RoomFits, OwnersFit
    <3>2. RetryFits(k)'
      BY <1>0, <1>3, <1>4, <2>2, <2>6 DEF RoomFits, RetryFits, OwnersFit, At
    <3>3. ClaimFits(k)' BY <1>3, <1>4, <1>6, <2>6 DEF ClaimFits, Preclaimed
    <3>4. AnnounceFits(k)'
      BY <1>0, <1>3, <1>4, <1>6, <2>1, <2>4, <2>6, <2>8 DEF RoomFits, AnnounceFits, Unit
    <3>5. TrackFits(k)'
      BY <1>0, <1>2, <1>3, <1>4, <1>5, <1>8, <2>6, <2>8 DEF RoomFits, TrackFits, SubscribeReturned, At
    <3>6. QueueFits(k)' BY <1>0, <1>4 DEF RoomFits, QueueFits
    <3>7. MemberFits(k)'
      BY <1>0, <1>4, <2>2, <2>4, <2>6, <2>8 DEF RoomFits, MemberFits, Pushed, At
    <3> QED BY <3>1, <3>2, <3>3, <3>4, <3>5, <3>6, <3>7 DEF RoomFits
  <2> QED BY <1>4, <1>5, <1>6, <2>1, <2>4, <2>5, <2>6, <2>7, <2>9, FrameOthers
<1> QED BY <1>7, <1>8

LEMMA JoinedCallbackEndsKeeps ==
    ASSUME PresenceInv, NEW k \in Rooms, JoinedCallbackEnds(k)
    PROVE  PresenceInv'
<1>0. TypeOK /\ CallsOwn /\ PhaseFits /\ RoomFits(k) BY DEF PresenceInv
<1>1. PICK by \in callback[k] :
        /\ callback' = [callback EXCEPT ![k] = @ \ {by}]
        /\ retry' = IF by = "retry" THEN [retry EXCEPT ![k] = NoRetry] ELSE retry
        /\ UNCHANGED <<subVars, phase, roster, adm, consumer, leaving, queue, member,
                       announced, lost, ghost>>
  BY DEF JoinedCallbackEnds
<1>2. /\ TypeOK' /\ callback'[k] = callback[k] \ {by}
      /\ retry'[k] = IF by = "retry" THEN NoRetry ELSE retry[k]
      /\ \A j \in Rooms : j # k => callback'[j] = callback[j] /\ retry'[j] = retry[j]
  BY <1>0, <1>1, NoRetryTyped DEF TypeOK
<1>3. OnlyKey(k) /\ tracker' = tracker /\ call' = call BY <1>0, <1>1, StaysPut DEF subVars
<1>4. PhaseFits' BY <1>0, <1>1, <1>2 DEF PhaseFits
<1>5. RoomFits(k)'
  <2>0. NoRetry.pc = "none" /\ ~NoRetry.cancel BY NoRetryTyped
  <2>1. OwnersFit(k)' BY <1>0, <1>1, <1>2, <2>0 DEF RoomFits, OwnersFit, Cancelled
  <2>2. RetryFits(k)' BY <1>0, <1>1, <1>2, <2>0 DEF RoomFits, RetryFits, At
  <2>3. ClaimFits(k)' BY <1>0, <1>1 DEF RoomFits, ClaimFits, Preclaimed
  <2>4. AnnounceFits(k)' BY <1>0, <1>1, <1>3 DEF RoomFits, AnnounceFits, Unit
  <2>5. TrackFits(k)' BY <1>0, <1>1, <1>3 DEF RoomFits, TrackFits, At
  <2>6. QueueFits(k)' BY <1>0, <1>1 DEF RoomFits, QueueFits
  <2>7. MemberFits(k)'
    BY <1>0, <1>1, <1>2 DEF RoomFits, OwnersFit, MemberFits, Pushed, At
  <2> QED BY <2>1, <2>2, <2>3, <2>4, <2>5, <2>6, <2>7 DEF RoomFits
<1> QED BY <1>1, <1>2, <1>3, <1>4, <1>5, FrameOthers

\* An admission moves on to another stage of the same coroutine.
LEMMA StageTyped ==
    ASSUME TypeOK, NEW k \in Rooms, adm[k] # NoAdm,
           NEW stage \in {"sub", "denied", "cleanup", "cleaning", "cleaned"},
           adm' = [adm EXCEPT ![k].stage = stage]
    PROVE  /\ adm' \in [Rooms -> Admissions] /\ adm'[k] # NoAdm
           /\ adm'[k].stage = stage /\ adm'[k].by = adm[k].by
           /\ \A j \in Rooms : j # k => adm'[j] = adm[j]
<1>1. adm \in [Rooms -> Admissions] /\ adm[k] \in Admissions BY DEF TypeOK
<1>2. adm[k] \in [stage : {"start", "sub", "denied", "cleanup", "cleaning", "cleaned"}, by : Owners]
  BY <1>1 DEF Admissions
<1> DEFINE a == [adm[k] EXCEPT !.stage = stage]
<1>3. a \in Admissions /\ a.stage = stage /\ a.by = adm[k].by BY <1>2 DEF Admissions
<1>4. adm' = [adm EXCEPT ![k] = a] OBVIOUS
<1> HIDE DEF a
<1>5. adm'[k] = a /\ adm' \in [Rooms -> Admissions] BY <1>1, <1>3, <1>4
<1> QED BY <1>1, <1>3, <1>4, <1>5, NoAdmFields

LEMMA CancelAdmissionKeeps ==
    ASSUME SubInv, PresenceInv, NEW k \in Rooms, CancelAdmission(k)
    PROVE  PresenceInv'
<1>0. TypeOK /\ CallsOwn /\ PhaseFits /\ RoomFits(k) /\ k \in Keys BY RoomKeys DEF PresenceInv
<1>1. /\ adm[k].stage = "sub" /\ adm[k] # NoAdm /\ Cancelled(k) /\ CancelSubscribe(k)
      /\ adm' = [adm EXCEPT ![k].stage = "cleanup"]
      /\ UNCHANGED <<callback, phase, roster, retry, consumer, leaving, queue, member,
                     announced, lost, ghost>>
  BY NoAdmFields DEF CancelAdmission
<1>2. OnlyKey(k) /\ call'[k].op = "idle" /\ tracker'[k] = "ambiguous"
  BY <1>0, <1>1, CancelOutcome DEF Outcome
<1>3. /\ adm' \in [Rooms -> Admissions] /\ adm'[k] # NoAdm
      /\ adm'[k].stage = "cleanup" /\ adm'[k].by = adm[k].by
      /\ \A j \in Rooms : j # k => adm'[j] = adm[j]
  BY <1>0, <1>1, StageTyped
<1>4. roster[k] = "admitting" /\ phase \in {"startup", "up", "stopping", "unretry"}
  BY <1>1, AdmissionRuns
<1>5. TypeOK' /\ PhaseFits' BY <1>0, <1>1, <1>3, <1>4 DEF TypeOK, PhaseFits
<1>6. RoomFits(k)'
  <2>1. OwnersFit(k)' BY <1>0, <1>1, <1>3 DEF RoomFits, OwnersFit, Cancelled
  <2>2. RetryFits(k)' BY <1>0, <1>1 DEF RoomFits, RetryFits, At
  <2>3. ClaimFits(k)' BY <1>0, <1>1, <1>3 DEF RoomFits, ClaimFits, Preclaimed
  <2>4. AnnounceFits(k)' BY <1>0, <1>1, <1>2, <1>3 DEF RoomFits, AnnounceFits, Unit
  <2>5. TrackFits(k)' BY <1>0, <1>1, <1>2, <1>4 DEF RoomFits, TrackFits, At
  <2>6. QueueFits(k)' BY <1>0, <1>1 DEF RoomFits, QueueFits
  <2>7. MemberFits(k)' BY <1>0, <1>1 DEF RoomFits, MemberFits, Pushed, At
  <2> QED BY <2>1, <2>2, <2>3, <2>4, <2>5, <2>6, <2>7 DEF RoomFits
<1> QED BY <1>1, <1>2, <1>3, <1>5, <1>6, FrameOthers

LEMMA CleanUpKeeps ==
    ASSUME SubInv, PresenceInv, NEW k \in Rooms, CleanUp(k)
    PROVE  PresenceInv'
<1>0. TypeOK /\ CallsOwn /\ PhaseFits /\ RoomFits(k) /\ k \in Keys BY RoomKeys DEF PresenceInv
<1> DEFINE stage == IF MayUnsubscribe(k) THEN "cleaning" ELSE "cleaned"
<1>1. /\ adm[k].stage = "cleanup" /\ adm[k] # NoAdm /\ StartUnsubscribe(k)
      /\ adm' = [adm EXCEPT ![k].stage = stage]
      /\ UNCHANGED <<callback, phase, roster, retry, consumer, leaving, queue, member,
                     announced, lost, ghost>>
  BY NoAdmFields DEF CleanUp
<1>2. /\ OnlyKey(k) /\ tracker'[k] # "joined"
      /\ call'[k].op = "leave" \/ call'[k] = call[k]
  BY <1>0, <1>1, StartUnsubscribeEffect
<1>3. stage \in {"cleaning", "cleaned"} OBVIOUS
<1> HIDE DEF stage
<1>4. /\ adm' \in [Rooms -> Admissions] /\ adm'[k] # NoAdm
      /\ adm'[k].stage = stage /\ adm'[k].by = adm[k].by
      /\ \A j \in Rooms : j # k => adm'[j] = adm[j]
  BY <1>0, <1>1, <1>3, StageTyped
<1>5. roster[k] = "admitting" /\ phase \in {"startup", "up", "stopping", "unretry"}
  BY <1>1, AdmissionRuns
<1>6. TypeOK' /\ PhaseFits' BY <1>0, <1>1, <1>4, <1>5 DEF TypeOK, PhaseFits
<1>7. RoomFits(k)'
  <2>1. OwnersFit(k)' BY <1>0, <1>1, <1>3, <1>4 DEF RoomFits, OwnersFit, Cancelled
  <2>2. RetryFits(k)' BY <1>0, <1>1 DEF RoomFits, RetryFits, At
  <2>3. ClaimFits(k)' BY <1>0, <1>1, <1>4 DEF RoomFits, ClaimFits, Preclaimed
  <2>4. AnnounceFits(k)' BY <1>0, <1>1, <1>4 DEF RoomFits, AnnounceFits, Unit
  <2>5. TrackFits(k)' BY <1>0, <1>1, <1>2, <1>5 DEF RoomFits, TrackFits, At
  <2>6. QueueFits(k)' BY <1>0, <1>1 DEF RoomFits, QueueFits
  <2>7. MemberFits(k)' BY <1>0, <1>1 DEF RoomFits, MemberFits, Pushed, At
  <2> QED BY <2>1, <2>2, <2>3, <2>4, <2>5, <2>6, <2>7 DEF RoomFits
<1> QED BY <1>1, <1>2, <1>4, <1>6, <1>7, FrameOthers

LEMMA CleanedUpKeeps ==
    ASSUME SubInv, PresenceInv, NEW k \in Rooms, CleanedUp(k)
    PROVE  PresenceInv'
<1>0. TypeOK /\ CallsOwn /\ PhaseFits /\ RoomFits(k) /\ k \in Keys BY RoomKeys DEF PresenceInv
<1>1. /\ adm[k].stage \in {"cleaning", "cleaned"} /\ adm[k] # NoAdm
      /\ roster' = [roster EXCEPT ![k] = "unadmitted"]
      /\ adm' = [adm EXCEPT ![k] = NoAdm]
      /\ retry' = IF adm[k].by = "retry" THEN [retry EXCEPT ![k] = NoRetry] ELSE retry
      /\ UNCHANGED <<subVars, callback, phase, consumer, leaving, queue, member,
                     announced, lost, ghost>>
  <2>1. adm[k].stage \in {"cleaning", "cleaned"} /\ adm[k] # NoAdm BY NoAdmFields DEF CleanedUp
  <2>2. Outstanding(k) /\ Cancelled(k)
    BY <1>0, <2>1, AdmissionRuns DEF RoomFits, OwnersFit, Outstanding
  <2> QED BY <2>1, <2>2 DEF CleanedUp
<1>2. /\ roster[k] = "admitting" /\ phase \in {"startup", "up", "stopping", "unretry"}
      /\ ~Preclaimed(k) /\ ~At(k, {"leave", "left"})
      /\ At(k, {"unretry"}) => adm[k].by = "retry"
  BY <1>1, AdmissionRuns
<1>3. /\ TypeOK' /\ roster'[k] = "unadmitted" /\ adm'[k] = NoAdm
      /\ retry'[k] = IF adm[k].by = "retry" THEN NoRetry ELSE retry[k]
      /\ \A j \in Rooms : j # k =>
            roster'[j] = roster[j] /\ adm'[j] = adm[j] /\ retry'[j] = retry[j]
  BY <1>0, <1>1, NoAdmFields, NoRetryTyped DEF TypeOK
<1>4. OnlyKey(k) /\ tracker' = tracker /\ call' = call BY <1>0, <1>1, StaysPut DEF subVars
<1>5. PhaseFits' BY <1>0, <1>1, <1>2, <1>3 DEF PhaseFits
<1>6. phase \in {"startup", "up"} => At(k, {"unretry"})
  BY <1>0, <1>1, <1>2 DEF RoomFits, OwnersFit, RetryFits, Cancelled
<1>7. RoomFits(k)'
  <2>0. NoRetry.pc = "none" /\ ~NoRetry.cancel BY NoRetryTyped
  <2>1. OwnersFit(k)'
    BY <1>0, <1>1, <1>3, NoAdmFields DEF RoomFits, OwnersFit
  <2>2. RetryFits(k)' BY <1>0, <1>1, <1>3, <2>0 DEF RoomFits, RetryFits, At
  <2>3. ClaimFits(k)' BY <1>1, <1>2, <1>3 DEF ClaimFits, Preclaimed
  <2>4. AnnounceFits(k)' BY <1>0, <1>1, <1>2, <1>3 DEF RoomFits, AnnounceFits, Unit
  <2>5. TrackFits(k)' BY <1>0, <1>1, <1>2, <1>3, <1>4 DEF RoomFits, TrackFits, AnnounceFits, Unit, At
  <2>6. QueueFits(k)' BY <1>0, <1>1 DEF RoomFits, QueueFits
  <2>7. MemberFits(k)'
    BY <1>0, <1>1, <1>2, <1>3, <1>6 DEF RoomFits, MemberFits, Pushed, At
  <2> QED BY <2>1, <2>2, <2>3, <2>4, <2>5, <2>6, <2>7 DEF RoomFits
<1> QED BY <1>1, <1>3, <1>4, <1>5, <1>7, FrameOthers

\* begin_room_admission gives the ticket of k to the owner by: the room is claimed, and
\* its admission subscribes or is denied.
LEMMA ClaimTyped ==
    ASSUME TypeOK, NEW k \in Rooms, NEW by \in Owners, adm' = [adm EXCEPT ![k] = Subscribing(k, by)]
    PROVE  /\ adm' \in [Rooms -> Admissions] /\ adm'[k] # NoAdm
           /\ adm'[k].stage = IF MaySubscribe(k) THEN "sub" ELSE "denied"
           /\ adm'[k].by = by
           /\ \A j \in Rooms : j # k => adm'[j] = adm[j]
<1>1. adm \in [Rooms -> Admissions] BY DEF TypeOK
<1>2. /\ Subscribing(k, by) \in Admissions
      /\ Subscribing(k, by).stage = IF MaySubscribe(k) THEN "sub" ELSE "denied"
      /\ Subscribing(k, by).by = by
  BY AdmTyped DEF Subscribing
<1>3. adm'[k] = Subscribing(k, by) /\ \A j \in Rooms : j # k => adm'[j] = adm[j]
  BY <1>1
<1>4. adm' \in [Rooms -> Admissions] BY <1>1, <1>2
<1> QED BY <1>2, <1>3, <1>4, NoAdmFields

LEMMA RetryWakesKeeps ==
    ASSUME SubInv, PresenceInv, NEW k \in Rooms, RetryWakes(k)
    PROVE  PresenceInv'
<1>0. TypeOK /\ CallsOwn /\ PhaseFits /\ RoomFits(k) /\ k \in Keys BY RoomKeys DEF PresenceInv
<1>1. /\ retry[k].pc = "sleep" /\ ~retry[k].cancel /\ ~Resumable
      /\ UNCHANGED <<callback, phase, consumer, leaving, queue, member, announced, lost>>
  BY DEF RetryWakes
<1>2. /\ phase \in {"startup", "up", "stopping", "unretry"}
      /\ ~At(k, {"unretry", "leave", "left"}) /\ retry[k].used < MaxRetries
      /\ "retry" \notin callback[k]
  BY <1>0, <1>1 DEF RoomFits, RetryFits, OwnersFit, At
<1>3. /\ leaving[k] \in {"no", "begin", "wait", "left"} /\ retry[k] \in Retries
      /\ adm[k] \in Admissions /\ roster[k] \in {"unadmitted", "admitting", "admitted"}
  BY <1>0, RoomTyped
<1>4. CASE Claimable(k)
  <2>1. /\ roster' = [roster EXCEPT ![k] = "admitting"]
        /\ adm' = [adm EXCEPT ![k] = Subscribing(k, "retry")]
        /\ retry' = [retry EXCEPT ![k].pc = "admit", ![k].used = @ + 1]
        /\ ghost' = IF leaving[k] = "begin" THEN [ghost EXCEPT !.unsettled = @ \cup {k}] ELSE ghost
        /\ StartSubscribe(k)
    BY <1>4 DEF RetryWakes
  <2>2. roster[k] = "unadmitted" /\ adm[k] = NoAdm /\ ~Preclaimed(k)
    BY <1>0, <1>4 DEF Claimable, RoomFits, ClaimFits
  <2>3. /\ OnlyKey(k)
        /\ MaySubscribe(k) => /\ tracker[k] = "absent" /\ call[k].op = "idle"
                              /\ call'[k].op = "join" /\ tracker'[k] = "joining"
        /\ ~MaySubscribe(k) => call'[k] = call[k] /\ tracker'[k] = tracker[k]
    BY <1>0, <2>1, StartSubscribeEffect
  <2>4. /\ adm' \in [Rooms -> Admissions] /\ adm'[k] # NoAdm
        /\ adm'[k].stage = (IF MaySubscribe(k) THEN "sub" ELSE "denied") /\ adm'[k].by = "retry"
        /\ \A j \in Rooms : j # k => adm'[j] = adm[j]
    BY <1>0, <2>1, ClaimTyped DEF Owners
  <2> DEFINE r == [retry[k] EXCEPT !.pc = "admit", !.used = @ + 1]
  <2>5. r \in Retries /\ r.pc = "admit" /\ r.cancel = retry[k].cancel
    <3>1. retry[k].used + 1 \in 0..MaxRetries
      BY <1>2, <1>3, RetryFields, PresenceAssumption
    <3> QED BY <1>3, <3>1 DEF Retries
  <2>6. retry' = [retry EXCEPT ![k] = r] BY <2>1
  <2> HIDE DEF r
  <2>7. /\ retry' \in [Rooms -> Retries] /\ retry'[k] = r
        /\ \A j \in Rooms : j # k => retry'[j] = retry[j]
    BY <1>0, <2>5, <2>6 DEF TypeOK
  <2>8. ghost \in Ghosts BY <1>0 DEF TypeOK
  <2>9. /\ ghost' \in Ghosts /\ (leaving[k] = "begin" => k \in ghost'.unsettled)
        /\ ghost'.gaveUp = ghost.gaveUp /\ ghost'.missed = ghost.missed
        /\ ghost'.rejected = ghost.rejected /\ ghost.unsettled \subseteq ghost'.unsettled
        /\ \A j \in Rooms : j # k => (j \in ghost'.unsettled <=> j \in ghost.unsettled)
    BY <2>1, <2>8, GhostFields DEF Ghosts
  <2>10. /\ roster' \in [Rooms -> {"unadmitted", "admitting", "admitted"}]
         /\ roster'[k] = "admitting" /\ \A j \in Rooms : j # k => roster'[j] = roster[j]
    BY <1>0, <2>1 DEF TypeOK
  <2>11. TypeOK' BY <1>0, <1>1, <2>4, <2>7, <2>9, <2>10 DEF TypeOK
  <2>12. PhaseFits' BY <1>0, <1>1, <1>2 DEF PhaseFits
  <2>13. k \notin ghost'.unsettled => k \notin ghost.unsettled /\ leaving[k] # "begin"
    BY <2>9
  <2>14. leaving[k] = "wait" => call[k].op # "idle" /\ ~MaySubscribe(k)
    <3>1. leaving[k] = "wait" => call[k].op # "idle" BY <1>1 DEF Resumable
    <3> QED BY <1>0, <3>1, Occupied DEF MaySubscribe
  <2>15. leaving[k] # "left" BY <1>1 DEF Resumable
  <2>16. RoomFits(k)'
    <3>1. OwnersFit(k)' BY <1>0, <1>1, <1>2, <2>2, <2>4, <2>5, <2>7 DEF RoomFits, OwnersFit
    <3>2. RetryFits(k)' BY <1>1, <1>2, <2>5, <2>7 DEF RetryFits, At
    <3>3. ClaimFits(k)' BY <1>1, <2>2, <2>4, <2>10 DEF ClaimFits, Preclaimed
    <3>4. AnnounceFits(k)'
      BY <1>0, <1>1, <1>3, <2>2, <2>3, <2>4, <2>9, <2>10, <2>13, <2>14, <2>15
         DEF RoomFits, AnnounceFits, Unit
    <3>5. TrackFits(k)'
      BY <1>0, <1>1, <1>2, <2>2, <2>3, <2>4, <2>9, <2>10, <2>13, NoAdmFields
         DEF RoomFits, TrackFits, At
    <3>6. QueueFits(k)' BY <1>0, <1>1 DEF RoomFits, QueueFits
    <3>7. MemberFits(k)'
      BY <1>0, <1>1, <2>10, <2>13 DEF RoomFits, MemberFits, Pushed, At
    <3> QED BY <3>1, <3>2, <3>3, <3>4, <3>5, <3>6, <3>7 DEF RoomFits
  <2> QED BY <1>1, <2>3, <2>4, <2>7, <2>9, <2>10, <2>11, <2>12, <2>16, FrameOthers
<1>5. CASE ~Claimable(k)
  <2>1. retry' = [retry EXCEPT ![k] = NoRetry] /\ UNCHANGED <<subVars, roster, adm, ghost>>
    BY <1>5 DEF RetryWakes
  <2>2. /\ TypeOK' /\ retry'[k] = NoRetry
        /\ \A j \in Rooms : j # k => retry'[j] = retry[j]
    BY <1>0, <1>1, <2>1, NoRetryTyped DEF TypeOK
  <2>3. OnlyKey(k) /\ tracker' = tracker /\ call' = call BY <1>0, <2>1, StaysPut DEF subVars
  <2>4. PhaseFits' BY <1>0, <1>1, <2>1 DEF PhaseFits
  <2>5. roster[k] # "unadmitted" BY <1>5 DEF Claimable
  <2>6. RoomFits(k)'
    <3>0. NoRetry.pc = "none" /\ ~NoRetry.cancel BY NoRetryTyped
    <3>1. OwnersFit(k)'
      BY <1>0, <1>1, <1>2, <2>1, <2>2, <3>0 DEF RoomFits, OwnersFit, Cancelled
    <3>2. RetryFits(k)' BY <1>1, <1>2, <2>2, <3>0 DEF RetryFits, At
    <3>3. ClaimFits(k)' BY <1>0, <1>1, <2>1 DEF RoomFits, ClaimFits, Preclaimed
    <3>4. AnnounceFits(k)' BY <1>0, <1>1, <2>1, <2>3 DEF RoomFits, AnnounceFits, Unit
    <3>5. TrackFits(k)' BY <1>0, <1>1, <2>1, <2>3 DEF RoomFits, TrackFits, At
    <3>6. QueueFits(k)' BY <1>0, <1>1 DEF RoomFits, QueueFits
    <3>7. MemberFits(k)'
      BY <1>0, <1>1, <2>1, <2>5 DEF RoomFits, MemberFits, Pushed, At
    <3> QED BY <3>1, <3>2, <3>3, <3>4, <3>5, <3>6, <3>7 DEF RoomFits
  <2> QED BY <1>1, <2>1, <2>2, <2>3, <2>4, <2>6, FrameOthers
<1> QED BY <1>4, <1>5

LEMMA RetryCancelledKeeps ==
    ASSUME PresenceInv, NEW k \in Rooms, RetryCancelled(k)
    PROVE  PresenceInv'
<1>0. TypeOK /\ CallsOwn /\ PhaseFits /\ RoomFits(k) BY DEF PresenceInv
<1>1. /\ retry[k].pc = "sleep" /\ retry[k].cancel /\ retry' = [retry EXCEPT ![k] = NoRetry]
      /\ UNCHANGED <<subVars, phase, roster, adm, callback, consumer, leaving, queue, member,
                     announced, lost, ghost>>
  BY DEF RetryCancelled
<1>2. TypeOK' /\ retry'[k] = NoRetry /\ \A j \in Rooms : j # k => retry'[j] = retry[j]
  BY <1>0, <1>1, NoRetryTyped DEF TypeOK
<1>3. OnlyKey(k) /\ tracker' = tracker /\ call' = call BY <1>0, <1>1, StaysPut DEF subVars
<1>4. PhaseFits' BY <1>0, <1>1 DEF PhaseFits
<1>5. RoomFits(k)'
  <2>0. NoRetry.pc = "none" /\ ~NoRetry.cancel BY NoRetryTyped
  <2>1. OwnersFit(k)' BY <1>0, <1>1, <1>2, <2>0 DEF RoomFits, OwnersFit, Cancelled
  <2>2. RetryFits(k)' BY <1>0, <1>1, <1>2, <2>0 DEF RoomFits, RetryFits, At
  <2>3. ClaimFits(k)' BY <1>0, <1>1 DEF RoomFits, ClaimFits, Preclaimed
  <2>4. AnnounceFits(k)' BY <1>0, <1>1, <1>3 DEF RoomFits, AnnounceFits, Unit
  <2>5. TrackFits(k)' BY <1>0, <1>1, <1>3 DEF RoomFits, TrackFits, At
  <2>6. QueueFits(k)' BY <1>0, <1>1 DEF RoomFits, QueueFits
  <2>7. MemberFits(k)'
    BY <1>0, <1>1, <1>2 DEF RoomFits, RetryFits, MemberFits, Pushed, At
  <2> QED BY <2>1, <2>2, <2>3, <2>4, <2>5, <2>6, <2>7 DEF RoomFits
<1> QED BY <1>1, <1>2, <1>3, <1>4, <1>5, FrameOthers

\* One of the admissions gathered for a batch subscribes.
LEMMA StartAdmissionKeeps ==
    ASSUME SubInv, PresenceInv, NEW k \in Rooms, StartAdmission(k)
    PROVE  PresenceInv'
<1>0. TypeOK /\ CallsOwn /\ PhaseFits /\ RoomFits(k) /\ k \in Keys BY RoomKeys DEF PresenceInv
<1>1. /\ adm[k].stage = "start" /\ adm[k] # NoAdm /\ StartSubscribe(k)
      /\ adm' = [adm EXCEPT ![k] = Subscribing(k, adm[k].by)]
      /\ UNCHANGED <<callback, phase, roster, retry, consumer, leaving, queue, member,
                     announced, lost, ghost>>
  BY NoAdmFields DEF StartAdmission
<1>2. /\ adm[k].by \in Owners /\ roster[k] = "admitting"
      /\ phase \in {"startup", "up", "stopping", "unretry"}
  BY <1>1, AdmissionRuns
<1>3. /\ adm' \in [Rooms -> Admissions] /\ adm'[k] # NoAdm
      /\ adm'[k].stage = (IF MaySubscribe(k) THEN "sub" ELSE "denied") /\ adm'[k].by = adm[k].by
      /\ \A j \in Rooms : j # k => adm'[j] = adm[j]
  BY <1>0, <1>1, <1>2, ClaimTyped
<1>4. /\ OnlyKey(k)
      /\ MaySubscribe(k) => call'[k].op = "join" /\ tracker'[k] = "joining"
      /\ ~MaySubscribe(k) => call'[k] = call[k] /\ tracker'[k] = tracker[k]
  BY <1>0, <1>1, StartSubscribeEffect
<1>5. TypeOK' /\ PhaseFits' BY <1>0, <1>1, <1>2, <1>3 DEF TypeOK, PhaseFits
<1>6. RoomFits(k)'
  <2>1. OwnersFit(k)' BY <1>0, <1>1, <1>3 DEF RoomFits, OwnersFit
  <2>2. RetryFits(k)' BY <1>0, <1>1 DEF RoomFits, RetryFits, At
  <2>3. ClaimFits(k)' BY <1>0, <1>1, <1>3 DEF RoomFits, ClaimFits, Preclaimed
  <2>4. AnnounceFits(k)' BY <1>0, <1>1, <1>3 DEF RoomFits, AnnounceFits, Unit
  <2>5. TrackFits(k)'
    BY <1>0, <1>1, <1>2, <1>3, <1>4 DEF RoomFits, TrackFits, AnnounceFits, Unit, At
  <2>6. QueueFits(k)' BY <1>0, <1>1 DEF RoomFits, QueueFits
  <2>7. MemberFits(k)' BY <1>0, <1>1 DEF RoomFits, MemberFits, Pushed, At
  <2> QED BY <2>1, <2>2, <2>3, <2>4, <2>5, <2>6, <2>7 DEF RoomFits
<1> QED BY <1>1, <1>3, <1>4, <1>5, <1>6, FrameOthers

LEMMA CancelUnstartedKeeps ==
    ASSUME PresenceInv, NEW k \in Rooms, CancelUnstarted(k)
    PROVE  PresenceInv'
<1>0. TypeOK /\ CallsOwn /\ PhaseFits /\ RoomFits(k) BY DEF PresenceInv
<1>1. /\ adm[k].stage = "start" /\ adm[k] # NoAdm /\ Cancelled(k)
      /\ adm' = [adm EXCEPT ![k] = NoAdm]
      /\ UNCHANGED <<subVars, callback, phase, roster, retry, consumer, leaving, queue, member,
                     announced, lost, ghost>>
  BY NoAdmFields DEF CancelUnstarted
<1>2. phase = "stopping" /\ roster[k] = "admitting"
  BY <1>0, <1>1 DEF RoomFits, OwnersFit, ClaimFits, Cancelled
<1>3. TypeOK' /\ adm'[k] = NoAdm /\ \A j \in Rooms : j # k => adm'[j] = adm[j]
  BY <1>0, <1>1, NoAdmFields DEF TypeOK
<1>4. OnlyKey(k) /\ tracker' = tracker /\ call' = call BY <1>0, <1>1, StaysPut DEF subVars
<1>5. PhaseFits' BY <1>0, <1>1, <1>2 DEF PhaseFits
<1>6. RoomFits(k)'
  <2>1. OwnersFit(k)' BY <1>0, <1>1, <1>3, NoAdmFields DEF RoomFits, OwnersFit
  <2>2. RetryFits(k)' BY <1>0, <1>1 DEF RoomFits, RetryFits, At
  <2>3. ClaimFits(k)' BY <1>0, <1>1, <1>2, <1>3 DEF RoomFits, ClaimFits, Preclaimed
  <2>4. AnnounceFits(k)' BY <1>0, <1>1, <1>3 DEF RoomFits, AnnounceFits, Unit
  <2>5. TrackFits(k)'
    BY <1>0, <1>1, <1>2, <1>4 DEF RoomFits, TrackFits, AnnounceFits, Unit, At
  <2>6. QueueFits(k)' BY <1>0, <1>1 DEF RoomFits, QueueFits
  <2>7. MemberFits(k)' BY <1>0, <1>1 DEF RoomFits, MemberFits, Pushed, At
  <2> QED BY <2>1, <2>2, <2>3, <2>4, <2>5, <2>6, <2>7 DEF RoomFits
<1> QED BY <1>1, <1>3, <1>4, <1>5, <1>6, FrameOthers

-----------------------------------------------------------------------------
(* Leaving *)

LEMMA LeaveOneRoomKeeps ==
    ASSUME SubInv, PresenceInv, NEW k \in Rooms, LeaveOneRoom(k)
    PROVE  PresenceInv'
<1>0. TypeOK /\ CallsOwn /\ PhaseFits /\ RoomFits(k) /\ k \in Keys BY RoomKeys DEF PresenceInv
<1> DEFINE stage == IF MayUnsubscribe(k) THEN "wait" ELSE "left"
<1>1. /\ leaving[k] = "begin" /\ StartUnsubscribe(k)
      /\ leaving' = [leaving EXCEPT ![k] = stage]
      /\ UNCHANGED <<phase, roster, adm, callback, retry, consumer, queue, member,
                     announced, lost, ghost>>
  BY DEF LeaveOneRoom
<1>2. /\ OnlyKey(k) /\ tracker'[k] # "joined"
      /\ call'[k].op = "leave" \/ call'[k] = call[k]
  BY <1>0, <1>1, StartUnsubscribeEffect
<1>3. stage \in {"wait", "left"} OBVIOUS
<1> HIDE DEF stage
<1>4. TypeOK' /\ leaving'[k] = stage /\ \A j \in Rooms : j # k => leaving'[j] = leaving[j]
  BY <1>0, <1>1, <1>3 DEF TypeOK
<1>5. PhaseFits' BY <1>0, <1>1, <1>4 DEF PhaseFits
<1>6. RoomFits(k)'
  <2>1. OwnersFit(k)' BY <1>0, <1>1 DEF RoomFits, OwnersFit, Cancelled
  <2>2. RetryFits(k)' BY <1>0, <1>1 DEF RoomFits, RetryFits, At
  <2>3. ClaimFits(k)' BY <1>0, <1>1 DEF RoomFits, ClaimFits, Preclaimed
  <2>4. AnnounceFits(k)' BY <1>0, <1>1, <1>3, <1>4 DEF RoomFits, AnnounceFits, Unit
  <2>5. TrackFits(k)'
    BY <1>0, <1>1, <1>2, <1>3, <1>4 DEF RoomFits, TrackFits, AnnounceFits, Unit, At
  <2>6. QueueFits(k)' BY <1>0, <1>1 DEF RoomFits, QueueFits
  <2>7. MemberFits(k)' BY <1>0, <1>1, <1>3, <1>4 DEF RoomFits, MemberFits, Pushed, At
  <2> QED BY <2>1, <2>2, <2>3, <2>4, <2>5, <2>6, <2>7 DEF RoomFits
<1> QED BY <1>1, <1>2, <1>4, <1>5, <1>6, FrameOthers

LEMMA LeftCallbackKeeps ==
    ASSUME PresenceInv, NEW k \in Rooms, LeftCallback(k)
    PROVE  PresenceInv'
<1>0. /\ TypeOK /\ CallsOwn /\ PhaseFits /\ RoomFits(k)
      /\ announced[k] \in Int /\ ghost.missed[k] \in Nat
  BY RoomTyped DEF PresenceInv
<1>1. /\ leaving[k] = "left" \/ (leaving[k] = "wait" /\ call[k].op = "idle")
      /\ leaving' = [leaving EXCEPT ![k] = "no"]
      /\ announced' = [announced EXCEPT ![k] = @ - 1]
      /\ UNCHANGED <<subVars, phase, roster, adm, callback, retry, consumer, queue, member,
                     lost, ghost>>
  BY DEF LeftCallback
<1>2. /\ TypeOK' /\ leaving'[k] = "no" /\ announced'[k] = announced[k] - 1
      /\ \A j \in Rooms : j # k => leaving'[j] = leaving[j] /\ announced'[j] = announced[j]
  BY <1>0, <1>1 DEF TypeOK
<1>3. OnlyKey(k) /\ tracker' = tracker /\ call' = call BY <1>0, <1>1, StaysPut DEF subVars
<1>4. PhaseFits' BY <1>0, <1>1, <1>2 DEF PhaseFits
<1>5. RoomFits(k)'
  <2>1. OwnersFit(k)' BY <1>0, <1>1 DEF RoomFits, OwnersFit, Cancelled
  <2>2. RetryFits(k)' BY <1>0, <1>1 DEF RoomFits, RetryFits, At
  <2>3. ClaimFits(k)' BY <1>0, <1>1 DEF RoomFits, ClaimFits, Preclaimed
  <2>4. AnnounceFits(k)' BY <1>0, <1>1, <1>2 DEF RoomFits, AnnounceFits, Unit
  <2>5. TrackFits(k)' BY <1>0, <1>1, <1>2, <1>3 DEF RoomFits, TrackFits, At
  <2>6. QueueFits(k)' BY <1>0, <1>1 DEF RoomFits, QueueFits
  <2>7. MemberFits(k)' BY <1>0, <1>1, <1>2 DEF RoomFits, MemberFits, Pushed, At
  <2> QED BY <2>1, <2>2, <2>3, <2>4, <2>5, <2>6, <2>7 DEF RoomFits
<1> QED BY <1>1, <1>2, <1>3, <1>4, <1>5, FrameOthers

-----------------------------------------------------------------------------
(* The consumer *)

LEMMA ConsumerMoves ==
    ASSUME NEW j \in Rooms, RoomFits(j), consumer.pc # "remove", consumer'.pc # "remove",
           ~At(j, {"unretry", "leave", "left"}), ~At(j, {"unretry", "leave", "left"})',
           consumer.pc \in {"admit", "admitall"} =>
               adm[j].by # "consumer" /\ "consumer" \notin callback[j]
    PROVE  SameView(j)
BY DEF RoomFits, OwnersFit, SameView, At, Preclaimed

\* A step of the consumer that touches room k.
LEMMA FrameConsumer ==
    ASSUME NEW k \in Rooms, PresenceInv, OnlyKey(k), UNCHANGED <<phase, lost, member>>,
           \A j \in Rooms : j # k =>
               /\ roster'[j] = roster[j] /\ adm'[j] = adm[j] /\ callback'[j] = callback[j]
               /\ retry'[j] = retry[j] /\ leaving'[j] = leaving[j]
               /\ announced'[j] = announced[j]
               /\ j \in ghost'.gaveUp <=> j \in ghost.gaveUp
               /\ j \in ghost'.unsettled <=> j \in ghost.unsettled
               /\ ghost'.missed[j] = ghost.missed[j]
               /\ j \in ghost'.rejected <=> j \in ghost.rejected
               /\ SameView(j) /\ QueueFits(j)' /\ (Pushed(j)' <=> Pushed(j)),
           TypeOK', PhaseFits', RoomFits(k)'
    PROVE  PresenceInv'
<1>1. CallsOwn' BY RoomKeys, OnlyKeyOwns DEF PresenceInv
<1>2. ASSUME NEW j \in Rooms, j # k PROVE RoomFits(j)'
  <2>1. Untouched(j) BY <1>2, RoomKeys DEF Untouched, OnlyKey
  <2> QED BY <1>2, <2>1, FrameView DEF PresenceInv
<1> QED BY <1>1, <1>2 DEF PresenceInv

\* A step that moves only the consumer, the queue and what was lost.
LEMMA FrameAll ==
    ASSUME PresenceInv, TypeOK', PhaseFits',
           UNCHANGED <<subVars, phase, roster, adm, callback, retry, leaving, member, announced,
                       ghost>>,
           \A j \in Rooms : /\ SameView(j) /\ QueueFits(j)'
                            /\ j \notin lost' => j \notin lost /\ (Pushed(j)' <=> Pushed(j))
    PROVE  PresenceInv'
<1>1. CallsOwn' BY DEF PresenceInv, CallsOwn, subVars
<1>2. ASSUME NEW j \in Rooms PROVE RoomFits(j)'
  <2>1. Untouched(j) BY DEF Untouched, subVars
  <2> QED BY <2>1, FrameView DEF PresenceInv
<1> QED BY <1>1, <1>2 DEF PresenceInv

\* The event at the head of the queue is one of a room, or a reconnect.
LEMMA TakeRoom ==
    ASSUME PresenceInv, NEW kind \in {"added", "removed", "reconnected"}, Take(kind)
    PROVE  /\ queue # <<>> /\ consumer.pc = "idle" /\ phase = "up"
           /\ Head(queue) \in Events /\ Head(queue).kind = kind
           /\ kind # "reconnected" => Head(queue).room \in Rooms
           /\ kind = "reconnected" => Head(queue).room \notin Rooms
           /\ \A j \in Rooms : leaving[j] = "no"
<1>1. queue # <<>> /\ consumer.pc = "idle" /\ phase = "up" /\ Head(queue).kind = kind
  BY DEF Take
<1>2. Head(queue) \in Events BY <1>1, TakeTyped DEF PresenceInv
<1>3. \A j \in Rooms : leaving[j] = "no" BY <1>1 DEF PresenceInv, PhaseFits
<1> QED BY <1>1, <1>2, <1>3, EventFields, RoomKeys

LEMMA HandleRoomAddedKeeps ==
    ASSUME SubInv, PresenceInv, HandleRoomAdded
    PROVE  PresenceInv'
<1>0. TypeOK /\ CallsOwn /\ PhaseFits BY DEF PresenceInv
<1>1. Take("added") /\ queue' = Tail(queue)
      /\ UNCHANGED <<callback, phase, retry, leaving, member, announced, lost>>
  BY DEF HandleRoomAdded
<1>a. PICK k \in Rooms : k = Head(queue).room BY <1>1, TakeRoom
<1>2. /\ queue # <<>> /\ consumer.pc = "idle" /\ phase = "up"
      /\ Head(queue).kind = "added" /\ \A j \in Rooms : leaving[j] = "no"
  BY <1>1, TakeRoom
<1>3. /\ Tail(queue) \in Seq(Events) /\ Len(Tail(queue)) <= QueueCap
  BY <1>0, <1>2, TakeTyped
<1>4. ASSUME NEW j \in Rooms
      PROVE  /\ QueueFits(j)' /\ (j # k => (Pushed(j)' <=> Pushed(j)))
             /\ j = k /\ ~Pushed(j)' /\ j \notin lost => j \in member
  BY <1>0, <1>1, <1>2, <1>a, TakeFits DEF PresenceInv, RoomFits
<1>5. k \in Keys /\ RoomFits(k) BY <1>2, RoomKeys DEF PresenceInv
<1>6. /\ roster[k] \in {"unadmitted", "admitting", "admitted"} /\ adm[k] \in Admissions
  BY <1>0, <1>2, RoomTyped
<1>7. CASE Claimable(k)
  <2>1. /\ roster' = [roster EXCEPT ![k] = "admitting"]
        /\ adm' = [adm EXCEPT ![k] = Subscribing(k, "consumer")]
        /\ consumer' = Consumer("admit", k)
        /\ ghost' = [ghost EXCEPT !.gaveUp = @ \ {k}]
        /\ StartSubscribe(k)
    BY <1>7, <1>a DEF HandleRoomAdded
  <2>2. /\ adm' \in [Rooms -> Admissions] /\ adm'[k] # NoAdm
        /\ adm'[k].stage = (IF MaySubscribe(k) THEN "sub" ELSE "denied") /\ adm'[k].by = "consumer"
        /\ \A j \in Rooms : j # k => adm'[j] = adm[j]
    BY <1>0, <1>2, <2>1, ClaimTyped DEF Owners
  <2>3. /\ OnlyKey(k)
        /\ MaySubscribe(k) => call'[k].op = "join" /\ tracker'[k] = "joining"
        /\ ~MaySubscribe(k) => call'[k] = call[k] /\ tracker'[k] = tracker[k]
    BY <1>0, <1>2, <2>1, StartSubscribeEffect
  <2>4. /\ consumer' \in Consumers /\ consumer'.pc = "admit" /\ consumer'.key = k
    BY <1>2, <2>1, ConsumerTyped
  <2>5. ghost \in Ghosts BY <1>0 DEF TypeOK
  <2>6. /\ ghost' \in Ghosts /\ ghost'.unsettled = ghost.unsettled
        /\ ghost'.missed = ghost.missed /\ ghost'.rejected = ghost.rejected
        /\ \A j \in Rooms : j # k => (j \in ghost'.gaveUp <=> j \in ghost.gaveUp)
    BY <1>2, <2>1, <2>5, GhostFields DEF Ghosts
  <2>7. /\ roster' \in [Rooms -> {"unadmitted", "admitting", "admitted"}]
        /\ roster'[k] = "admitting" /\ \A j \in Rooms : j # k => roster'[j] = roster[j]
    BY <1>0, <1>2, <2>1 DEF TypeOK
  <2>8. TypeOK' BY <1>0, <1>1, <1>3, <2>2, <2>4, <2>6, <2>7 DEF TypeOK
  <2>9. PhaseFits' BY <1>0, <1>1, <1>2, <2>4 DEF PhaseFits
  <2>10. ASSUME NEW j \in Rooms, j # k PROVE SameView(j)
    BY <1>2, <2>4, <2>10, ConsumerMoves DEF PresenceInv, At
  <2>11. roster[k] = "unadmitted" /\ adm[k] = NoAdm
    BY <1>5, <1>7 DEF Claimable, RoomFits, ClaimFits
  <2>12. RoomFits(k)'
    <3>1. OwnersFit(k)'
      BY <1>1, <1>2, <1>5, <2>2, <2>4 DEF RoomFits, OwnersFit
    <3>2. RetryFits(k)' BY <1>1, <1>2, <1>5, <2>4 DEF RoomFits, RetryFits, At
    <3>3. ClaimFits(k)' BY <1>1, <2>2, <2>4, <2>7 DEF ClaimFits, Preclaimed
    <3>4. AnnounceFits(k)'
      BY <1>1, <1>2, <1>5, <2>6, <2>7, <2>11 DEF RoomFits, AnnounceFits, Unit
    <3>5. TrackFits(k)'
      BY <1>1, <1>2, <1>5, <2>2, <2>3, <2>4, <2>6, <2>7, <2>11, NoAdmFields
         DEF RoomFits, TrackFits, At
    <3>6. QueueFits(k)' BY <1>2, <1>4
    <3>7. MemberFits(k)' BY <1>1, <1>2, <1>4, <2>4, <2>7 DEF MemberFits, At
    <3> QED BY <3>1, <3>2, <3>3, <3>4, <3>5, <3>6, <3>7 DEF RoomFits
  <2> QED
    BY <1>1, <1>2, <1>4, <2>2, <2>3, <2>6, <2>7, <2>8, <2>9, <2>10, <2>12, FrameConsumer
<1>8. CASE ~Claimable(k)
  <2>1. UNCHANGED <<subVars, roster, adm, consumer, ghost>> BY <1>8, <1>a DEF HandleRoomAdded
  <2>2. TypeOK' /\ PhaseFits' BY <1>0, <1>1, <1>3, <2>1 DEF TypeOK, PhaseFits
  <2>3. OnlyKey(k) BY <1>0, <1>2, <2>1, StaysPut
  <2>4. ASSUME NEW j \in Rooms PROVE SameView(j)
    BY <1>2, <2>1, ConsumerMoves DEF PresenceInv, At
  <2>5. RoomFits(k)'
    <3>1. /\ OwnersFit(k)' /\ RetryFits(k)' /\ ClaimFits(k)'
      BY <1>1, <1>5, <2>1
         DEF RoomFits, OwnersFit, RetryFits, ClaimFits, Preclaimed, At, Cancelled
    <3>2. AnnounceFits(k)'
      BY <1>1, <1>5, <2>1 DEF RoomFits, AnnounceFits, Unit, subVars
    <3>3. TrackFits(k)'
      BY <1>1, <1>5, <2>1 DEF RoomFits, TrackFits, At, subVars
    <3>4. QueueFits(k)' BY <1>2, <1>4
    <3>5. MemberFits(k)'
      BY <1>1, <1>2, <1>4, <1>8, <2>1 DEF MemberFits, At, Claimable
    <3> QED BY <3>1, <3>2, <3>3, <3>4, <3>5 DEF RoomFits
  <2> QED BY <1>1, <1>2, <1>4, <2>1, <2>2, <2>3, <2>4, <2>5, FrameConsumer
<1> QED BY <1>7, <1>8

\* The admissions it awaited are over.
LEMMA AdmittedKeeps ==
    ASSUME PresenceInv, Admitted
    PROVE  PresenceInv'
<1>1. /\ consumer.pc \in {"admit", "admitall"} /\ phase = "up" /\ ~Busy("consumer")
      /\ consumer' = Consumer("idle", NoKey)
      /\ UNCHANGED <<subVars, phase, roster, adm, callback, retry, leaving, queue, member,
                     announced, lost, ghost>>
  BY DEF Admitted
<1>2. consumer' \in Consumers /\ consumer'.pc = "idle" /\ consumer'.key = NoKey
  BY <1>1, ConsumerTyped
<1>3. TypeOK' /\ PhaseFits' BY <1>1, <1>2 DEF PresenceInv, TypeOK, PhaseFits
<1>4. ASSUME NEW j \in Rooms PROVE SameView(j) /\ QueueFits(j)' /\ (Pushed(j)' <=> Pushed(j))
  <2>1. SameView(j) BY <1>1, <1>2, ConsumerMoves DEF PresenceInv, At, Busy
  <2> QED BY <1>1, <2>1 DEF PresenceInv, RoomFits, QueueFits, Pushed
<1> QED BY <1>1, <1>3, <1>4, FrameAll

LEMMA HandleRoomLeftKeeps ==
    ASSUME PresenceInv, HandleRoomLeft
    PROVE  PresenceInv'
<1>0. TypeOK /\ CallsOwn /\ PhaseFits BY DEF PresenceInv
<1>1. Take("removed") /\ queue' = Tail(queue)
      /\ UNCHANGED <<subVars, phase, roster, adm, callback, leaving, member, announced, lost, ghost>>
  BY DEF HandleRoomLeft
<1>a. PICK k \in Rooms : k = Head(queue).room BY <1>1, TakeRoom
<1>2. /\ queue # <<>> /\ consumer.pc = "idle" /\ phase = "up"
      /\ Head(queue).kind = "removed" /\ \A j \in Rooms : leaving[j] = "no"
  BY <1>1, TakeRoom
<1>3. /\ retry' = (IF retry[k].pc = "none" THEN retry ELSE [retry EXCEPT ![k].cancel = TRUE])
      /\ consumer' = Consumer("unretry", k)
  BY <1>a DEF HandleRoomLeft
<1>4. Tail(queue) \in Seq(Events) /\ Len(Tail(queue)) <= QueueCap BY <1>0, <1>2, TakeTyped
<1>5. ASSUME NEW j \in Rooms
      PROVE  /\ QueueFits(j)' /\ (j # k => (Pushed(j)' <=> Pushed(j)))
             /\ j = k /\ ~Pushed(j)' /\ j \notin lost => j \notin member
  BY <1>0, <1>1, <1>2, <1>a, TakeFits DEF PresenceInv, RoomFits
<1>6. RoomFits(k) BY DEF PresenceInv
<1>7. /\ consumer' \in Consumers /\ consumer'.pc = "unretry" /\ consumer'.key = k
  BY <1>3, ConsumerTyped
<1>8. /\ retry' \in [Rooms -> Retries]
      /\ retry'[k].pc = retry[k].pc /\ retry'[k].used = retry[k].used
      /\ retry'[k].cancel = (retry[k].cancel \/ retry[k].pc # "none")
      /\ \A j \in Rooms : j # k => retry'[j] = retry[j]
  <2>1. retry \in [Rooms -> Retries] /\ retry[k] \in Retries BY <1>0 DEF TypeOK
  <2>2. CASE retry[k].pc = "none" BY <1>3, <2>1, <2>2, RetryFields
  <2>3. CASE retry[k].pc # "none"
    <3> DEFINE r == [retry[k] EXCEPT !.cancel = TRUE]
    <3>1. r \in Retries /\ r.pc = retry[k].pc /\ r.used = retry[k].used /\ r.cancel = TRUE
      BY <2>1 DEF Retries
    <3>2. retry' = [retry EXCEPT ![k] = r] BY <1>3, <2>3
    <3> HIDE DEF r
    <3> QED BY <2>1, <2>3, <3>1, <3>2
  <2> QED BY <2>2, <2>3
<1>9. TypeOK' BY <1>0, <1>1, <1>4, <1>7, <1>8 DEF TypeOK
<1>10. PhaseFits' BY <1>0, <1>1, <1>2, <1>7 DEF PhaseFits
<1>11. ASSUME NEW j \in Rooms, j # k PROVE SameView(j)
  BY <1>2, <1>7, <1>11, ConsumerMoves DEF PresenceInv, At
<1>12. OnlyKey(k) /\ tracker' = tracker /\ call' = call BY <1>0, <1>1, StaysPut DEF subVars
<1>13. RoomFits(k)'
  <2>1. OwnersFit(k)' BY <1>1, <1>2, <1>6, <1>7, <1>8 DEF RoomFits, OwnersFit, Cancelled
  <2>2. RetryFits(k)' BY <1>1, <1>2, <1>6, <1>7, <1>8 DEF RoomFits, RetryFits, At
  <2>3. ClaimFits(k)' BY <1>1, <1>2, <1>6, <1>7 DEF RoomFits, ClaimFits, Preclaimed
  <2>4. AnnounceFits(k)' BY <1>1, <1>6, <1>12 DEF RoomFits, AnnounceFits, Unit
  <2>5. TrackFits(k)' BY <1>1, <1>2, <1>6, <1>7, <1>12 DEF RoomFits, TrackFits, At
  <2>6. QueueFits(k)' BY <1>5
  <2>7. MemberFits(k)' BY <1>1, <1>5, <1>7 DEF MemberFits, At
  <2> QED BY <2>1, <2>2, <2>3, <2>4, <2>5, <2>6, <2>7 DEF RoomFits
<1> QED BY <1>1, <1>5, <1>8, <1>9, <1>10, <1>11, <1>12, <1>13, FrameConsumer

LEMMA RetryGoneKeeps ==
    ASSUME SubInv, PresenceInv, RetryGone
    PROVE  PresenceInv'
<1>0. TypeOK /\ CallsOwn /\ PhaseFits BY DEF PresenceInv
<1>a. PICK k \in Rooms : k = consumer.key BY <1>0 DEF PhaseFits, RetryGone
<1> DEFINE pc == IF MayUnsubscribe(k) THEN "leave" ELSE "left"
<1>1. /\ consumer.pc = "unretry" /\ phase = "up" /\ (retry[k].cancel => retry[k].pc = "none")
      /\ StartUnsubscribe(k) /\ consumer' = Consumer(pc, k)
      /\ UNCHANGED <<phase, roster, adm, callback, retry, leaving, queue, member,
                     announced, lost, ghost>>
  BY <1>a DEF RetryGone
<1>2. pc \in {"leave", "left"} OBVIOUS
<1> HIDE DEF pc
<1>3. /\ OnlyKey(k) /\ tracker'[k] # "joined"
      /\ call'[k].op = "leave" \/ call'[k] = call[k]
  BY <1>0, <1>1, StartUnsubscribeEffect
<1>4. /\ consumer' \in Consumers /\ consumer'.pc = pc /\ consumer'.key = k
  BY <1>1, <1>2, ConsumerTyped
<1>5. RoomFits(k) /\ At(k, {"unretry"}) /\ leaving[k] = "no"
  BY <1>0, <1>1, <1>a DEF PresenceInv, At, PhaseFits
<1>6. retry[k].pc = "none" BY <1>1, <1>5 DEF RoomFits, RetryFits
<1>7. adm[k] = NoAdm BY <1>5, <1>6, AdmissionRuns DEF RoomFits, OwnersFit
<1>8. TypeOK' /\ PhaseFits' BY <1>0, <1>1, <1>2, <1>4 DEF TypeOK, PhaseFits
<1>9. ASSUME NEW j \in Rooms, j # k
      PROVE  SameView(j) /\ QueueFits(j)' /\ (Pushed(j)' <=> Pushed(j))
  <2>1. SameView(j) BY <1>1, <1>2, <1>4, <1>9, <1>a, ConsumerMoves DEF PresenceInv, At
  <2> QED BY <1>1, <2>1 DEF PresenceInv, RoomFits, QueueFits, Pushed
<1>10. RoomFits(k)'
  <2>1. OwnersFit(k)' BY <1>1, <1>2, <1>4, <1>5, <1>7, NoAdmFields DEF RoomFits, OwnersFit
  <2>2. RetryFits(k)' BY <1>1, <1>2, <1>4, <1>5, <1>6 DEF RoomFits, RetryFits, At
  <2>3. ClaimFits(k)' BY <1>1, <1>2, <1>4, <1>5 DEF RoomFits, ClaimFits, Preclaimed
  <2>4. AnnounceFits(k)' BY <1>1, <1>5 DEF RoomFits, AnnounceFits, Unit
  <2>5. TrackFits(k)' BY <1>1, <1>2, <1>3, <1>4, <1>5 DEF RoomFits, TrackFits, At
  <2>6. QueueFits(k)' BY <1>1, <1>5 DEF RoomFits, QueueFits
  <2>7. MemberFits(k)'
    BY <1>1, <1>2, <1>4, <1>5 DEF RoomFits, MemberFits, Pushed, At
  <2> QED BY <2>1, <2>2, <2>3, <2>4, <2>5, <2>6, <2>7 DEF RoomFits
<1> QED BY <1>1, <1>3, <1>8, <1>9, <1>10, FrameConsumer

LEMMA RoomLeftKeeps ==
    ASSUME PresenceInv, RoomLeft
    PROVE  PresenceInv'
<1>0. TypeOK /\ CallsOwn /\ PhaseFits BY DEF PresenceInv
<1>a. PICK k \in Rooms : k = consumer.key BY <1>0 DEF PhaseFits, RoomLeft
<1>1. /\ consumer.pc \in {"leave", "left"} /\ phase = "up"
      /\ consumer' = Consumer("idle", NoKey)
      /\ roster' = [roster EXCEPT ![k] = "unadmitted"]
      /\ announced' = (IF roster[k] = "admitted" THEN [announced EXCEPT ![k] = @ - 1] ELSE announced)
      /\ ghost' = [ghost EXCEPT !.gaveUp = @ \ {k},
                                !.unsettled = IF k \in member THEN @ ELSE @ \ {k}]
      /\ UNCHANGED <<subVars, phase, adm, callback, retry, leaving, queue, member, lost>>
  BY <1>a DEF RoomLeft
<1>2. consumer' \in Consumers /\ consumer'.pc = "idle" /\ consumer'.key = NoKey
  BY <1>1, ConsumerTyped
<1>3. /\ RoomFits(k) /\ At(k, {"leave", "left"}) /\ leaving[k] = "no"
      /\ announced[k] \in Int /\ ghost.missed[k] \in Nat
  BY <1>0, <1>1, <1>a, RoomTyped DEF PresenceInv, At, PhaseFits
<1>4. adm[k] = NoAdm BY <1>3, AdmissionRuns
<1>5. ghost \in Ghosts BY <1>0 DEF TypeOK
<1>6. /\ ghost' \in Ghosts /\ ghost'.gaveUp = ghost.gaveUp \ {k}
      /\ ghost'.missed = ghost.missed /\ ghost'.rejected = ghost.rejected
      /\ ghost'.unsettled = IF k \in member THEN ghost.unsettled ELSE ghost.unsettled \ {k}
  BY <1>1, <1>5, LeftFields
<1>7. /\ announced' \in [Rooms -> Int]
      /\ announced'[k] = IF roster[k] = "admitted" THEN announced[k] - 1 ELSE announced[k]
      /\ \A j \in Rooms : j # k => announced'[j] = announced[j]
  BY <1>0, <1>1, <1>3 DEF TypeOK
<1>8. /\ roster' \in [Rooms -> {"unadmitted", "admitting", "admitted"}]
      /\ roster'[k] = "unadmitted" /\ \A j \in Rooms : j # k => roster'[j] = roster[j]
  BY <1>0, <1>1 DEF TypeOK
<1>9. TypeOK' BY <1>0, <1>1, <1>2, <1>6, <1>7, <1>8 DEF TypeOK
<1>10. PhaseFits' BY <1>0, <1>1, <1>2 DEF PhaseFits
<1>11. ASSUME NEW j \in Rooms, j # k
       PROVE  SameView(j) /\ QueueFits(j)' /\ (Pushed(j)' <=> Pushed(j))
  <2>1. SameView(j) BY <1>1, <1>2, <1>11, <1>a, ConsumerMoves DEF PresenceInv, At
  <2> QED BY <1>1, <2>1 DEF PresenceInv, RoomFits, QueueFits, Pushed
<1>12. OnlyKey(k) /\ tracker' = tracker /\ call' = call BY <1>0, <1>1, StaysPut DEF subVars
<1>13. RoomFits(k)'
  <2>1. OwnersFit(k)' BY <1>1, <1>2, <1>3, <1>4, NoAdmFields DEF RoomFits, OwnersFit
  <2>2. RetryFits(k)' BY <1>1, <1>2, <1>3 DEF RoomFits, RetryFits, At
  <2>3. ClaimFits(k)' BY <1>1, <1>2, <1>4, <1>8 DEF ClaimFits, Preclaimed
  <2>4. AnnounceFits(k)'
    BY <1>1, <1>3, <1>4, <1>6, <1>7, <1>8 DEF RoomFits, AnnounceFits, Unit
  <2>5. TrackFits(k)' BY <1>1, <1>2, <1>3, <1>8, <1>12 DEF RoomFits, TrackFits, At
  <2>6. QueueFits(k)' BY <1>1, <1>3 DEF RoomFits, QueueFits
  <2>7. MemberFits(k)'
    BY <1>1, <1>2, <1>3, <1>6, <1>8 DEF RoomFits, MemberFits, Pushed, At
  <2> QED BY <2>1, <2>2, <2>3, <2>4, <2>5, <2>6, <2>7 DEF RoomFits
<1> QED BY <1>1, <1>6, <1>7, <1>8, <1>9, <1>10, <1>11, <1>12, <1>13, FrameConsumer

LEMMA HandleReconnectKeeps ==
    ASSUME PresenceInv, HandleReconnect
    PROVE  PresenceInv'
<1>1. /\ Take("reconnected") /\ queue' = Tail(queue) /\ consumer' = Consumer("list", NoKey)
      /\ UNCHANGED <<subVars, phase, roster, adm, callback, retry, leaving, member,
                     announced, lost, ghost>>
  BY DEF HandleReconnect
<1>2. /\ queue # <<>> /\ consumer.pc = "idle" /\ phase = "up"
      /\ Head(queue).room \notin Rooms
  BY <1>1, TakeRoom
<1>3. consumer' \in Consumers /\ consumer'.pc = "list" /\ consumer'.key = NoKey
  BY <1>1, ConsumerTyped
<1>4. Tail(queue) \in Seq(Events) /\ Len(Tail(queue)) <= QueueCap
  BY <1>2, TakeTyped DEF PresenceInv
<1>5. TypeOK' /\ PhaseFits' BY <1>1, <1>2, <1>3, <1>4 DEF PresenceInv, TypeOK, PhaseFits
<1>6. ASSUME NEW j \in Rooms PROVE SameView(j) /\ QueueFits(j)' /\ (Pushed(j)' <=> Pushed(j))
  <2>1. SameView(j) BY <1>2, <1>3, ConsumerMoves DEF PresenceInv, At
  <2>2. QueueFits(j)' /\ (Pushed(j)' <=> Pushed(j))
    BY <1>1, <1>2, TakeFits DEF PresenceInv, RoomFits
  <2> QED BY <2>1, <2>2
<1> QED BY <1>1, <1>5, <1>6, FrameAll

LEMMA ReconnectListFailsKeeps ==
    ASSUME PresenceInv, ReconnectListFails
    PROVE  PresenceInv'
<1>1. /\ consumer.pc = "list" /\ phase = "up" /\ consumer' = Consumer("idle", NoKey)
      /\ lost' = Rooms
      /\ UNCHANGED <<subVars, phase, roster, adm, callback, retry, leaving, queue, member,
                     announced, ghost>>
  BY DEF ReconnectListFails
<1>2. consumer' \in Consumers /\ consumer'.pc = "idle" /\ consumer'.key = NoKey
  BY <1>1, ConsumerTyped
<1>3. TypeOK' /\ PhaseFits' BY <1>1, <1>2 DEF PresenceInv, TypeOK, PhaseFits
<1>4. ASSUME NEW j \in Rooms PROVE SameView(j) /\ QueueFits(j)' /\ j \in lost'
  <2>1. SameView(j) BY <1>1, <1>2, ConsumerMoves DEF PresenceInv, At
  <2> QED BY <1>1, <2>1 DEF QueueFits
<1> QED BY <1>1, <1>3, <1>4, FrameAll

\* A listing makes up for what was lost, seen by one room.
LEMMA StillLostFits ==
    ASSUME NEW j \in Rooms, QueueFits(j), lost' = StillLost, UNCHANGED <<queue, member>>
    PROVE  QueueFits(j)'
BY DEF QueueFits, StillLost

LEMMA ReconcileKeeps ==
    ASSUME PresenceInv, Reconcile
    PROVE  PresenceInv'
<1> DEFINE removed == {k \in Rooms : roster[k] = "admitted" /\ k \notin member}
           admitting == {k \in member : roster[k] = "unadmitted"}
<1>0. TypeOK /\ CallsOwn /\ PhaseFits BY DEF PresenceInv
<1>1. /\ consumer.pc = "list" /\ phase = "up"
      /\ roster' = [k \in Rooms |-> IF k \in removed THEN "unadmitted"
                                    ELSE IF k \in admitting THEN "admitting" ELSE roster[k]]
      /\ leaving' = [k \in Rooms |-> IF k \in removed THEN "begin" ELSE leaving[k]]
      /\ consumer' = [Consumer("remove", NoKey) EXCEPT !.rooms = admitting]
      /\ lost' = StillLost
      /\ UNCHANGED <<subVars, phase, adm, callback, retry, queue, member, announced, ghost>>
  BY DEF Reconcile
<1>2. admitting \in SUBSET Rooms BY <1>0 DEF TypeOK
<1>3. /\ consumer' \in Consumers /\ consumer'.pc = "remove" /\ consumer'.key = NoKey
      /\ consumer'.rooms = admitting
  BY <1>1, <1>2, ConsumerTyped DEF Consumers
<1>4. lost' \in SUBSET Rooms BY <1>0, <1>1 DEF TypeOK, StillLost
<1>5. TypeOK'
  <2>1. /\ roster' \in [Rooms -> {"unadmitted", "admitting", "admitted"}]
        /\ leaving' \in [Rooms -> {"no", "begin", "wait", "left"}]
    BY <1>0, <1>1 DEF TypeOK
  <2> QED BY <1>0, <1>1, <1>3, <1>4, <2>1 DEF TypeOK
<1>6. PhaseFits' BY <1>0, <1>1, <1>3 DEF PhaseFits
<1>7. CallsOwn' BY <1>0, <1>1 DEF CallsOwn, subVars
<1>8. ASSUME NEW j \in Rooms PROVE RoomFits(j)'
  <2>0. RoomFits(j) /\ leaving[j] = "no" BY <1>0, <1>1 DEF PresenceInv, PhaseFits
  <2>1. /\ roster[j] \in {"unadmitted", "admitting", "admitted"} /\ adm[j] \in Admissions
        /\ j # NoKey
    BY <1>0, RoomTyped, RoomKeys
  <2>2. /\ j \in removed <=> roster[j] = "admitted" /\ j \notin member
        /\ j \in admitting <=> roster[j] = "unadmitted" /\ j \in member
        /\ roster'[j] = IF j \in removed THEN "unadmitted"
                        ELSE IF j \in admitting THEN "admitting" ELSE roster[j]
        /\ leaving'[j] = IF j \in removed THEN "begin" ELSE "no"
    BY <1>1, <2>0
  <2>3. Preclaimed(j)' <=> j \in admitting BY <1>3 DEF Preclaimed
  <2> HIDE DEF removed, admitting
  <2>4. OwnersFit(j)' BY <1>1, <1>3, <2>0 DEF RoomFits, OwnersFit, Cancelled
  <2>5. RetryFits(j)' BY <1>1, <1>3, <2>0, <2>1 DEF RoomFits, RetryFits, At
  <2>6. ClaimFits(j)'
    BY <1>1, <2>0, <2>1, <2>2, <2>3 DEF RoomFits, ClaimFits, Preclaimed
  <2>7. AnnounceFits(j)' BY <1>1, <2>0, <2>1, <2>2 DEF RoomFits, ClaimFits, AnnounceFits, Unit
  <2>8. TrackFits(j)'
    BY <1>1, <1>3, <2>0, <2>1, <2>2, NoAdmFields
       DEF RoomFits, ClaimFits, TrackFits, At, subVars
  <2>9. QueueFits(j)' BY <1>1, <2>0, StillLostFits DEF RoomFits
  <2>10. MemberFits(j)' BY <1>1, <1>3, <2>1, <2>2 DEF MemberFits, At
  <2> QED BY <2>4, <2>5, <2>6, <2>7, <2>8, <2>9, <2>10 DEF RoomFits
<1> QED BY <1>5, <1>6, <1>7, <1>8 DEF PresenceInv

LEMMA AdmitReconciledKeeps ==
    ASSUME PresenceInv, AdmitReconciled
    PROVE  PresenceInv'
<1>0. TypeOK /\ CallsOwn /\ PhaseFits BY DEF PresenceInv
<1> DEFINE a == [stage |-> "start", by |-> "consumer"]
<1>1. /\ consumer.pc = "remove" /\ phase = "up" /\ \A k \in Rooms : leaving[k] = "no"
      /\ adm' = [k \in Rooms |-> IF k \in consumer.rooms THEN a ELSE adm[k]]
      /\ consumer' = Consumer("admitall", NoKey)
      /\ ghost' = [ghost EXCEPT !.gaveUp = @ \ consumer.rooms]
      /\ UNCHANGED <<subVars, callback, phase, roster, retry, leaving, queue, member,
                     announced, lost>>
  BY DEF AdmitReconciled
<1>2. a \in Admissions /\ a.stage = "start" /\ a.by = "consumer" BY AdmTyped DEF Owners
<1> HIDE DEF a
<1>3. consumer' \in Consumers /\ consumer'.pc = "admitall" /\ consumer'.key = NoKey
  BY <1>1, ConsumerTyped
<1>4. ghost \in Ghosts /\ consumer.rooms \in SUBSET Rooms BY <1>0, ConsumerFields DEF TypeOK
<1>5. /\ ghost' \in Ghosts /\ ghost'.unsettled = ghost.unsettled
      /\ ghost'.missed = ghost.missed /\ ghost'.rejected = ghost.rejected
      /\ ghost'.gaveUp = ghost.gaveUp \ consumer.rooms
  BY <1>1, <1>4, GhostFields DEF Ghosts
<1>6. adm' \in [Rooms -> Admissions] BY <1>0, <1>1, <1>2 DEF TypeOK
<1>7. TypeOK' BY <1>0, <1>1, <1>3, <1>5, <1>6 DEF TypeOK
<1>8. PhaseFits' BY <1>0, <1>1, <1>3 DEF PhaseFits
<1>9. CallsOwn' BY <1>0, <1>1 DEF CallsOwn, subVars
<1>10. ASSUME NEW j \in Rooms PROVE RoomFits(j)'
  <2>0. RoomFits(j) /\ leaving[j] = "no" /\ j # NoKey BY <1>1, RoomKeys DEF PresenceInv
  <2>1. adm'[j] = IF Preclaimed(j) THEN a ELSE adm[j] BY <1>1 DEF Preclaimed
  <2>2. j \in ghost'.gaveUp <=> j \in ghost.gaveUp /\ ~Preclaimed(j)
    BY <1>1, <1>5 DEF Preclaimed
  <2>3. OwnersFit(j)'
    BY <1>1, <1>2, <1>3, <2>0, <2>1, NoAdmFields DEF RoomFits, OwnersFit, ClaimFits, Cancelled
  <2>4. RetryFits(j)' BY <1>1, <1>3, <2>0 DEF RoomFits, RetryFits, At
  <2>5. ClaimFits(j)'
    BY <1>1, <1>2, <1>3, <2>0, <2>1, NoAdmFields DEF RoomFits, ClaimFits, Preclaimed
  <2>6. AnnounceFits(j)' BY <1>1, <1>5, <2>0 DEF RoomFits, AnnounceFits, Unit
  <2>7. TrackFits(j)'
    BY <1>1, <1>2, <1>3, <1>5, <2>0, <2>1, NoAdmFields
       DEF RoomFits, ClaimFits, TrackFits, At, subVars
  <2>8. QueueFits(j)' BY <1>1, <2>0 DEF RoomFits, QueueFits
  <2>9. MemberFits(j)'
    BY <1>1, <1>3, <1>5, <2>0, <2>2 DEF RoomFits, ClaimFits, MemberFits, Pushed, At
  <2> QED BY <2>3, <2>4, <2>5, <2>6, <2>7, <2>8, <2>9 DEF RoomFits
<1> QED BY <1>7, <1>8, <1>9, <1>10 DEF PresenceInv

-----------------------------------------------------------------------------
(* start() and stop() *)

\* Outside of start() and of a running consumer nothing is admitted or announced.
LEMMA AtRest ==
    ASSUME PresenceInv, phase \in {"down", "agent", "list"}, NEW j \in Rooms
    PROVE  /\ roster[j] = "unadmitted" /\ adm[j] = NoAdm /\ callback[j] = {}
           /\ leaving[j] = "no" /\ retry[j].pc = "none" /\ ~retry[j].cancel
           /\ consumer.pc = "off"
           /\ announced[j] = ghost.missed[j]
           /\ j \notin ghost.unsettled => tracker[j] # "joined"
<1>1. PhaseFits /\ RoomFits(j) BY DEF PresenceInv
<1>2. /\ roster[j] = "unadmitted" /\ adm[j] = NoAdm /\ callback[j] = {}
      /\ leaving[j] = "no" /\ consumer.pc = "off"
  BY <1>1 DEF PhaseFits
<1>3. retry[j].pc = "none" /\ ~retry[j].cancel BY <1>1 DEF RoomFits, RetryFits
<1>4. ghost.missed[j] \in Nat BY RoomTyped DEF PresenceInv
<1> QED BY <1>1, <1>2, <1>3, <1>4, NoAdmFields DEF RoomFits, AnnounceFits, TrackFits, Unit

\* A step of start() or stop() that only moves the phase.
LEMMA FramePhase ==
    ASSUME PresenceInv, CallsOwn',
           \/ phase = "down" /\ phase' = "agent"
           \/ phase = "agent" /\ phase' = "list"
           \/ phase = "up" /\ phase' = "stopping"
           \/ phase = "leaving" /\ phase' = "down" /\ \A j \in Rooms : leaving[j] = "no",
           UNCHANGED <<roster, adm, callback, retry, consumer, leaving, queue, member, announced,
                       lost, ghost>>,
           \A j \in Rooms : tracker'[j] = tracker[j] /\ call'[j].op = call[j].op
    PROVE  PresenceInv'
<1>1. TypeOK /\ PhaseFits BY DEF PresenceInv
<1>2. TypeOK' BY <1>1 DEF TypeOK, Phases
<1>3. PhaseFits' BY <1>1 DEF PhaseFits
<1>4. ASSUME NEW j \in Rooms PROVE RoomFits(j)'
  <2>0. RoomFits(j) /\ PhaseFits BY <1>1 DEF PresenceInv
  <2>1. OwnersFit(j)' BY <2>0 DEF RoomFits, OwnersFit, Cancelled
  <2>2. RetryFits(j)' BY <2>0 DEF RoomFits, RetryFits, At
  <2>3. ClaimFits(j)' BY <2>0 DEF RoomFits, ClaimFits, Preclaimed
  <2>4. AnnounceFits(j)' BY <2>0 DEF RoomFits, AnnounceFits, Unit
  <2>5. TrackFits(j)' BY <2>0 DEF RoomFits, TrackFits, At
  <2>6. QueueFits(j)' BY <2>0 DEF RoomFits, QueueFits
  <2>7. MemberFits(j)' BY DEF MemberFits
  <2> QED BY <2>1, <2>2, <2>3, <2>4, <2>5, <2>6, <2>7 DEF RoomFits
<1> QED BY <1>2, <1>3, <1>4 DEF PresenceInv

LEMMA AgentKey == AgentRooms \in Keys /\ AgentRooms \notin Rooms /\ AgentRooms \in Callers
BY KeysAssumption, PresenceAssumption DEF Keys

LEMMA StartKeeps ==
    ASSUME SubInv, PresenceInv, Start
    PROVE  PresenceInv'
<1>1. /\ phase = "down" /\ phase' = "agent"
      /\ UNCHANGED <<roster, adm, callback, retry, consumer, leaving, queue, member, announced,
                     lost, ghost>>
      /\ Subscribe(AgentRooms, AgentRooms) \/ UNCHANGED subVars
  BY DEF Start
<1>2. CallsOwn BY DEF PresenceInv
<1>3. CASE UNCHANGED subVars
  BY <1>1, <1>2, <1>3, FramePhase DEF CallsOwn, subVars
<1>4. CASE Subscribe(AgentRooms, AgentRooms)
  <2>1. OnlyKey(AgentRooms) BY <1>4, AgentKey, SubscribeEffect
  <2>2. CallsOwn' BY <1>2, <2>1, AgentKey, OnlyKeyOwns
  <2>3. \A j \in Rooms : tracker'[j] = tracker[j] /\ call'[j].op = call[j].op
    BY <2>1, AgentKey, RoomKeys DEF OnlyKey
  <2> QED BY <1>1, <2>2, <2>3, FramePhase
<1> QED BY <1>1, <1>3, <1>4

LEMMA PhaseOnlyKeeps ==
    ASSUME PresenceInv, StartLists \/ Stop \/ Stopped
    PROVE  PresenceInv'
<1>1. /\ UNCHANGED <<roster, adm, callback, retry, consumer, leaving, queue, member, announced,
                     lost, ghost>>
      /\ UNCHANGED subVars
  BY DEF StartLists, Stop, Stopped
<1>2. CallsOwn' BY <1>1 DEF PresenceInv, CallsOwn, subVars
<1>3. \A j \in Rooms : tracker'[j] = tracker[j] /\ call'[j].op = call[j].op BY <1>1 DEF subVars
<1>4. \/ phase = "agent" /\ phase' = "list"
      \/ phase = "up" /\ phase' = "stopping"
      \/ phase = "leaving" /\ phase' = "down" /\ \A j \in Rooms : leaving[j] = "no"
  BY DEF StartLists, Stop, Stopped
<1> QED BY <1>1, <1>2, <1>3, <1>4, FramePhase

LEMMA StartJoinsKeeps ==
    ASSUME PresenceInv, StartJoins
    PROVE  PresenceInv'
<1>0. TypeOK /\ CallsOwn /\ PhaseFits BY DEF PresenceInv
<1> DEFINE a == [stage |-> "start", by |-> "startup"]
           claimed == {k \in member : Claimable(k)}
<1>1. /\ phase = "list" /\ phase' = "startup"
      /\ roster' = [k \in Rooms |-> IF k \in claimed THEN "admitting" ELSE roster[k]]
      /\ adm' = [k \in Rooms |-> IF k \in claimed THEN a ELSE adm[k]]
      /\ lost' = StillLost
      /\ UNCHANGED <<subVars, callback, retry, consumer, leaving, queue, member, announced, ghost>>
  BY DEF StartJoins
<1>2. a \in Admissions /\ a.stage = "start" /\ a.by = "startup" BY AdmTyped DEF Owners
<1> HIDE DEF a
<1>3. lost' \in SUBSET Rooms BY <1>0, <1>1 DEF TypeOK, StillLost
<1>4. TypeOK'
  <2>1. /\ roster' \in [Rooms -> {"unadmitted", "admitting", "admitted"}]
        /\ adm' \in [Rooms -> Admissions]
    BY <1>0, <1>1, <1>2 DEF TypeOK
  <2>2. phase' \in Phases BY <1>1 DEF Phases
  <2> QED BY <1>0, <1>1, <1>3, <2>1, <2>2 DEF TypeOK
<1>5. PhaseFits' BY <1>0, <1>1 DEF PhaseFits
<1>6. CallsOwn' BY <1>0, <1>1 DEF CallsOwn, subVars
<1>7. ASSUME NEW j \in Rooms PROVE RoomFits(j)'
  <2>0. RoomFits(j) BY DEF PresenceInv
  <2>1. /\ roster[j] = "unadmitted" /\ adm[j] = NoAdm /\ callback[j] = {}
        /\ leaving[j] = "no" /\ retry[j].pc = "none" /\ ~retry[j].cancel
        /\ consumer.pc = "off"
        /\ announced[j] = ghost.missed[j]
        /\ j \notin ghost.unsettled => tracker[j] # "joined"
    BY <1>1, AtRest
  <2>2. /\ roster'[j] = IF j \in member THEN "admitting" ELSE "unadmitted"
        /\ adm'[j] = IF j \in member THEN a ELSE NoAdm
    BY <1>1, <2>1 DEF Claimable
  <2>3. a # NoAdm BY <1>2, NoAdmFields
  <2>4. OwnersFit(j)' BY <1>1, <1>2, <2>1, <2>2, NoAdmFields DEF OwnersFit
  <2>5. RetryFits(j)' BY <1>1, <2>1 DEF RetryFits, At
  <2>6. ClaimFits(j)' BY <1>1, <2>1, <2>2, <2>3 DEF ClaimFits, Preclaimed
  <2>7. AnnounceFits(j)'
    BY <1>0, <1>1, <2>1, <2>2, RoomTyped DEF AnnounceFits, Unit
  <2>8. TrackFits(j)'
    BY <1>1, <2>0, <2>1, <2>2, NoAdmFields DEF RoomFits, TrackFits, At, subVars
  <2>9. QueueFits(j)' BY <1>1, <2>0, StillLostFits DEF RoomFits
  <2>10. MemberFits(j)' BY <1>1, <2>1, <2>2 DEF MemberFits, At
  <2> QED BY <2>4, <2>5, <2>6, <2>7, <2>8, <2>9, <2>10 DEF RoomFits
<1> QED BY <1>4, <1>5, <1>6, <1>7 DEF PresenceInv

LEMMA StartListFailsKeeps ==
    ASSUME PresenceInv, StartListFails
    PROVE  PresenceInv'
<1>0. TypeOK /\ CallsOwn /\ PhaseFits BY DEF PresenceInv
<1>1. /\ phase = "list" /\ phase' = "startup" /\ lost' = Rooms
      /\ UNCHANGED <<subVars, roster, adm, callback, retry, consumer, leaving, queue, member,
                     announced, ghost>>
  BY DEF StartListFails
<1>2. TypeOK' /\ PhaseFits' BY <1>0, <1>1 DEF TypeOK, Phases, PhaseFits
<1>3. CallsOwn' BY <1>0, <1>1 DEF CallsOwn, subVars
<1>4. ASSUME NEW j \in Rooms PROVE RoomFits(j)'
  <2>0. RoomFits(j) BY DEF PresenceInv
  <2>1. /\ roster[j] = "unadmitted" /\ adm[j] = NoAdm /\ callback[j] = {}
        /\ leaving[j] = "no" /\ retry[j].pc = "none" /\ ~retry[j].cancel
        /\ consumer.pc = "off"
        /\ announced[j] = ghost.missed[j]
        /\ j \notin ghost.unsettled => tracker[j] # "joined"
    BY <1>1, AtRest
  <2>2. OwnersFit(j)' BY <1>1, <2>1, NoAdmFields DEF OwnersFit
  <2>3. RetryFits(j)' BY <1>1, <2>1 DEF RetryFits, At
  <2>4. ClaimFits(j)' BY <1>1, <2>1 DEF ClaimFits, Preclaimed
  <2>5. AnnounceFits(j)' BY <1>0, <1>1, <2>1, RoomTyped DEF AnnounceFits, Unit
  <2>6. TrackFits(j)'
    BY <1>1, <2>0, <2>1, NoAdmFields DEF RoomFits, TrackFits, At, subVars
  <2>7. QueueFits(j)' /\ MemberFits(j)' BY <1>1 DEF QueueFits, MemberFits
  <2> QED BY <2>2, <2>3, <2>4, <2>5, <2>6, <2>7 DEF RoomFits
<1> QED BY <1>2, <1>3, <1>4 DEF PresenceInv

LEMMA StartedKeeps ==
    ASSUME PresenceInv, Started
    PROVE  PresenceInv'
<1>0. TypeOK /\ CallsOwn /\ PhaseFits BY DEF PresenceInv
<1>1. /\ phase = "startup" /\ phase' = "up" /\ ~Busy("startup")
      /\ consumer' = Consumer("idle", NoKey)
      /\ UNCHANGED <<subVars, roster, adm, callback, retry, leaving, queue, member,
                     announced, lost, ghost>>
  BY DEF Started
<1>2. consumer' \in Consumers /\ consumer'.pc = "idle" /\ consumer'.key = NoKey
  BY <1>1, ConsumerTyped
<1>3. consumer.pc = "off" /\ \A j \in Rooms : leaving[j] = "no" BY <1>0, <1>1 DEF PhaseFits
<1>4. TypeOK' /\ PhaseFits' BY <1>0, <1>1, <1>2, <1>3 DEF TypeOK, Phases, PhaseFits
<1>5. CallsOwn' BY <1>0, <1>1 DEF CallsOwn, subVars
<1>6. ASSUME NEW j \in Rooms PROVE RoomFits(j)'
  <2>0. RoomFits(j) BY DEF PresenceInv
  <2>1. adm[j].by # "startup" /\ "startup" \notin callback[j] BY <1>1 DEF Busy
  <2>2. OwnersFit(j)' BY <1>1, <1>2, <1>3, <2>0, <2>1 DEF RoomFits, OwnersFit, Cancelled
  <2>3. RetryFits(j)' BY <1>1, <1>2, <1>3, <2>0 DEF RoomFits, RetryFits, At
  <2>4. ClaimFits(j)' BY <1>1, <1>2, <1>3, <2>0 DEF RoomFits, ClaimFits, Preclaimed
  <2>5. AnnounceFits(j)' BY <1>1, <1>3, <2>0 DEF RoomFits, AnnounceFits, Unit, subVars
  <2>6. TrackFits(j)' BY <1>1, <1>2, <1>3, <2>0 DEF RoomFits, TrackFits, At, subVars
  <2>7. QueueFits(j)' BY <1>1, <2>0 DEF RoomFits, QueueFits
  <2>8. MemberFits(j)'
    BY <1>1, <1>2, <1>3, <2>0 DEF RoomFits, MemberFits, Pushed, At
  <2> QED BY <2>2, <2>3, <2>4, <2>5, <2>6, <2>7, <2>8 DEF RoomFits
<1> QED BY <1>4, <1>5, <1>6 DEF PresenceInv

LEMMA CancelLeaveKeeps ==
    ASSUME SubInv, PresenceInv, NEW k \in Rooms, CancelLeave(k)
    PROVE  PresenceInv'
<1>0. TypeOK /\ CallsOwn /\ PhaseFits /\ RoomFits(k) /\ k \in Keys BY RoomKeys DEF PresenceInv
<1>1. /\ phase = "stopping" /\ call[k].op = "leave" /\ CancelUnsubscribe(k)
      /\ leaving[k] = "wait" \/ At(k, {"leave"})
      /\ leaving' = [leaving EXCEPT ![k] = "no"]
      /\ ghost' = (IF leaving[k] = "wait" THEN CutShort({k}) ELSE ghost)
      /\ consumer' = (IF consumer.pc = "leave" THEN Consumer("idle", NoKey) ELSE consumer)
      /\ UNCHANGED <<phase, roster, adm, callback, retry, queue, member, announced, lost>>
  BY DEF CancelLeave, At
<1>2. /\ leaving[k] = "wait" => consumer.pc = "remove" /\ consumer' = consumer
      /\ leaving[k] # "wait" => leaving[k] = "no" /\ consumer.pc = "leave" /\ consumer.key = k
  BY <1>0, <1>1 DEF PhaseFits, At
<1>3. OnlyKey(k) /\ call'[k].op = "idle" /\ tracker'[k] = "ambiguous"
  BY <1>0, <1>1, CancelOutcome DEF Outcome
<1>4. /\ consumer' \in Consumers
      /\ leaving[k] # "wait" => consumer'.pc = "idle" /\ consumer'.key = NoKey
  BY <1>0, <1>1, <1>2, ConsumerTyped DEF TypeOK
<1>5. ghost \in Ghosts BY <1>0 DEF TypeOK
<1>6. /\ ghost' \in Ghosts /\ ghost'.gaveUp = ghost.gaveUp /\ ghost'.rejected = ghost.rejected
      /\ \A j \in Rooms : j # k => /\ j \in ghost'.unsettled <=> j \in ghost.unsettled
                                   /\ ghost'.missed[j] = ghost.missed[j]
      /\ ghost'.missed[k] = IF leaving[k] = "wait" THEN ghost.missed[k] + 1 ELSE ghost.missed[k]
  BY <1>1, <1>5, CutFields
<1>7. /\ leaving' \in [Rooms -> {"no", "begin", "wait", "left"}] /\ leaving'[k] = "no"
      /\ \A j \in Rooms : j # k => leaving'[j] = leaving[j]
  BY <1>0, <1>1 DEF TypeOK
<1>8. TypeOK' BY <1>0, <1>1, <1>4, <1>6, <1>7 DEF TypeOK
<1>9. PhaseFits'
  <2>1. ASSUME NEW j \in Rooms, leaving'[j] # "no" PROVE consumer'.pc = "remove"
    BY <1>0, <1>1, <1>2, <1>7, <2>1 DEF PhaseFits
  <2> QED BY <1>0, <1>1, <1>2, <1>4, <2>1 DEF PhaseFits
<1>10. ASSUME NEW j \in Rooms, j # k
       PROVE  SameView(j) /\ QueueFits(j)' /\ (Pushed(j)' <=> Pushed(j))
  <2>1. RoomFits(j) /\ j # NoKey BY RoomKeys DEF PresenceInv
  <2>2. SameView(j)
    <3>1. CASE leaving[k] = "wait"
      BY <1>1, <1>2, <2>1, <3>1 DEF SameView, At, Preclaimed, RoomFits, OwnersFit
    <3>2. CASE leaving[k] # "wait"
      BY <1>2, <1>4, <1>10, <2>1, <3>2, ConsumerMoves DEF At
    <3> QED BY <3>1, <3>2
  <2> QED BY <1>1, <2>1, <2>2 DEF RoomFits, QueueFits, Pushed
<1>11. RoomFits(k)'
  <2>0. ~At(k, {"unretry", "leave", "left"})' /\ ~At(k, {"unretry"})
    BY <1>2, <1>4, RoomKeys DEF At
  <2>1. OwnersFit(k)' BY <1>0, <1>1, <1>2 DEF RoomFits, OwnersFit, Cancelled
  <2>2. RetryFits(k)' BY <1>0, <1>1, <2>0 DEF RoomFits, RetryFits, At
  <2>3. ClaimFits(k)' BY <1>0, <1>1, <1>2, <1>4 DEF RoomFits, ClaimFits, Preclaimed
  <2>4. AnnounceFits(k)'
    BY <1>0, <1>1, <1>2, <1>6, <1>7, RoomTyped DEF RoomFits, AnnounceFits, Unit
  <2>5. TrackFits(k)' BY <1>1, <1>3 DEF TrackFits
  <2>6. QueueFits(k)' BY <1>0, <1>1 DEF RoomFits, QueueFits
  <2>7. MemberFits(k)' BY <1>1 DEF MemberFits
  <2> QED BY <2>1, <2>2, <2>3, <2>4, <2>5, <2>6, <2>7 DEF RoomFits
<1> QED BY <1>1, <1>3, <1>6, <1>7, <1>8, <1>9, <1>10, <1>11, FrameConsumer

LEMMA ConsumerGoneKeeps ==
    ASSUME PresenceInv, ConsumerGone
    PROVE  PresenceInv'
<1>0. TypeOK /\ CallsOwn /\ PhaseFits BY DEF PresenceInv
<1> DEFINE cut == {k \in Rooms : leaving[k] = "begin"}
<1>1. /\ phase = "stopping" /\ phase' = "unretry" /\ ~Busy("consumer")
      /\ \A k \in Rooms : leaving[k] \notin {"wait", "left"}
      /\ consumer' = Consumer("off", NoKey)
      /\ ghost' = CutShort(cut)
      /\ leaving' = [k \in Rooms |-> "no"]
      /\ retry' = [k \in Rooms |-> IF retry[k].pc = "none" THEN NoRetry
                                   ELSE [retry[k] EXCEPT !.cancel = TRUE]]
      /\ UNCHANGED <<subVars, roster, adm, callback, queue, member, announced, lost>>
  BY DEF ConsumerGone
<1>2. consumer' \in Consumers /\ consumer'.pc = "off" /\ consumer'.key = NoKey
  BY <1>1, ConsumerTyped
<1>3. ghost \in Ghosts BY <1>0 DEF TypeOK
<1>4. /\ ghost' \in Ghosts /\ ghost'.gaveUp = ghost.gaveUp
      /\ ghost'.rejected = ghost.rejected /\ ghost'.unsettled = ghost.unsettled \cup cut
      /\ \A j \in Rooms : ghost'.missed[j] =
            IF j \in cut THEN ghost.missed[j] + 1 ELSE ghost.missed[j]
  BY <1>1, <1>3, CutFields
<1>5. ASSUME NEW j \in Rooms
      PROVE  /\ retry'[j] \in Retries /\ retry'[j].pc = retry[j].pc
             /\ retry'[j].pc # "none" => retry'[j].cancel /\ retry'[j].used = retry[j].used
             /\ retry'[j].pc = "none" => ~retry'[j].cancel
  <2>1. retry[j] \in Retries BY <1>0, RoomTyped
  <2>2. CASE retry[j].pc = "none" BY <1>1, <2>2, NoRetryTyped
  <2>3. CASE retry[j].pc # "none" BY <1>1, <2>1, <2>3 DEF Retries
  <2> QED BY <2>2, <2>3
<1>6. TypeOK'
  <2>1. retry' \in [Rooms -> Retries] BY <1>1, <1>5
  <2>2. leaving' \in [Rooms -> {"no", "begin", "wait", "left"}] BY <1>1
  <2>3. phase' \in Phases BY <1>1 DEF Phases
  <2> QED BY <1>0, <1>1, <1>2, <1>4, <2>1, <2>2, <2>3 DEF TypeOK
<1>7. PhaseFits' BY <1>0, <1>1, <1>2 DEF PhaseFits
<1>8. CallsOwn' BY <1>0, <1>1 DEF CallsOwn, subVars
<1>9. ASSUME NEW j \in Rooms PROVE RoomFits(j)'
  <2>0. RoomFits(j) /\ leaving[j] \in {"no", "begin"} /\ leaving'[j] = "no"
    BY <1>0, <1>1, RoomTyped DEF PresenceInv
  <2>1. adm[j].by # "consumer" /\ "consumer" \notin callback[j] BY <1>1 DEF Busy
  <2>2. /\ j \notin ghost'.unsettled => j \notin ghost.unsettled /\ leaving[j] = "no"
        /\ ghost'.missed[j] = IF leaving[j] = "no" THEN ghost.missed[j] ELSE ghost.missed[j] + 1
    BY <1>4, <2>0
  <2> HIDE DEF cut
  <2>3. OwnersFit(j)' BY <1>1, <1>2, <1>5, <2>0, <2>1 DEF RoomFits, OwnersFit, Cancelled
  <2>4. RetryFits(j)' BY <1>1, <1>2, <1>5, <2>0 DEF RoomFits, RetryFits, At
  <2>5. ClaimFits(j)' BY <1>1, <1>2, <2>0 DEF RoomFits, ClaimFits, Preclaimed
  <2>6. AnnounceFits(j)'
    BY <1>0, <1>1, <2>0, <2>2, RoomTyped DEF RoomFits, AnnounceFits, Unit
  <2>7. TrackFits(j)'
    BY <1>0, <1>1, <1>2, <2>0, <2>2, RoomTyped DEF RoomFits, TrackFits, At, subVars
  <2>8. QueueFits(j)' BY <1>1, <2>0 DEF RoomFits, QueueFits
  <2>9. MemberFits(j)' BY <1>1 DEF MemberFits
  <2> QED BY <2>3, <2>4, <2>5, <2>6, <2>7, <2>8, <2>9 DEF RoomFits
<1> QED BY <1>6, <1>7, <1>8, <1>9 DEF PresenceInv

LEMMA StopLeavesKeeps ==
    ASSUME PresenceInv, StopLeaves
    PROVE  PresenceInv'
<1>0. TypeOK /\ CallsOwn /\ PhaseFits BY DEF PresenceInv
<1>1. /\ phase = "unretry" /\ phase' = "leaving" /\ \A k \in Rooms : retry[k].pc = "none"
      /\ leaving' = [k \in Rooms |-> IF roster[k] = "admitted" THEN "begin" ELSE "no"]
      /\ roster' = [k \in Rooms |-> "unadmitted"]
      /\ UNCHANGED <<subVars, adm, callback, retry, consumer, queue, member, announced, lost, ghost>>
  BY DEF StopLeaves
<1>2. consumer.pc = "off" /\ \A j \in Rooms : leaving[j] = "no" BY <1>0, <1>1 DEF PhaseFits
<1>3. ASSUME NEW j \in Rooms PROVE adm[j] = NoAdm /\ callback[j] = {}
  <2>1. RoomFits(j) /\ adm[j] \in Admissions /\ callback[j] \in SUBSET Owners
    BY <1>0, RoomTyped DEF PresenceInv
  <2>2. adm[j].by \notin Owners /\ callback[j] = {}
    BY <1>1, <2>1 DEF RoomFits, OwnersFit, Owners
  <2> QED BY <2>1, <2>2, AdmFields DEF Owners
<1>4. TypeOK'
  <2>1. /\ roster' \in [Rooms -> {"unadmitted", "admitting", "admitted"}]
        /\ leaving' \in [Rooms -> {"no", "begin", "wait", "left"}]
        /\ phase' \in Phases
    BY <1>1 DEF Phases
  <2> QED BY <1>0, <1>1, <2>1 DEF TypeOK
<1>5. PhaseFits' BY <1>0, <1>1, <1>2, <1>3 DEF PhaseFits
<1>6. CallsOwn' BY <1>0, <1>1 DEF CallsOwn, subVars
<1>7. ASSUME NEW j \in Rooms PROVE RoomFits(j)'
  <2>0. /\ RoomFits(j) /\ leaving[j] = "no" /\ adm[j] = NoAdm /\ callback[j] = {}
        /\ leaving'[j] = IF roster[j] = "admitted" THEN "begin" ELSE "no"
        /\ roster'[j] = "unadmitted"
    BY <1>1, <1>2, <1>3 DEF PresenceInv
  <2>1. OwnersFit(j)' BY <1>1, <2>0, NoAdmFields DEF OwnersFit
  <2>2. RetryFits(j)' BY <1>1, <1>2, <2>0 DEF RoomFits, RetryFits, At
  <2>3. ClaimFits(j)' BY <1>1, <1>2, <2>0 DEF ClaimFits, Preclaimed
  <2>4. AnnounceFits(j)' BY <1>1, <2>0 DEF RoomFits, AnnounceFits, Unit
  <2>5. TrackFits(j)'
    BY <1>1, <1>2, <2>0, NoAdmFields DEF RoomFits, TrackFits, At, subVars
  <2>6. QueueFits(j)' BY <1>1, <2>0 DEF RoomFits, QueueFits
  <2>7. MemberFits(j)' BY <1>1 DEF MemberFits
  <2> QED BY <2>1, <2>2, <2>3, <2>4, <2>5, <2>6, <2>7 DEF RoomFits
<1> QED BY <1>4, <1>5, <1>6, <1>7 DEF PresenceInv

-----------------------------------------------------------------------------
(* The platform, the wire and the hook *)

LEMMA MembershipChangesKeeps ==
    ASSUME PresenceInv, NEW k \in Rooms, MembershipChanges(k)
    PROVE  PresenceInv'
<1>0. TypeOK /\ CallsOwn /\ PhaseFits /\ RoomFits(k) BY DEF PresenceInv
<1> DEFINE e == Event(IF k \in member THEN "removed" ELSE "added", k)
<1>1. /\ ~Resumable
      /\ member' = (IF k \in member THEN member \ {k} ELSE member \cup {k})
      /\ QueueEvent(e) \/ (lost' = lost \cup {k} /\ queue' = queue)
      /\ UNCHANGED <<subVars, phase, roster, adm, callback, retry, consumer, leaving,
                     announced, ghost>>
  BY DEF MembershipChanges
<1>2. e \in Events /\ e.room = k /\ (e.kind = "added" <=> k \notin member)
  BY DEF Event, Events
<1> HIDE DEF e
<1>3. /\ member' \in SUBSET Rooms /\ (k \in member' <=> k \notin member)
      /\ \A j \in Rooms : j # k => (j \in member' <=> j \in member)
  BY <1>0, <1>1 DEF TypeOK
<1>4. queue' \in Seq(Events) /\ Len(queue') <= QueueCap /\ lost' \in SUBSET Rooms
  <2>1. CASE QueueEvent(e) BY <1>0, <1>2, <2>1, QueueEventTyped
  <2>2. CASE lost' = lost \cup {k} /\ queue' = queue BY <1>0, <2>2 DEF TypeOK
  <2> QED BY <1>1, <2>1, <2>2
<1>5. ASSUME NEW j \in Rooms
      PROVE  /\ QueueFits(j)' /\ (j = k => Pushed(j)' \/ j \in lost')
             /\ j # k /\ j \notin lost' => j \notin lost /\ (Pushed(j)' <=> Pushed(j))
  <2>1. QueueFits(j) BY DEF PresenceInv, RoomFits
  <2>2. CASE QueueEvent(e)
    <3>1. e.room = j => (e.kind = "added" <=> j \in member') BY <1>2, <1>3
    <3>2. e.room # j => (j \in member' <=> j \in member) BY <1>2, <1>3
    <3> QED BY <1>0, <1>2, <2>1, <2>2, <3>1, <3>2, QueueEventFits
  <2>3. CASE lost' = lost \cup {k} /\ queue' = queue
    BY <1>3, <2>1, <2>3 DEF QueueFits, Pushed
  <2> QED BY <1>1, <2>2, <2>3
<1>6. TypeOK' BY <1>0, <1>1, <1>3, <1>4 DEF TypeOK
<1>7. PhaseFits' /\ CallsOwn' BY <1>0, <1>1 DEF PhaseFits, CallsOwn, subVars
<1>8. ASSUME NEW j \in Rooms, j # k PROVE RoomFits(j)'
  <2>1. RoomFits(j) BY DEF PresenceInv
  <2>2. Untouched(j) BY <1>1, <1>3, <1>8 DEF Untouched, subVars
  <2>3. SameView(j) BY <1>1, <2>1 DEF RoomFits, OwnersFit, SameView, At, Preclaimed
  <2> QED BY <1>1, <1>5, <1>8, <2>1, <2>2, <2>3, FrameView
<1>9. RoomFits(k)'
  <2>0. ~(adm[k].stage = "sub" /\ call[k].op = "idle") BY <1>1 DEF Resumable
  <2>1. OwnersFit(k)' BY <1>0, <1>1 DEF RoomFits, OwnersFit, Cancelled
  <2>2. RetryFits(k)' BY <1>0, <1>1 DEF RoomFits, RetryFits, At
  <2>3. ClaimFits(k)' BY <1>0, <1>1 DEF RoomFits, ClaimFits, Preclaimed
  <2>4. AnnounceFits(k)' BY <1>0, <1>1 DEF RoomFits, AnnounceFits, Unit, subVars
  <2>5. TrackFits(k)' BY <1>0, <1>1, <2>0 DEF RoomFits, TrackFits, At, subVars
  <2>6. QueueFits(k)' BY <1>5
  <2>7. MemberFits(k)' BY <1>5 DEF MemberFits
  <2> QED BY <2>1, <2>2, <2>3, <2>4, <2>5, <2>6, <2>7 DEF RoomFits
<1> QED BY <1>6, <1>7, <1>8, <1>9 DEF PresenceInv

roomVars == <<phase, roster, adm, callback, retry, consumer, leaving, queue, member, announced,
              lost, ghost>>

\* One answer of the wire, for a room or for agent_rooms.
LEMMA WireKeeps ==
    ASSUME PresenceInv, ~Resumable, NEW k \in Keys, Outcome(k), UNCHANGED roomVars,
           tracker'[k] = "joined" /\ k \in Rooms => k \in member
    PROVE  PresenceInv'
<1>0. TypeOK /\ CallsOwn /\ PhaseFits BY DEF PresenceInv
<1>1. UNCHANGED <<phase, roster, adm, callback, retry, consumer, leaving, queue, member,
                  announced, lost, ghost>>
  BY DEF roomVars
<1>2. OnlyKey(k) /\ CallsOwn' BY <1>0, OnlyKeyOwns DEF Outcome
<1>3. TypeOK' /\ PhaseFits' BY <1>0, <1>1 DEF TypeOK, PhaseFits
<1>4. ASSUME NEW j \in Rooms, j # k PROVE RoomFits(j)'
  <2>1. Untouched(j) BY <1>1, <1>2, <1>4, RoomKeys DEF Untouched, OnlyKey
  <2> QED BY <1>1, <2>1, Frame DEF PresenceInv
<1>5. ASSUME k \in Rooms PROVE RoomFits(k)'
  <2>0. RoomFits(k) /\ adm[k].stage # "denied" BY <1>5 DEF PresenceInv, Resumable
  <2>1. OwnersFit(k)' BY <1>1, <2>0 DEF RoomFits, OwnersFit, Cancelled
  <2>2. RetryFits(k)' BY <1>1, <2>0 DEF RoomFits, RetryFits, At
  <2>3. ClaimFits(k)' BY <1>1, <2>0 DEF RoomFits, ClaimFits, Preclaimed
  <2>4. AnnounceFits(k)' BY <1>1, <2>0 DEF RoomFits, AnnounceFits, Unit
  <2>5. TrackFits(k)'
    <3>1. call[k].op = "join" => adm[k].stage = "sub" /\ ~At(k, {"leave", "left"})
      BY <1>5, <2>0, AdmissionRuns, NoAdmFields DEF RoomFits, TrackFits
    <3> QED BY <1>1, <1>5, <2>0, <3>1 DEF RoomFits, TrackFits, Outcome, At
  <2>6. QueueFits(k)' BY <1>1, <2>0 DEF RoomFits, QueueFits
  <2>7. MemberFits(k)' BY <1>1, <2>0 DEF RoomFits, MemberFits, Pushed, At
  <2> QED BY <2>1, <2>2, <2>3, <2>4, <2>5, <2>6, <2>7 DEF RoomFits
<1> QED BY <1>2, <1>3, <1>4, <1>5 DEF PresenceInv

LEMMA WireAnswersKeeps ==
    ASSUME SubInv, PresenceInv, WireAnswers \/ WireFails \/ WireRefuses
    PROVE  PresenceInv'
<1>1. ~Resumable /\ UNCHANGED roomVars
  BY DEF WireAnswers, WireFails, WireRefuses, presVars, roomVars
<1>2. PICK k \in Keys :
        \/ JoinSucceeds(k) /\ (k \in Rooms => k \in member)
        \/ JoinFails(k)
        \/ \E left \in BOOLEAN : RollbackEnds(k, left) \/ LeaveEnds(k, left)
  BY RoomKeys DEF WireAnswers, WireFails, WireRefuses
<1>3. CallsOwn BY DEF PresenceInv
<1>4. Outcome(k) /\ (tracker'[k] = "joined" /\ k \in Rooms => k \in member)
  BY <1>2, <1>3, JoinOutcome, JoinFailsOutcome, LeaveOutcome
<1> QED BY <1>1, <1>4, WireKeeps

\* A step of the transport or of the reconnect hook, seen by the rooms.
LEMMA HookKeeps ==
    ASSUME PresenceInv, HookOnly, TypeOK',
           UNCHANGED <<phase, roster, adm, callback, retry, consumer, leaving, member, announced>>,
           ghost'.gaveUp = ghost.gaveUp, ghost'.unsettled = ghost.unsettled,
           ghost'.missed = ghost.missed,
           \A j \in Rooms :
               /\ tracker[j] = "joined" => tracker'[j] = "joined" \/ j \in ghost'.rejected
               /\ j \in ghost.rejected => j \in ghost'.rejected
               /\ QueueFits(j)'
               /\ j \notin lost' => j \notin lost /\ (Pushed(j)' <=> Pushed(j))
    PROVE  PresenceInv'
<1>1. CallsOwn' /\ PhaseFits' BY HookOnlyOwns DEF PresenceInv, PhaseFits
<1>2. ASSUME NEW j \in Rooms PROVE RoomFits(j)'
  <2>0. RoomFits(j) /\ j \in Keys BY RoomKeys DEF PresenceInv
  <2>1. j \in ghost'.unsettled <=> j \in ghost.unsettled OBVIOUS
  <2>2. call' = call /\ (tracker'[j] = "joined" => tracker[j] = "joined")
    BY <2>0 DEF HookOnly
  <2>3. OwnersFit(j)' BY <2>0 DEF RoomFits, OwnersFit, Cancelled
  <2>4. RetryFits(j)' BY <2>0 DEF RoomFits, RetryFits, At
  <2>5. ClaimFits(j)' BY <2>0 DEF RoomFits, ClaimFits, Preclaimed
  <2>6. AnnounceFits(j)' BY <2>0, <2>1, <2>2 DEF RoomFits, AnnounceFits, Unit
  <2>7. TrackFits(j)' BY <2>0, <2>1, <2>2 DEF RoomFits, TrackFits, At
  <2>8. MemberFits(j)' BY <2>0, <2>1 DEF RoomFits, MemberFits, At
  <2> QED BY <2>3, <2>4, <2>5, <2>6, <2>7, <2>8 DEF RoomFits
<1> QED BY <1>1, <1>2 DEF PresenceInv

LEMMA TransportKeeps ==
    ASSUME SubInv, PresenceInv,
           TransportDrops \/ Reconnects \/ \E left \in BOOLEAN : DrainLeave(left),
           UNCHANGED roomVars
    PROVE  PresenceInv'
<1>1. UNCHANGED <<phase, roster, adm, callback, retry, consumer, leaving, queue, member,
                  announced, lost, ghost>>
  BY DEF roomVars
<1>2. HookOnly /\ \A j \in Keys : tracker[j] = "joined" => tracker'[j] = "joined"
  BY HookEffect
<1>3. TypeOK' BY <1>1 DEF PresenceInv, TypeOK
<1>4. \A j \in Rooms : QueueFits(j)' /\ (Pushed(j)' <=> Pushed(j))
  BY <1>1 DEF PresenceInv, RoomFits, QueueFits, Pushed
<1> QED BY <1>1, <1>2, <1>3, <1>4, RoomKeys, HookKeeps

LEMMA HookEndsKeeps ==
    ASSUME SubInv, PresenceInv, HookEnds, QueueEvent(Event("reconnected", NoKey)),
           UNCHANGED <<phase, roster, adm, callback, retry, consumer, leaving, member, announced,
                       ghost>>
    PROVE  PresenceInv'
<1> DEFINE e == Event("reconnected", NoKey)
<1>1. e \in Events /\ e.room = NoKey BY DEF Events, Event
<1>2. QueueEvent(e) OBVIOUS
<1> HIDE DEF e
<1>3. TypeOK' BY <1>1, <1>2, QueueEventTyped DEF PresenceInv, TypeOK
<1>4. ASSUME NEW j \in Rooms
      PROVE  QueueFits(j)' /\ (j \notin lost' => j \notin lost /\ (Pushed(j)' <=> Pushed(j)))
  BY <1>1, <1>2, RoomKeys, QueueEventFits DEF PresenceInv, RoomFits
<1>5. HookOnly /\ tracker' = tracker BY HookEffect DEF HookEnds
<1> QED BY <1>3, <1>4, <1>5, HookKeeps

LEMMA HookStepKeeps ==
    ASSUME SubInv, PresenceInv, Transport \/ Hook
    PROVE  PresenceInv'
<1>1. CASE Transport
  <2>1. UNCHANGED roomVars BY <1>1 DEF Transport, presVars, roomVars
  <2> QED BY <1>1, <2>1, TransportKeeps DEF Transport
<1>2. CASE Hook
  <2>1. ASSUME NEW left \in BOOLEAN, DrainLeave(left), UNCHANGED roomVars PROVE PresenceInv'
    BY <2>1, TransportKeeps
  <2>2. CASE DrainLeave(TRUE) /\ UNCHANGED presVars
    BY <2>1, <2>2 DEF presVars, roomVars
  <2>3. CASE /\ DrainLeave(FALSE)
             /\ UNCHANGED <<phase, starts, roster, adm, callback, retry, consumer, leaving, queue,
                            member, changes, announced, lost, ghost>>
    BY <2>1, <2>3 DEF roomVars
  <2>4. CASE /\ DetectRejoinFailures
             /\ ghost' = [ghost EXCEPT !.rejected =
                    @ \cup {k \in Rooms : tracker[k] = "joined" /\ tracker'[k] # "joined"}]
             /\ UNCHANGED <<phase, starts, roster, adm, callback, retry, consumer, leaving, queue,
                            member, changes, faults, announced, lost>>
    <3>1. ghost \in Ghosts BY DEF PresenceInv, TypeOK
    <3>2. /\ ghost' \in Ghosts /\ ghost'.gaveUp = ghost.gaveUp /\ ghost'.unsettled = ghost.unsettled
          /\ ghost'.missed = ghost.missed
          /\ ghost'.rejected = ghost.rejected \cup
                {k \in Rooms : tracker[k] = "joined" /\ tracker'[k] # "joined"}
      BY <2>4, <3>1 DEF Ghosts
    <3>3. HookOnly BY <2>4, DetectEffect
    <3>4. TypeOK' BY <2>4, <3>2 DEF PresenceInv, TypeOK
    <3>5. \A j \in Rooms : QueueFits(j)' /\ (Pushed(j)' <=> Pushed(j))
      BY <2>4 DEF PresenceInv, RoomFits, QueueFits, Pushed
    <3>6. UNCHANGED <<phase, roster, adm, callback, retry, consumer, leaving, queue, member,
                      announced, lost>>
      BY <2>4
    <3> QED BY <3>2, <3>3, <3>4, <3>5, <3>6, HookKeeps
  <2>5. CASE /\ HookEnds /\ QueueEvent(Event("reconnected", NoKey))
             /\ UNCHANGED <<phase, starts, roster, adm, callback, retry, consumer, leaving, member,
                            changes, faults, announced, ghost>>
    BY <2>5, HookEndsKeeps
  <2> QED BY <1>2, <2>2, <2>3, <2>4, <2>5 DEF Hook
<1> QED BY <1>1, <1>2

-----------------------------------------------------------------------------
(* The presence drives the link: its steps are steps of the subscriptions *)

\* Every step of the presence is a step of the link, or leaves the link alone.
LEMMA PresenceStepsLink ==
    ASSUME PresenceInv, [Next]_vars
    PROVE  [SubNext]_subVars
<1>1. ASSUME NEW k \in Rooms, StartSubscribe(k) \/ StartUnsubscribe(k)
      PROVE  [SubNext]_subVars
  BY <1>1, RoomKeys DEF StartSubscribe, StartUnsubscribe, SubNext
<1>2. ASSUME NEW k \in Rooms,
             \/ SubscribeReturned(k) \/ CancelAdmission(k) \/ CleanUp(k) \/ RetryWakes(k)
             \/ LeaveOneRoom(k) \/ StartAdmission(k) \/ CancelLeave(k)
      PROVE  [SubNext]_subVars
  <2>1. \/ CancelSubscribe(k) \/ CancelUnsubscribe(k)
        \/ StartSubscribe(k) \/ StartUnsubscribe(k) \/ UNCHANGED subVars
    BY <1>2 DEF SubscribeReturned, CancelAdmission, CleanUp, RetryWakes, LeaveOneRoom,
                StartAdmission, CancelLeave
  <2> QED BY <1>1, <2>1, RoomKeys DEF SubNext, SubStep
<1>3. ASSUME NEW k \in Rooms,
             \/ JoinedCallbackEnds(k) \/ CleanedUp(k)
             \/ RetryCancelled(k) \/ LeftCallback(k) \/ CancelUnstarted(k) \/ MembershipChanges(k)
      PROVE  UNCHANGED subVars
  BY <1>3 DEF JoinedCallbackEnds, CleanedUp, RetryCancelled, LeftCallback,
              CancelUnstarted, MembershipChanges
<1>4. CASE HandleRoomAdded
  <2>1. Head(queue).room \in Rooms BY <1>4, TakeRoom DEF HandleRoomAdded
  <2>2. StartSubscribe(Head(queue).room) \/ UNCHANGED subVars BY <1>4 DEF HandleRoomAdded
  <2> QED BY <1>1, <2>1, <2>2
<1>5. CASE RetryGone
  <2>1. consumer.key \in Rooms /\ StartUnsubscribe(consumer.key)
    BY <1>5 DEF PresenceInv, PhaseFits, RetryGone
  <2> QED BY <1>1, <2>1
<1>6. CASE Start BY <1>6, AgentKey DEF Start, SubNext
<1>7. CASE \/ Admitted \/ HandleRoomLeft \/ RoomLeft \/ HandleReconnect \/ Reconcile
           \/ AdmitReconciled \/ StartLists \/ StartJoins \/ Started \/ ConsumerGone
           \/ StopLeaves \/ Stopped \/ ReconnectListFails \/ StartListFails \/ Stop
  BY <1>7 DEF Admitted, HandleRoomLeft, RoomLeft, HandleReconnect, Reconcile, AdmitReconciled,
              StartLists, StartJoins, Started, ConsumerGone, StopLeaves, Stopped,
              ReconnectListFails, StartListFails, Stop
<1>8. CASE WireAnswers \/ WireFails \/ WireRefuses
  <2>1. \E k \in Callers : \/ JoinSucceeds(k) \/ JoinFails(k)
                           \/ \E left \in BOOLEAN : RollbackEnds(k, left) \/ LeaveEnds(k, left)
    BY <1>8, RoomKeys DEF WireAnswers, WireFails, WireRefuses
  <2> QED BY <2>1 DEF SubNext, SubStep
<1>9. CASE Transport \/ Hook BY <1>9 DEF Transport, Hook, SubNext, SubStep
<1>10. CASE UNCHANGED vars BY <1>10 DEF vars
<1> QED BY <1>2, <1>3, <1>4, <1>5, <1>6, <1>7, <1>8, <1>9, <1>10 DEF Next, Progress

-----------------------------------------------------------------------------
(* The theorems about the presence *)

LEMMA InitPresence ==
    ASSUME Init
    PROVE  SubInv /\ PresenceInv
<1>1. SubInv BY InitSub DEF Init
<1>2. /\ phase = "down" /\ roster = [k \in Rooms |-> "unadmitted"]
      /\ adm = [k \in Rooms |-> NoAdm] /\ callback = [k \in Rooms |-> {}]
      /\ retry = [k \in Rooms |-> NoRetry] /\ consumer = Consumer("off", NoKey)
      /\ leaving = [k \in Rooms |-> "no"] /\ queue = <<>> /\ member \in SUBSET Rooms
      /\ announced = [k \in Rooms |-> 0] /\ lost = {}
      /\ ghost = [gaveUp |-> {}, unsettled |-> {}, rejected |-> {},
                  missed |-> [k \in Rooms |-> 0]]
      /\ session = 1 /\ opened = 1 /\ tracker = [k \in Keys |-> "absent"]
      /\ call = [c \in Callers |-> IdleCall]
  BY DEF Init, SubInit
<1>3. consumer \in Consumers /\ consumer.pc = "off" BY <1>2, ConsumerTyped
<1>4. queue \in Seq(Events) /\ Len(queue) = 0 /\ DOMAIN queue = {} BY <1>2
<1>5. TypeOK
  BY <1>2, <1>3, <1>4, NoAdmFields, NoRetryTyped, PresenceAssumption DEF TypeOK, Phases, Ghosts
<1>6. CallsOwn BY <1>2, RoomKeys DEF CallsOwn, IdleCall
<1>7. PhaseFits BY <1>2, <1>3 DEF PhaseFits
<1>8. ASSUME NEW k \in Rooms PROVE RoomFits(k)
  <2>1. /\ adm[k] = NoAdm /\ callback[k] = {} /\ retry[k] = NoRetry /\ roster[k] = "unadmitted"
        /\ leaving[k] = "no" /\ announced[k] = 0 /\ ghost.missed[k] = 0
        /\ tracker[k] = "absent" /\ call[k].op = "idle"
    BY <1>2, RoomKeys DEF IdleCall
  <2>2. OwnersFit(k) BY <2>1, NoAdmFields DEF OwnersFit
  <2>3. RetryFits(k) BY <1>3, <2>1, NoRetryTyped DEF RetryFits, At
  <2>4. ClaimFits(k) BY <1>2, <1>3, <2>1 DEF ClaimFits, Preclaimed
  <2>5. AnnounceFits(k) BY <2>1 DEF AnnounceFits, Unit
  <2>6. TrackFits(k) BY <2>1 DEF TrackFits
  <2>7. QueueFits(k) /\ MemberFits(k) BY <1>2, <1>4 DEF QueueFits, MemberFits
  <2> QED BY <2>2, <2>3, <2>4, <2>5, <2>6, <2>7 DEF RoomFits
<1> QED BY <1>1, <1>5, <1>6, <1>7, <1>8 DEF PresenceInv

LEMMA NextKeeps ==
    ASSUME SubInv, PresenceInv, [Next]_vars
    PROVE  PresenceInv'
<1>1. ASSUME NEW k \in Rooms,
             \/ SubscribeReturned(k) \/ JoinedCallbackEnds(k) \/ CancelAdmission(k) \/ CleanUp(k)
             \/ CleanedUp(k) \/ RetryWakes(k) \/ RetryCancelled(k)
      PROVE  PresenceInv'
  BY <1>1, SubscribeReturnedKeeps, JoinedCallbackEndsKeeps, CancelAdmissionKeeps, CleanUpKeeps,
     CleanedUpKeeps, RetryWakesKeeps, RetryCancelledKeeps
<1>2. ASSUME NEW k \in Rooms,
             \/ LeaveOneRoom(k) \/ LeftCallback(k) \/ StartAdmission(k) \/ CancelLeave(k)
             \/ CancelUnstarted(k) \/ MembershipChanges(k)
      PROVE  PresenceInv'
  BY <1>2, LeaveOneRoomKeeps, LeftCallbackKeeps, StartAdmissionKeeps, CancelLeaveKeeps,
     CancelUnstartedKeeps, MembershipChangesKeeps
<1>3. CASE \/ HandleRoomAdded \/ Admitted \/ HandleRoomLeft \/ RetryGone \/ RoomLeft
           \/ HandleReconnect \/ Reconcile \/ AdmitReconciled \/ ReconnectListFails
  BY <1>3, HandleRoomAddedKeeps, AdmittedKeeps, HandleRoomLeftKeeps, RetryGoneKeeps,
     RoomLeftKeeps, HandleReconnectKeeps, ReconcileKeeps, AdmitReconciledKeeps,
     ReconnectListFailsKeeps
<1>4. CASE \/ StartLists \/ StartJoins \/ Started \/ ConsumerGone \/ StopLeaves \/ Stopped
           \/ StartListFails \/ Start \/ Stop
  BY <1>4, PhaseOnlyKeeps, StartJoinsKeeps, StartedKeeps, ConsumerGoneKeeps, StopLeavesKeeps,
     StartListFailsKeeps, StartKeeps
<1>5. CASE WireAnswers \/ WireFails \/ WireRefuses BY <1>5, WireAnswersKeeps
<1>6. CASE Transport \/ Hook BY <1>6, HookStepKeeps
<1>7. CASE UNCHANGED vars
  <2>1. UNCHANGED <<subVars, phase, roster, adm, callback, retry, consumer, leaving, queue, member,
                    announced, lost, ghost>>
    BY <1>7 DEF vars, presVars
  <2>2. TypeOK' /\ PhaseFits' BY <2>1 DEF PresenceInv, TypeOK, PhaseFits
  <2>3. ASSUME NEW j \in Rooms
        PROVE  SameView(j) /\ QueueFits(j)' /\ (Pushed(j)' <=> Pushed(j))
    BY <2>1
       DEF PresenceInv, RoomFits, OwnersFit, QueueFits, Pushed, SameView, At, Preclaimed
  <2> QED BY <2>1, <2>2, <2>3, FrameAll
<1> QED BY <1>1, <1>2, <1>3, <1>4, <1>5, <1>6, <1>7 DEF Next, Progress

\* The invariant of the link's subscriptions and that of the presence over them hold
\* together, whatever order the startup snapshot, the pushes, the reconnects, the
\* failed joins and their re-joins, and stop() come in (presence.py over
\* subscriptions.py).
THEOREM PresenceInductive == Spec => [](SubInv /\ PresenceInv)
<1>1. Init => SubInv /\ PresenceInv BY InitPresence
<1>2. SubInv /\ PresenceInv /\ [Next]_vars => (SubInv /\ PresenceInv)'
  BY NextKeeps, PresenceStepsLink, SubNextKeeps
<1> QED BY <1>1, <1>2, PTL DEF Spec

\* The link's side of the presence is a behaviour of the subscriptions: what is proved
\* of SubSpec holds under RoomPresence.
THEOREM PresenceRefinesLink == Spec => SubSpec
<1>1. Init => SubInit BY DEF Init
<1>2. SubInv /\ PresenceInv /\ [Next]_vars => [SubNext]_subVars BY PresenceStepsLink
<1> QED BY <1>1, <1>2, PresenceInductive, PTL DEF Spec, SubSpec

\* The types of the presence's state.
THEOREM PresenceTyped == Spec => []TypeOK
BY PresenceInductive, PTL DEF PresenceInv

\* No ticket goes stale while its admission runs, and the owner's account of every room
\* is exact: announced once while the room is in the roster, once more while its leave
\* is pending, and once for every leave stop() cancelled (_join_room,
\* _complete_room_admission, _leave_and_notify, _handle_room_left, stop).
THEOREM PresenceAnnouncesOnce == Spec => []AnnouncedOnce
<1>1. SubInv /\ PresenceInv => AnnouncedOnce
  <2> SUFFICES ASSUME PresenceInv, NEW k \in Rooms
               PROVE  /\ adm[k].stage # "none" => Outstanding(k)
                      /\ announced[k] = Unit(roster[k] = "admitted") + Unit(leaving[k] # "no")
                                        + ghost.missed[k]
    BY DEF AnnouncedOnce
  <2>1. RoomFits(k) BY DEF PresenceInv
  <2> QED BY <2>1, NoAdmFields DEF RoomFits, ClaimFits, AnnounceFits, Outstanding
<1> QED BY <1>1, PresenceInductive, PTL

\* At rest the roster is the platform's membership, and every room in it receives its
\* messages: _on_platform_event, _handle_reconnect and _retry_join lose no room, but
\* for those Converged names: re-joins that ran out, lost events, refused rejoins, and
\* rooms a re-join that outran a leave or a cancelled leave left unsettled.
THEOREM PresenceConverges == Spec => []Converged
<1>1. SubInv /\ PresenceInv => Converged
  <2> SUFFICES ASSUME PresenceInv, Resting, NEW k \in Rooms \ ghost.unsettled
               PROVE  /\ roster[k] = "admitted" => k \in member \cup lost
                      /\ k \in member \ lost => (roster[k] = "admitted" \/ k \in ghost.gaveUp)
                      /\ roster[k] = "admitted" => (tracker[k] = "joined" \/ k \in ghost.rejected)
    BY DEF Converged
  <2>1. /\ phase = "up" /\ consumer.pc = "idle" /\ queue = <<>>
        /\ adm[k] = NoAdm /\ retry[k].pc = "none"
    BY DEF Resting
  <2>2. RoomFits(k) /\ roster[k] \in {"unadmitted", "admitting", "admitted"}
    BY RoomTyped DEF PresenceInv
  <2>3. ~Pushed(k)
    <3>1. DOMAIN queue = {} BY <2>1
    <3> QED BY <3>1 DEF Pushed
  <2>4. roster[k] # "admitting" BY <2>1, <2>2 DEF RoomFits, ClaimFits, Preclaimed
  <2>5. TrackFits(k) /\ MemberFits(k) BY <2>2 DEF RoomFits
  <2> QED BY <2>1, <2>2, <2>3, <2>4, <2>5 DEF TrackFits, MemberFits, At
<1> QED BY <1>1, PresenceInductive, PTL

\* A stopped presence is subscribed to no room: stop() waits for the admissions and the
\* re-joins it cancels, and leaves what they admitted.  The exception is a room whose
\* leave a reconcile had decided and stop() cancelled before it began.
THEOREM PresenceStopUnsubscribes == Spec => []StopUnsubscribes
<1>1. SubInv /\ PresenceInv => StopUnsubscribes
  <2> SUFFICES ASSUME PresenceInv, phase = "down", NEW k \in Rooms, tracker[k] = "joined"
               PROVE  k \in ghost.unsettled /\ ghost.missed[k] > 0
    BY DEF StopUnsubscribes
  <2>1. roster[k] = "unadmitted" /\ adm[k] = NoAdm /\ leaving[k] = "no"
    BY DEF PresenceInv, PhaseFits
  <2>2. TrackFits(k) /\ ghost.missed[k] \in Nat BY RoomTyped DEF PresenceInv, RoomFits
  <2> QED BY <2>1, <2>2, NoAdmFields DEF TrackFits
<1> QED BY <1>1, PresenceInductive, PTL

\* Under RoomPresence, too, whatever topic the transport holds is subscribed, being
\* worked on, or left at the next reconnect.
THEOREM PresenceLeaksNoTopic == Spec => []NoOrphanTopic
BY PresenceRefinesLink, NothingLeaked, PTL

=============================================================================
