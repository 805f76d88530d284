---------------------------- MODULE ControlsProof ----------------------------
(***************************************************************************)
(* What TLAPS proves of Controls, for every window, every set of rooms and *)
(* correlation ids and every bound.                                        *)
(***************************************************************************)
EXTENDS Controls, TLAPS

-----------------------------------------------------------------------------
(* The deduplicator's memory *)

\* Remembering appends, and evicts the oldest id once the window is full.
LEMMA RememberedShape ==
    ASSUME NEW ids \in Seq(Cids), NEW cid \in Cids, Len(ids) <= Window
    PROVE  /\ Remembered(ids, cid) \in Seq(Cids)
           /\ Len(ids) < Window =>
                /\ Len(Remembered(ids, cid)) = Len(ids) + 1
                /\ \A i \in 1..Len(ids) : Remembered(ids, cid)[i] = ids[i]
                /\ Remembered(ids, cid)[Len(ids) + 1] = cid
           /\ Len(ids) = Window =>
                /\ Len(Remembered(ids, cid)) = Window
                /\ \A i \in 1..(Window - 1) : Remembered(ids, cid)[i] = ids[i + 1]
                /\ Remembered(ids, cid)[Window] = cid
<1> DEFINE longer == Append(ids, cid)
<1>1. /\ longer \in Seq(Cids) /\ Len(longer) = Len(ids) + 1
      /\ \A i \in 1..Len(ids) : longer[i] = ids[i]
      /\ longer[Len(ids) + 1] = cid
  OBVIOUS
<1> HIDE DEF longer
<1>2. /\ Tail(longer) \in Seq(Cids) /\ Len(Tail(longer)) = Len(ids)
      /\ \A i \in 1..Len(ids) : Tail(longer)[i] = longer[i + 1]
  <2>1. longer # <<>> BY <1>1
  <2> QED BY <1>1, <2>1
<1>3. Window \in Nat \ {0} BY ControlsAssumption
<1>4. CASE Len(ids) < Window
  <2>1. Remembered(ids, cid) = longer BY <1>3, <1>4 DEF Remembered, longer
  <2> QED BY <1>1, <1>4, <2>1
<1>5. CASE Len(ids) = Window
  <2>1. Remembered(ids, cid) = Tail(longer) BY <1>3, <1>5 DEF Remembered, longer
  <2>2. \A i \in 1..(Window - 1) : i + 1 \in 1..Len(ids) /\ i \in 1..Len(ids)
    BY <1>3, <1>5
  <2>3. Tail(longer)[Window] = cid BY <1>1, <1>2, <1>3, <1>5
  <2> QED BY <1>1, <1>2, <1>3, <1>5, <2>1, <2>2, <2>3
<1> QED BY <1>3, <1>4, <1>5

\* Recording a new id keeps the memory the newest end of the record.
LEMMA RecordingKeepsRecent ==
    ASSUME SeenIsRecent, NEW cid \in Cids,
           seen' = Remembered(seen, cid), recorded' = Append(recorded, cid)
    PROVE  SeenIsRecent'
<1>1. Window \in Nat \ {0} BY ControlsAssumption
<1>2. /\ recorded' \in Seq(Cids) /\ Len(recorded') = Len(recorded) + 1
      /\ \A i \in 1..Len(recorded) : recorded'[i] = recorded[i]
      /\ recorded'[Len(recorded) + 1] = cid
  BY DEF SeenIsRecent
<1> DEFINE gap == Len(recorded) - Len(seen)
<1>3. gap \in Nat /\ Len(seen) \in Nat /\ Len(recorded) \in Nat
      /\ \A i \in 1..Len(seen) : seen[i] = recorded[gap + i]
  BY DEF SeenIsRecent
<1>4. CASE Len(seen) < Window
  <2>1. /\ seen' \in Seq(Cids) /\ Len(seen') = Len(seen) + 1
        /\ \A i \in 1..Len(seen) : seen'[i] = seen[i]
        /\ seen'[Len(seen) + 1] = cid
    BY <1>4, RememberedShape DEF SeenIsRecent
  <2>2. Len(seen) = Len(recorded) BY <1>1, <1>4 DEF SeenIsRecent
  <2>3. \A i \in 1..Len(seen') : seen'[i] = recorded'[Len(recorded') - Len(seen') + i]
    BY <1>2, <1>3, <2>1, <2>2
  <2> QED BY <1>1, <1>2, <1>4, <2>1, <2>2, <2>3 DEF SeenIsRecent
<1>5. CASE Len(seen) = Window
  <2>1. /\ seen' \in Seq(Cids) /\ Len(seen') = Window
        /\ \A i \in 1..(Window - 1) : seen'[i] = seen[i + 1]
        /\ seen'[Window] = cid
    BY <1>5, RememberedShape DEF SeenIsRecent
  <2>2. Len(recorded') - Len(seen') = gap + 1 BY <1>2, <1>3, <1>5, <2>1
  <2>3. ASSUME NEW i \in 1..Len(seen')
        PROVE  seen'[i] = recorded'[gap + 1 + i]
    <3>1. CASE i = Window
      BY <1>1, <1>2, <1>3, <1>5, <2>1, <3>1
    <3>2. CASE i < Window
      <4>1. i + 1 \in 1..Len(seen) /\ i \in 1..(Window - 1)
        BY <1>1, <1>5, <2>1, <3>2
      <4>2. gap + (i + 1) \in 1..Len(recorded) /\ gap + 1 + i = gap + (i + 1)
        BY <1>3, <4>1
      <4>3. seen[i + 1] = recorded[gap + (i + 1)] BY <1>3, <4>1
      <4> QED BY <1>2, <2>1, <4>1, <4>2, <4>3
    <3>3. i = Window \/ i < Window BY <1>1, <2>1
    <3> QED BY <3>1, <3>2, <3>3
  <2>4. Len(seen') <= Len(recorded') /\ Len(seen') <= Window
    BY <1>1, <1>2, <1>3, <1>5, <2>1
  <2> QED BY <1>2, <2>1, <2>2, <2>3, <2>4 DEF SeenIsRecent
<1>6. Len(seen) < Window \/ Len(seen) = Window BY <1>1, <1>3 DEF SeenIsRecent
<1> QED BY <1>4, <1>5, <1>6

\* An id that is not remembered was recorded more than a window ago, or never.
LEMMA RecordingKeepsWindow ==
    ASSUME SeenIsRecent, NoReplayWithinWindow, NEW cid \in Cids,
           \A i \in 1..Len(seen) : seen[i] # cid,
           recorded' = Append(recorded, cid)
    PROVE  NoReplayWithinWindow'
<1>1. Window \in Nat \ {0} BY ControlsAssumption
<1>2. /\ recorded' \in Seq(Cids) /\ Len(recorded') = Len(recorded) + 1
      /\ \A i \in 1..Len(recorded) : recorded'[i] = recorded[i]
      /\ recorded'[Len(recorded) + 1] = cid
      /\ DOMAIN recorded = 1..Len(recorded) /\ DOMAIN recorded' = 1..Len(recorded')
  BY DEF SeenIsRecent
<1>3. Len(seen) \in Nat /\ Len(recorded) \in Nat /\ Len(seen) <= Len(recorded)
      /\ (Len(seen) = Window \/ Len(seen) = Len(recorded))
      /\ \A i \in 1..Len(seen) : seen[i] = recorded[Len(recorded) - Len(seen) + i]
  BY DEF SeenIsRecent
<1>4. ASSUME NEW i \in 1..Len(recorded), recorded[i] = cid
      PROVE  Len(recorded) + 1 - i > Window
  <2>1. i <= Len(recorded) - Len(seen)
    <3>1. SUFFICES ASSUME i > Len(recorded) - Len(seen) PROVE FALSE BY <1>3
    <3>2. i - (Len(recorded) - Len(seen)) \in 1..Len(seen) BY <1>3, <3>1
    <3>3. seen[i - (Len(recorded) - Len(seen))]
            = recorded[Len(recorded) - Len(seen) + (i - (Len(recorded) - Len(seen)))]
      BY <1>3, <3>2
    <3>4. Len(recorded) - Len(seen) + (i - (Len(recorded) - Len(seen))) = i BY <1>3
    <3> QED BY <1>4, <3>2, <3>3, <3>4
  <2> QED BY <1>1, <1>3, <2>1
<1>5. ASSUME NEW i \in DOMAIN recorded', NEW j \in DOMAIN recorded', i < j,
             recorded'[i] = recorded'[j]
      PROVE  j - i > Window
  <2>1. i \in 1..Len(recorded) BY <1>2, <1>3, <1>5
  <2>2. CASE j = Len(recorded) + 1 BY <1>2, <1>4, <1>5, <2>1, <2>2
  <2>3. CASE j \in 1..Len(recorded)
    BY <1>2, <1>5, <2>1, <2>3 DEF NoReplayWithinWindow
  <2> QED BY <1>2, <1>3, <2>2, <2>3
<1> QED BY <1>5 DEF NoReplayWithinWindow

\* Within the window the remembered ids are distinct.
LEMMA RecentIsInjective ==
    ASSUME SeenIsRecent, NoReplayWithinWindow
    PROVE  IsInjective(seen)
<1>1. Window \in Nat \ {0} BY ControlsAssumption
<1>2. SUFFICES ASSUME NEW i \in 1..Len(seen), NEW j \in 1..Len(seen),
                      seen[i] = seen[j], i < j
               PROVE  FALSE
  BY SMTT(30) DEF IsInjective, SeenIsRecent
<1> DEFINE gap == Len(recorded) - Len(seen)
<1>3. gap \in Nat /\ Len(seen) \in Nat /\ Len(recorded) \in Nat
      /\ DOMAIN recorded = 1..Len(recorded) /\ Len(seen) <= Window
      /\ seen[i] = recorded[gap + i] /\ seen[j] = recorded[gap + j]
  BY <1>2 DEF SeenIsRecent
<1>4. gap + i \in DOMAIN recorded /\ gap + j \in DOMAIN recorded /\ gap + i < gap + j
  BY <1>2, <1>3
<1>5. (gap + j) - (gap + i) > Window BY <1>2, <1>3, <1>4 DEF NoReplayWithinWindow
<1> QED BY <1>1, <1>2, <1>3, <1>5

-----------------------------------------------------------------------------
(* The steps *)

memory == <<seen, recorded, reached>>

\* The part of IInv about the memory follows from what it was when it is left alone.
LEMMA MemoryKept ==
    ASSUME IInv, UNCHANGED memory
    PROVE  /\ SeenIsRecent' /\ NoReplayWithinWindow' /\ UnreachedIsNotSeen'
           /\ Len(seen') <= Window /\ IsInjective(seen')
BY DEF IInv, memory, SeenIsRecent, NoReplayWithinWindow, UnreachedIsNotSeen,
       ControlsTypeOK, IsInjective

\* The targets of a signal are executions that exist.
LEMMA TargetsExist ==
    ASSUME IInv, NEW s
    PROVE  ControlTargets(s) \subseteq Executions
<1>1. ASSUME NEW r \in routed PROVE r \in Rooms /\ epoch[r] \in 1..MaxRoutes
  <2>1. epoch \in [Rooms -> 0..MaxRoutes] /\ routed \subseteq Rooms /\ epoch[r] >= 1
    BY <1>1 DEF IInv, ControlsTypeOK, HookFits
  <2>2. MaxRoutes \in Nat BY ControlsAssumption
  <2> QED BY <2>1, <2>2
<1> QED BY <1>1 DEF ControlTargets, Executions

\* Applying a signal to one of its targets keeps the types of what it changes.
LEMMA ContinueTyped ==
    ASSUME IInv, NEW s \in Signals, NEW targets \in SUBSET Executions,
           NEW e \in targets, Continue(s, e, targets)
    PROVE  /\ stopped' \in [Rooms -> BOOLEAN]
           /\ left' \subseteq Executions
           /\ now' = <<>> \/ now'[1] \in Signals
<1>1. stopped' \in [Rooms -> BOOLEAN]
  <2>1. stopped \in [Rooms -> BOOLEAN] BY DEF IInv, ControlsTypeOK
  <2>2. stopped' = stopped \/ stopped' = [stopped EXCEPT ![e.room] = (s.mode = "stop")]
    BY DEF Continue, Apply
  <2>3. (s.mode = "stop") \in BOOLEAN OBVIOUS
  <2> QED BY <2>1, <2>2, <2>3
<1>2. left' \subseteq Executions BY DEF Continue
<1>3. now' = <<>> \/ now' = <<s>> BY DEF Continue
<1> QED BY <1>1, <1>2, <1>3

LEMMA InitIInv == Init => IInv
<1> SUFFICES ASSUME Init PROVE IInv OBVIOUS
<1>1. Window \in Nat \ {0} /\ MaxRoutes \in Nat BY ControlsAssumption
<1>2. seen = <<>> /\ recorded = <<>> /\ DOMAIN seen = {} /\ DOMAIN recorded = {}
      /\ Len(seen) = 0 /\ Len(recorded) = 0
  BY DEF Init
<1>3. SeenIsRecent BY <1>1, <1>2 DEF SeenIsRecent
<1>4. NoReplayWithinWindow /\ UnreachedIsNotSeen /\ IsInjective(seen)
  BY <1>2 DEF NoReplayWithinWindow, UnreachedIsNotSeen, IsInjective
<1>5. ControlsTypeOK BY <1>1, <1>2, <1>4 DEF Init, ControlsTypeOK
<1>6. HookFits BY DEF Init, HookFits
<1> QED BY <1>3, <1>4, <1>5, <1>6 DEF IInv

\* A signal that is applied is remembered after it reached a room, and only then.
LEMMA HandleControlKeeps ==
    ASSUME IInv, HandleControl
    PROVE  IInv'
<1> DEFINE s == Head(lane)
           targets == ControlTargets(s)
<1>1. /\ lane \in Seq(Signals) /\ lane # <<>> /\ lane' = Tail(lane)
      /\ UNCHANGED <<signals, pushes, epoch, routed>>
  BY DEF IInv, HookFits, HandleControl
<1>2. s \in Signals /\ lane' \in Seq(Signals) BY <1>1
<1>3. targets \in SUBSET Executions BY TargetsExist
<1>4. s.cid \in Cids \cup {NoCid} BY <1>2 DEF Signals
<1> HIDE DEF s
<1>5. HookFits' BY <1>1, <1>2 DEF IInv, HookFits
<1>6. CASE UNCHANGED <<stopped, seen, left, now, recorded, reached, missed>>
  BY <1>1, <1>5, <1>6, MemoryKept DEF IInv, ControlsTypeOK, memory
<1>7. CASE /\ FirstSighting(s.cid)
           /\ IF s.cid = NoCid THEN UNCHANGED <<seen, recorded>>
              ELSE /\ seen' = Remembered(seen, s.cid)
                   /\ recorded' = Append(recorded, s.cid)
           /\ reached' = reached \cup {s.cid}
           /\ \E e \in targets : Continue(s, e, targets)
  <2>1. /\ stopped' \in [Rooms -> BOOLEAN] /\ left' \subseteq Executions
        /\ now' = <<>> \/ now'[1] \in Signals
    BY <1>2, <1>3, <1>7, ContinueTyped
  <2>2. SeenIsRecent' /\ NoReplayWithinWindow' /\ UnreachedIsNotSeen'
    <3>1. CASE s.cid = NoCid
      <4>1. UNCHANGED <<seen, recorded>> /\ reached \subseteq reached' BY <1>7, <3>1
      <4> QED BY <4>1 DEF IInv, SeenIsRecent, NoReplayWithinWindow, UnreachedIsNotSeen
    <3>2. CASE s.cid \in Cids
      <4>0. s.cid # NoCid BY <3>2, ControlsAssumption
      <4>1. /\ seen' = Remembered(seen, s.cid) /\ recorded' = Append(recorded, s.cid)
            /\ \A i \in 1..Len(seen) : seen[i] # s.cid
        BY <1>7, <4>0 DEF FirstSighting, Contains
      <4>2. SeenIsRecent' BY <3>2, <4>1, RecordingKeepsRecent DEF IInv
      <4>3. NoReplayWithinWindow' BY <3>2, <4>1, RecordingKeepsWindow DEF IInv
      <4>4. \A i \in DOMAIN seen' : seen'[i] \in reached'
        <5>1. seen \in Seq(Cids) /\ Len(seen) <= Window /\ Window \in Nat \ {0}
          BY ControlsAssumption DEF IInv, SeenIsRecent
        <5>2. \A i \in 1..Len(seen) : seen[i] \in reached
          BY <5>1 DEF IInv, UnreachedIsNotSeen
        <5>3. CASE Len(seen) < Window
          <6>1. /\ seen' \in Seq(Cids) /\ Len(seen') = Len(seen) + 1
                /\ \A i \in 1..Len(seen) : seen'[i] = seen[i]
                /\ seen'[Len(seen) + 1] = s.cid
            BY <3>2, <4>1, <5>1, <5>3, RememberedShape
          <6>2. ASSUME NEW i \in 1..Len(seen') PROVE seen'[i] \in reached'
            <7>1. i \in 1..Len(seen) \/ i = Len(seen) + 1 BY <5>1, <6>1
            <7> QED BY <1>7, <5>2, <6>1, <7>1
          <6> QED BY <6>1, <6>2
        <5>4. CASE Len(seen) = Window
          <6>1. /\ seen' \in Seq(Cids) /\ Len(seen') = Window
                /\ \A i \in 1..(Window - 1) : seen'[i] = seen[i + 1]
                /\ seen'[Window] = s.cid
            BY <3>2, <4>1, <5>1, <5>4, RememberedShape, ZenonT(30)
          <6>2. ASSUME NEW i \in 1..Window PROVE seen'[i] \in reached'
            <7>1. (i \in 1..(Window - 1) /\ i + 1 \in 1..Len(seen)) \/ i = Window
              BY <5>1, <5>4
            <7> QED BY <1>7, <5>2, <6>1, <7>1
          <6> QED BY <6>1, <6>2
        <5>5. Len(seen) < Window \/ Len(seen) = Window BY <5>1
        <5> QED BY <5>3, <5>4, <5>5
      <4> QED BY <4>2, <4>3, <4>4 DEF UnreachedIsNotSeen
    <3> QED BY <1>4, <3>1, <3>2
  <2>3. IsInjective(seen') /\ Len(seen') <= Window
    <3>1. SeenIsRecent' /\ NoReplayWithinWindow' => IsInjective(seen)'
      BY RecentIsInjective, PTL
    <3> QED BY <2>2, <3>1 DEF SeenIsRecent, IsInjective
  <2> QED BY <1>1, <1>5, <2>1, <2>2, <2>3 DEF IInv, ControlsTypeOK
<1> QED BY <1>6, <1>7 DEF HandleControl, s

\* Every step keeps the inductive invariant.
LEMMA NextIInv == IInv /\ [Next]_vars => IInv'
<1> SUFFICES ASSUME IInv, [Next]_vars PROVE IInv' OBVIOUS
<1> USE DEF IInv, ControlsTypeOK, HookFits, memory
<1>1. CASE HandleControl BY <1>1, HandleControlKeeps
<1>2. CASE FanOut
  <2>1. PICK e \in left : Continue(now[1], e, left) BY <1>2 DEF FanOut
  <2>2. now[1] \in Signals /\ left \in SUBSET Executions BY <1>2 DEF FanOut
  <2>3. /\ stopped' \in [Rooms -> BOOLEAN] /\ left' \subseteq Executions
        /\ now' = <<>> \/ now'[1] \in Signals
    BY <2>1, <2>2, ContinueTyped
  <2> QED BY <1>2, <2>3, MemoryKept DEF FanOut
<1>3. CASE Push
  <2>1. PICK s \in Signals : signals' = signals \cup {s} /\ lane' = Append(lane, s)
    BY <1>3 DEF Push
  <2>2. lane' \in Seq(Signals) /\ signals' \subseteq Signals BY <2>1
  <2> QED BY <1>3, <2>2, MemoryKept DEF Push
<1>4. CASE CancelLane BY <1>4, MemoryKept DEF CancelLane
<1>5. ASSUME NEW r \in Rooms, Route(r) PROVE IInv'
  <2>1. /\ epoch' = [epoch EXCEPT ![r] = @ + 1] /\ epoch[r] < MaxRoutes
        /\ routed' = routed \cup {r} /\ stopped' = [stopped EXCEPT ![r] = FALSE]
    BY <1>5 DEF Route
  <2>2. MaxRoutes \in Nat BY ControlsAssumption
  <2>3. epoch[r] + 1 \in 1..MaxRoutes BY <2>1, <2>2
  <2>4. epoch' \in [Rooms -> 0..MaxRoutes] /\ stopped' \in [Rooms -> BOOLEAN]
        /\ routed' \subseteq Rooms /\ \A q \in routed' : epoch'[q] >= 1
    BY <2>1, <2>3
  <2> QED BY <1>5, <2>4, MemoryKept DEF Route
<1>6. ASSUME NEW r \in Rooms, Release(r) PROVE IInv'
  BY <1>6, MemoryKept DEF Release
<1>7. CASE UNCHANGED vars BY <1>7, MemoryKept DEF vars
<1> QED BY <1>1, <1>2, <1>3, <1>4, <1>5, <1>6, <1>7 DEF Next

\* IInv holds in every reachable state; with it the types, that the deduplicator never
\* holds more than its window and that no id is in it twice.
THEOREM Inductive == Spec => []IInv
BY InitIInv, NextIInv, PTL DEF Spec

\* A copy of a control signal takes effect only after more than a window of other ids
\* was recorded in between, whatever rooms come and go, adapters fail or the lane is
\* cancelled (ControlDeduplicator.first_sighting).
THEOREM CopiesHarmless == Spec => []NoReplayWithinWindow
<1>1. IInv => NoReplayWithinWindow BY DEF IInv
<1> QED BY <1>1, Inductive, PTL

\* Only a signal that reached a room is remembered, so a copy of one that reached none
\* still applies (handle_control).
THEOREM OnlyReachedSeen == Spec => []UnreachedIsNotSeen
<1>1. IInv => UnreachedIsNotSeen BY DEF IInv
<1> QED BY <1>1, Inductive, PTL
=============================================================================
