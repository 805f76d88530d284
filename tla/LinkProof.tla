----------------------------- MODULE LinkProof -----------------------------
(***************************************************************************)
(* Proofs about Link, for every number of sessions, attempts, controls and *)
(* events and every queue capacity.  LinkInv is inductive: VerdictFits and  *)
(* CallsFit say what the session may still do and what connect() and        *)
(* disconnect() may rely on at each await, LaneFits and AppliedFits why a   *)
(* control whose predecessor is done overtakes only cancelled ones.         *)
(***************************************************************************)
EXTENDS Link, SequenceTheorems, TLAPS

-----------------------------------------------------------------------------
(* Values *)

\* The lane without its i-th task.
LEMMA RemovedTask ==
    ASSUME NEW S, NEW s \in Seq(S), NEW i \in 1..Len(s)
    PROVE  /\ RemoveAt(s, i) \in Seq(S)
           /\ Len(RemoveAt(s, i)) = Len(s) - 1
           /\ \A k \in 1..(Len(s) - 1) :
                RemoveAt(s, i)[k] = IF k < i THEN s[k] ELSE s[k + 1]
<1> DEFINE a == SubSeq(s, 1, i - 1)
           b == SubSeq(s, i + 1, Len(s))
<1>0. Len(s) \in Nat /\ i \in Int /\ \A k \in 1..Len(s) : s[k] \in S
  BY LenProperties, ElementOfSeq
<1>1. /\ a \in Seq(S) /\ Len(a) = i - 1
      /\ \A k \in 1..(i - 1) : a[k] = s[k]
  <2>1. \A k \in 1..(i - 1) : s[k] \in S BY <1>0
  <2>2. /\ a \in Seq(S) /\ Len(a) = IF 1 <= i - 1 THEN (i - 1) - 1 + 1 ELSE 0
        /\ \A k \in 1..((i - 1) - 1 + 1) : a[k] = s[1 + k - 1]
    BY <1>0, <2>1, SubSeqProperties
  <2>3. \A k \in 1..(i - 1) : k \in 1..((i - 1) - 1 + 1) /\ 1 + k - 1 = k BY <1>0
  <2> HIDE DEF a
  <2> QED BY <1>0, <2>2, <2>3
<1>2. /\ b \in Seq(S) /\ Len(b) = Len(s) - i
      /\ \A k \in 1..(Len(s) - i) : b[k] = s[k + i]
  <2>1. \A k \in (i + 1)..Len(s) : s[k] \in S BY <1>0
  <2>2. /\ b \in Seq(S)
        /\ Len(b) = IF i + 1 <= Len(s) THEN Len(s) - (i + 1) + 1 ELSE 0
        /\ \A k \in 1..(Len(s) - (i + 1) + 1) : b[k] = s[(i + 1) + k - 1]
    BY <1>0, <2>1, SubSeqProperties
  <2>3. \A k \in 1..(Len(s) - i) : /\ k \in 1..(Len(s) - (i + 1) + 1)
                                   /\ (i + 1) + k - 1 = k + i
    BY <1>0
  <2> HIDE DEF b
  <2> QED BY <1>0, <2>2, <2>3
<1> HIDE DEF a, b
<1>3. /\ a \o b \in Seq(S) /\ Len(a \o b) = Len(a) + Len(b)
      /\ \A k \in 1..(Len(a) + Len(b)) :
            (a \o b)[k] = IF k <= Len(a) THEN a[k] ELSE b[k - Len(a)]
  BY <1>1, <1>2, ConcatProperties
<1>4. RemoveAt(s, i) = a \o b BY DEF RemoveAt, a, b
<1>5. ASSUME NEW k \in 1..(Len(s) - 1)
      PROVE  (a \o b)[k] = IF k < i THEN s[k] ELSE s[k + 1]
  <2>0. k \in 1..(Len(a) + Len(b)) BY <1>0, <1>1, <1>2
  <2>1. CASE k < i BY <1>0, <1>1, <1>3, <2>0, <2>1
  <2>2. CASE ~(k < i)
    <3>1. (a \o b)[k] = b[k - Len(a)] BY <1>0, <1>1, <1>3, <2>0, <2>2
    <3>2. k - Len(a) \in 1..(Len(s) - i) /\ (k - Len(a)) + i = k + 1 BY <1>0, <1>1, <2>2
    <3>3. b[k - Len(a)] = s[k + 1] BY <1>2, <3>2
    <3> QED BY <2>2, <3>1, <3>3
  <2> QED BY <2>1, <2>2
<1> QED BY <1>0, <1>1, <1>2, <1>3, <1>4, <1>5

\* What the queue holds after an event was offered to it.
LEMMA QueuedEvent ==
    ASSUME NEW q \in Seq(Events), Len(q) <= Capacity, NEW kind \in Kinds,
           NEW sess \in 0..MaxSessions
    PROVE  /\ Queued(q, kind, sess) \in Seq(Events)
           /\ Len(Queued(q, kind, sess)) <= Capacity
           /\ \A i \in DOMAIN Queued(q, kind, sess) :
                \/ Queued(q, kind, sess)[i].sess = sess
                \/ \E j \in DOMAIN q : Queued(q, kind, sess)[i] = q[j]
<1> DEFINE e == [kind |-> kind, sess |-> sess]
<1>0. e \in Events /\ e.sess = sess BY DEF Events
<1>1. Len(q) \in Nat /\ DOMAIN q = 1..Len(q) /\ Capacity \in Nat
  BY LenProperties, LinkAssumption
<1> HIDE DEF e
<1>2. CASE Len(q) < Capacity
  <2>1. Queued(q, kind, sess) = Append(q, e) BY <1>2 DEF Queued, e
  <2>2. /\ Append(q, e) \in Seq(Events) /\ Len(Append(q, e)) = Len(q) + 1
        /\ \A i \in 1..Len(q) : Append(q, e)[i] = q[i]
        /\ Append(q, e)[Len(q) + 1] = e
    BY <1>0, AppendProperties
  <2>3. DOMAIN Append(q, e) = 1..(Len(q) + 1) BY <2>2, LenProperties
  <2>4. \A i \in 1..(Len(q) + 1) : i \in 1..Len(q) \/ i = Len(q) + 1 BY <1>1
  <2> QED BY <1>0, <1>1, <1>2, <2>1, <2>2, <2>3, <2>4
<1>3. CASE ~(Len(q) < Capacity) BY <1>3, <1>1 DEF Queued
<1> QED BY <1>2, <1>3

LEMMA TailEvents ==
    ASSUME NEW q \in Seq(Events), q # <<>>, Len(q) <= Capacity
    PROVE  /\ Tail(q) \in Seq(Events) /\ Len(Tail(q)) <= Capacity
           /\ \A i \in DOMAIN Tail(q) : \E j \in DOMAIN q : Tail(q)[i] = q[j]
<1>1. /\ Tail(q) \in Seq(Events) /\ Len(Tail(q)) = Len(q) - 1
      /\ \A i \in 1..Len(Tail(q)) : Tail(q)[i] = q[i + 1]
  BY HeadTailProperties
<1>2. /\ Len(q) \in Nat /\ DOMAIN q = 1..Len(q) /\ Capacity \in Nat
      /\ DOMAIN Tail(q) = 1..Len(Tail(q))
  BY <1>1, LenProperties, LinkAssumption
<1>3. \A i \in 1..Len(Tail(q)) : i + 1 \in 1..Len(q) BY <1>1, <1>2
<1> QED BY <1>1, <1>2, <1>3

-----------------------------------------------------------------------------
(* The control lane *)

LEMMA LaneTyped ==
    ASSUME LinkTypeOK
    PROVE  /\ lane \in Seq(Tasks) /\ Len(lane) \in Nat /\ DOMAIN lane = 1..Len(lane)
           /\ \A i \in DOMAIN lane : /\ lane[i] \in Tasks /\ lane[i].id \in Nat
                                     /\ lane[i].prev \in Nat
                                     /\ lane[i].id \in 1..MaxControls
           /\ applied \in Seq(1..MaxControls) /\ Len(applied) \in Nat
           /\ DOMAIN applied = 1..Len(applied)
           /\ \A i \in DOMAIN applied : applied[i] \in 1..MaxControls /\ applied[i] \in Nat
           /\ used.controls \in 0..MaxControls /\ used.controls \in Nat /\ MaxControls \in Nat
<1>1. /\ lane \in Seq(Tasks) /\ applied \in Seq(1..MaxControls)
      /\ used.controls \in 0..MaxControls /\ MaxControls \in Nat
  BY LinkAssumption DEF LinkTypeOK
<1>2. /\ Len(lane) \in Nat /\ DOMAIN lane = 1..Len(lane)
      /\ Len(applied) \in Nat /\ DOMAIN applied = 1..Len(applied)
  BY <1>1, LenProperties
<1>3. \A i \in DOMAIN lane : lane[i] \in Tasks BY <1>1, <1>2, ElementOfSeq
<1>4. \A i \in DOMAIN lane : lane[i].id \in 1..MaxControls /\ lane[i].prev \in 0..MaxControls
  BY <1>3, SMT DEF Tasks
<1>5. \A i \in DOMAIN applied : applied[i] \in 1..MaxControls BY <1>1, <1>2, ElementOfSeq
<1> QED BY <1>1, <1>2, <1>3, <1>4, <1>5

LEMMA LaneKept ==
    ASSUME LaneFits, AppliedFits, lane' = lane, applied' = applied,
           used'.controls = used.controls
    PROVE  LaneFits' /\ AppliedFits'
BY DEF LaneFits, AppliedFits, Ids

\* Every task of the lane is cancelled.
LEMMA CancelLaneStep ==
    ASSUME LinkTypeOK, LaneFits, AppliedFits, CancelLane, UNCHANGED <<applied, used>>
    PROVE  /\ lane' \in Seq(Tasks) /\ waitFor' \subseteq 1..MaxControls
           /\ LaneFits' /\ AppliedFits'
<1> DEFINE c(i) == [lane[i] EXCEPT !.cancelled = TRUE]
<1>1. \A i \in DOMAIN lane : /\ c(i) \in Tasks /\ c(i).id = lane[i].id
                             /\ c(i).st = lane[i].st /\ c(i).prev = lane[i].prev
                             /\ c(i).cancelled = TRUE
  <2> SUFFICES ASSUME NEW i \in DOMAIN lane
               PROVE  /\ c(i) \in Tasks /\ c(i).id = lane[i].id
                      /\ c(i).st = lane[i].st /\ c(i).prev = lane[i].prev
                      /\ c(i).cancelled = TRUE
    OBVIOUS
  <2>1. lane[i] \in Tasks BY LaneTyped
  <2>2. c(i) \in Tasks BY <2>1, Zenon DEF Tasks
  <2> QED BY <2>1, <2>2, SMT DEF Tasks
<1>2. lane' = [i \in DOMAIN lane |-> c(i)] BY DEF CancelLane
<1> HIDE DEF c
<1>3. DOMAIN lane' = DOMAIN lane /\ \A i \in DOMAIN lane : lane'[i] = c(i) BY <1>2
<1>4. lane' \in Seq(Tasks)
  <2>1. DOMAIN lane = 1..Len(lane) /\ Len(lane) \in Nat BY LaneTyped
  <2>2. lane' \in [1..Len(lane) -> Tasks] BY <1>1, <1>2, <2>1
  <2> QED BY <2>1, <2>2, SeqDef
<1>5. Ids(lane)' = Ids(lane) BY <1>1, <1>3 DEF Ids
<1>6. waitFor' \subseteq 1..MaxControls BY LaneTyped DEF CancelLane, Ids
<1>7. LaneFits' BY <1>1, <1>3, <1>5, SMT DEF LaneFits
<1>8. AppliedFits' BY <1>1, <1>3, SMT DEF AppliedFits
<1> QED BY <1>4, <1>6, <1>7, <1>8

\* A new signal is ordered after the last one in the lane.
LEMMA OnControlStep ==
    ASSUME LinkTypeOK, LaneFits, AppliedFits, OnControl
    PROVE  /\ lane' \in Seq(Tasks) /\ used' \in [attempts : 0..MaxAttempts,
                                 controls : 0..MaxControls, events : 0..MaxEvents]
           /\ LaneFits' /\ AppliedFits'
<1> DEFINE n == used.controls + 1
           p == IF lane = <<>> THEN 0 ELSE Last(lane).id
           e == [id |-> n, st |-> "waiting", cancelled |-> FALSE, prev |-> p]
           N == Len(lane) + 1
<1>0. used \in [attempts : 0..MaxAttempts, controls : 0..MaxControls, events : 0..MaxEvents]
  BY DEF LinkTypeOK
<1>1. /\ used.controls < MaxControls /\ applied' = applied
      /\ used' = [used EXCEPT !.controls = n]
  BY Zenon DEF OnControl
<1>2. n \in 1..MaxControls /\ n \in Nat BY <1>1, LaneTyped
<1>3. used'.controls = n /\ used' \in [attempts : 0..MaxAttempts,
                                 controls : 0..MaxControls, events : 0..MaxEvents]
  BY <1>0, <1>1, <1>2, SMT
<1>4. p \in 0..MaxControls /\ p < n /\ \A i \in DOMAIN lane : lane[i].id <= p
  <2>1. CASE lane = <<>>
    <3>1. p = 0 /\ DOMAIN lane = {} BY <2>1
    <3> QED BY <1>2, <3>1, LaneTyped
  <2>2. CASE lane # <<>>
    <3>1. Len(lane) \in DOMAIN lane BY <2>2, LaneTyped, EmptySeq
    <3>2. p = lane[Len(lane)].id BY <2>2 DEF Last
    <3>3. lane[Len(lane)].id <= used.controls BY <3>1 DEF LaneFits
    <3>4. \A i \in DOMAIN lane : i = Len(lane) \/ i < Len(lane) BY LaneTyped
    <3>5. \A i \in DOMAIN lane : i < Len(lane) => lane[i].id < lane[Len(lane)].id
      BY <3>1 DEF LaneFits
    <3>6. /\ lane[Len(lane)].id \in 1..MaxControls /\ used.controls \in Nat
          /\ \A i \in DOMAIN lane : lane[i].id \in Nat
      BY <3>1, LaneTyped
    <3>7. \A i \in DOMAIN lane : lane[i].id <= lane[Len(lane)].id BY <3>4, <3>5, <3>6
    <3>8. lane[Len(lane)].id < n /\ lane[Len(lane)].id \in 0..MaxControls BY <3>3, <3>6
    <3> HIDE DEF p, n
    <3> QED BY <3>2, <3>7, <3>8
  <2> QED BY <2>1, <2>2
<1>5. lane' = Append(lane, e)
  <2>1. used'.controls = n BY <1>3
  <2> QED BY <2>1, Zenon DEF OnControl
<1> HIDE DEF n, p
<1>6. /\ e \in Tasks /\ e.id = n /\ e.st = "waiting" /\ e.cancelled = FALSE /\ e.prev = p
  BY <1>2, <1>4, SMT DEF Tasks
<1> HIDE DEF e
<1>7. /\ lane' \in Seq(Tasks) /\ DOMAIN lane' = 1..N
      /\ \A i \in 1..Len(lane) : lane'[i] = lane[i]
      /\ lane'[N] = e
  <2>1. /\ lane' \in Seq(Tasks) /\ Len(lane') = N
        /\ \A i \in 1..Len(lane) : lane'[i] = lane[i]
        /\ lane'[N] = e
    BY <1>5, <1>6, LaneTyped, AppendProperties
  <2> QED BY <2>1, LenProperties
<1>8. /\ DOMAIN lane = 1..Len(lane) /\ Len(lane) \in Nat
      /\ \A i \in 1..N : i \in DOMAIN lane \/ i = N
      /\ \A i, j \in 1..N : i < j => i \in DOMAIN lane /\ i < N
  <2>1. DOMAIN lane = 1..Len(lane) /\ Len(lane) \in Nat BY LaneTyped
  <2>2. N = Len(lane) + 1 OBVIOUS
  <2> HIDE DEF N
  <2>3. \A i \in 1..N : i \in 1..Len(lane) \/ i = N BY <2>1, <2>2
  <2>4. \A i, j \in 1..N : i < j => i \in 1..Len(lane) /\ i < N BY <2>1, <2>2
  <2> QED BY <2>1, <2>3, <2>4
<1>9. Ids(lane)' = Ids(lane) \cup {n}
  <2>1. \A i \in DOMAIN lane : i \in 1..N /\ lane'[i] = lane[i] BY <1>7, <1>8
  <2>2. N \in 1..N BY <1>8
  <2> QED BY <1>6, <1>7, <1>8, <2>1, <2>2 DEF Ids
<1> HIDE DEF N
<1>10. ASSUME NEW i \in DOMAIN lane'
       PROVE  /\ lane'[i].prev < lane'[i].id /\ lane'[i].id <= used'.controls
              /\ lane'[i].st = "running" => lane'[i].prev \notin Ids(lane)'
  <2>1. CASE i \in DOMAIN lane
    <3>1. lane'[i] = lane[i] BY <1>7, <1>8, <2>1
    <3>2. /\ lane[i].prev < lane[i].id /\ lane[i].id <= used.controls
          /\ lane[i].st = "running" => lane[i].prev \notin Ids(lane)
      BY <2>1 DEF LaneFits
    <3>3. lane[i].prev # n /\ lane[i].id <= n BY <2>1, <3>2, LaneTyped DEF n
    <3> QED BY <1>3, <1>9, <3>1, <3>2, <3>3
  <2>2. CASE i = N
    <3>1. n <= n BY <1>2
    <3> QED BY <1>3, <1>4, <1>6, <1>7, <2>2, <3>1
  <2> QED BY <1>7, <1>8, <2>1, <2>2
<1>11. ASSUME NEW i \in DOMAIN lane', NEW j \in DOMAIN lane', i < j
       PROVE  /\ lane'[i].id < lane'[j].id /\ lane'[i].id <= lane'[j].prev
              /\ lane'[j].cancelled => lane'[i].cancelled
              /\ lane'[j].prev \notin Ids(lane)' => lane'[i].cancelled
  <2>0. i \in DOMAIN lane /\ lane'[i] = lane[i] BY <1>7, <1>8, <1>11
  <2>1. CASE j \in DOMAIN lane
    <3>1. lane'[j] = lane[j] BY <1>7, <1>8, <2>1
    <3> QED BY <1>9, <1>11, <2>0, <2>1, <3>1 DEF LaneFits
  <2>2. CASE j = N
    <3>1. lane'[j] = e BY <1>7, <2>2
    <3>2. lane[i].id <= p /\ p < n /\ lane[i].id \in Nat /\ p \in Nat /\ n \in Nat
      BY <1>2, <1>4, <2>0, LaneTyped
    <3>3. lane # <<>> BY <2>0
    <3>4. p \in Ids(lane)
      <4>1. Len(lane) \in DOMAIN lane BY <3>3, LaneTyped, EmptySeq
      <4> QED BY <3>3, <4>1 DEF p, Last, Ids
    <3> QED BY <1>6, <1>9, <2>0, <3>1, <3>2, <3>4
  <2> QED BY <1>7, <1>8, <2>1, <2>2
<1>12. LaneFits' BY <1>10, <1>11 DEF LaneFits
<1>13. AppliedFits'
  <2>1. \A i \in DOMAIN applied : applied[i] <= n /\ applied[i] < n
    BY LaneTyped DEF AppliedFits, n
  <2>2. ASSUME NEW i \in DOMAIN applied, NEW j \in DOMAIN lane',
               lane'[j].st = "waiting", ~lane'[j].cancelled
        PROVE  applied[i] < lane'[j].id
    <3>1. CASE j \in DOMAIN lane
      <4>1. lane'[j] = lane[j] BY <1>7, <1>8, <3>1
      <4> QED BY <2>2, <3>1, <4>1 DEF AppliedFits
    <3>2. CASE j = N BY <1>6, <1>7, <2>1, <3>2
    <3> QED BY <1>7, <1>8, <3>1, <3>2
  <2>3. applied' = applied BY <1>1
  <2>4. \A i \in DOMAIN applied : applied[i] <= used'.controls BY <1>3, <2>1
  <2> QED BY <2>2, <2>3, <2>4 DEF AppliedFits
<1> QED BY <1>3, <1>7, <1>12, <1>13

\* The hook of a task whose predecessor is done starts: only cancelled tasks are before it.
LEMMA HookStartsStep ==
    ASSUME LinkTypeOK, LaneFits, AppliedFits, NEW i \in DOMAIN lane, HookStarts(i)
    PROVE  /\ lane' \in Seq(Tasks) /\ applied' \in Seq(1..MaxControls)
           /\ LaneFits' /\ AppliedFits'
<1> DEFINE e == [lane[i] EXCEPT !.st = "running"]
           N == Len(applied) + 1
<1>0. /\ lane[i].st = "waiting" /\ ~lane[i].cancelled
      /\ lane[i].prev \notin Ids(lane)
      /\ applied' = Append(applied, lane[i].id) /\ used' = used
  BY Zenon DEF HookStarts
<1>1. lane' = [lane EXCEPT ![i] = e] BY DEF HookStarts
<1>2. /\ e \in Tasks /\ e.id = lane[i].id /\ e.st = "running"
      /\ e.prev = lane[i].prev /\ e.cancelled = lane[i].cancelled
  <2>1. lane[i] \in Tasks BY LaneTyped
  <2>2. e \in Tasks BY <2>1, Zenon DEF Tasks
  <2> QED BY <2>1, <2>2, SMT DEF Tasks
<1> HIDE DEF e
<1>3. lane' \in Seq(Tasks) BY <1>1, <1>2, LaneTyped, ExceptSeq
<1>4. /\ DOMAIN lane' = DOMAIN lane
      /\ \A j \in DOMAIN lane : /\ lane'[j].id = lane[j].id /\ lane'[j].prev = lane[j].prev
                                /\ lane'[j].cancelled = lane[j].cancelled
                                /\ lane'[j].st = IF j = i THEN "running" ELSE lane[j].st
  <2>1. DOMAIN lane' = DOMAIN lane /\ lane'[i] = e
        /\ \A j \in DOMAIN lane : j # i => lane'[j] = lane[j]
    BY <1>1, LaneTyped
  <2> QED BY <1>2, <2>1
<1>5. Ids(lane)' = Ids(lane) BY <1>4 DEF Ids
<1>6. LaneFits'
  <2>1. ASSUME NEW j \in DOMAIN lane, lane'[j].st = "running"
        PROVE  lane'[j].prev \notin Ids(lane)
    BY <1>0, <1>4, <2>1 DEF LaneFits
  <2>2. \A j \in DOMAIN lane : lane'[j].prev < lane'[j].id /\ lane'[j].id <= used'.controls
    BY <1>0, <1>4 DEF LaneFits
  <2>3. \A j, k \in DOMAIN lane : j < k =>
          /\ lane'[j].id < lane'[k].id /\ lane'[j].id <= lane'[k].prev
          /\ lane'[k].cancelled => lane'[j].cancelled
          /\ lane'[k].prev \notin Ids(lane) => lane'[j].cancelled
    BY <1>4 DEF LaneFits
  <2> QED BY <1>4, <1>5, <2>1, <2>2, <2>3 DEF LaneFits
<1>7. /\ applied' \in Seq(1..MaxControls) /\ DOMAIN applied' = 1..N
      /\ \A k \in DOMAIN applied : applied'[k] = applied[k]
      /\ applied'[N] = lane[i].id
  <2>1. lane[i].id \in 1..MaxControls /\ applied \in Seq(1..MaxControls)
        /\ DOMAIN applied = 1..Len(applied)
    BY LaneTyped
  <2>2. /\ applied' \in Seq(1..MaxControls) /\ Len(applied') = N
        /\ \A k \in 1..Len(applied) : applied'[k] = applied[k]
        /\ applied'[N] = lane[i].id
    BY <1>0, <2>1, AppendProperties
  <2> QED BY <2>1, <2>2, LenProperties
<1>8. /\ \A k \in 1..N : k \in DOMAIN applied \/ k = N
      /\ \A k, l \in 1..N : k < l => k \in DOMAIN applied
  BY LaneTyped
<1> HIDE DEF N
<1>9. AppliedFits'
  <2>0. /\ lane[i].id <= used.controls
        /\ \A k \in DOMAIN applied : applied[k] <= used.controls /\ applied[k] < lane[i].id
    BY <1>0 DEF AppliedFits, LaneFits
  <2>1. \A k \in DOMAIN applied' : applied'[k] <= used'.controls
    BY <1>0, <1>7, <1>8, <2>0
  <2>2. ASSUME NEW k \in DOMAIN applied', NEW l \in DOMAIN applied', k < l
        PROVE  applied'[k] < applied'[l]
    <3>1. k \in DOMAIN applied BY <1>7, <1>8, <2>2
    <3>2. CASE l = N BY <1>7, <2>0, <3>1, <3>2
    <3>3. CASE l \in DOMAIN applied BY <1>7, <2>2, <3>1, <3>3 DEF AppliedFits
    <3> QED BY <1>7, <1>8, <3>2, <3>3
  <2>3. ASSUME NEW k \in DOMAIN applied', NEW j \in DOMAIN lane',
               lane'[j].st = "waiting", ~lane'[j].cancelled
        PROVE  applied'[k] < lane'[j].id
    <3>0. j \in DOMAIN lane /\ j # i /\ lane[j].st = "waiting" /\ ~lane[j].cancelled
      BY <1>4, <2>3
    <3>1. CASE k \in DOMAIN applied
      <4>1. applied[k] < lane[j].id BY <3>0, <3>1 DEF AppliedFits
      <4> QED BY <1>4, <1>7, <3>0, <3>1, <4>1
    <3>2. CASE k = N
      <4>1. ~(j < i) BY <1>0, <3>0 DEF LaneFits
      <4>2. i < j BY <3>0, <4>1, LaneTyped
      <4>3. lane[i].id < lane[j].id BY <3>0, <4>2 DEF LaneFits
      <4> QED BY <1>4, <1>7, <3>0, <3>2, <4>3
    <3> QED BY <1>7, <1>8, <3>1, <3>2
  <2> QED BY <2>1, <2>2, <2>3 DEF AppliedFits
<1> QED BY <1>3, <1>6, <1>7, <1>9

\* A task leaves the lane.  A running one had only cancelled ones before it, and so had a
\* cancelled one, so whoever waited for it may go.
LEMMA TaskEndsStep ==
    ASSUME LinkTypeOK, LaneFits, AppliedFits, NEW i \in DOMAIN lane, TaskEnds(i)
    PROVE  lane' \in Seq(Tasks) /\ LaneFits' /\ AppliedFits'
<1> DEFINE f(k) == IF k < i THEN k ELSE k + 1
<1>0. /\ lane[i].st = "running" \/ lane[i].cancelled
      /\ lane' = RemoveAt(lane, i) /\ UNCHANGED <<applied, used>>
  BY Zenon DEF TaskEnds
<1>1. /\ lane' \in Seq(Tasks) /\ DOMAIN lane' = 1..(Len(lane) - 1)
      /\ \A k \in DOMAIN lane' : lane'[k] = lane[f(k)]
  <2>1. /\ lane' \in Seq(Tasks) /\ Len(lane') = Len(lane) - 1
        /\ \A k \in 1..(Len(lane) - 1) : lane'[k] = IF k < i THEN lane[k] ELSE lane[k + 1]
    BY <1>0, LaneTyped, RemovedTask
  <2> QED BY <2>1, LenProperties
<1>2. /\ \A k \in DOMAIN lane' : f(k) \in DOMAIN lane /\ f(k) # i
      /\ \A j, k \in DOMAIN lane' : j < k => f(j) < f(k)
      /\ \A k \in DOMAIN lane : k = i \/ \E j \in DOMAIN lane' : k = f(j)
  <2>1. /\ Len(lane) \in Nat /\ DOMAIN lane = 1..Len(lane) /\ i \in 1..Len(lane)
        /\ DOMAIN lane' = 1..(Len(lane) - 1)
    BY <1>1, LaneTyped
  <2>2. ASSUME NEW k \in DOMAIN lane, k # i PROVE \E j \in DOMAIN lane' : k = f(j)
    <3>1. CASE k < i
      <4>1. k \in DOMAIN lane' /\ k = f(k) BY <2>1, <3>1
      <4> QED BY <4>1
    <3>2. CASE ~(k < i)
      <4>1. k - 1 \in DOMAIN lane' /\ k = f(k - 1) BY <2>1, <2>2, <3>2
      <4> QED BY <4>1
    <3> QED BY <3>1, <3>2
  <2>3. /\ \A k \in DOMAIN lane' : f(k) \in DOMAIN lane /\ f(k) # i
        /\ \A j, k \in DOMAIN lane' : j < k => f(j) < f(k)
    BY <2>1
  <2> QED BY <2>2, <2>3
<1> HIDE DEF f
<1>3. Ids(lane)' \subseteq Ids(lane) BY <1>1, <1>2 DEF Ids
<1>4. Ids(lane) \subseteq Ids(lane)' \cup {lane[i].id}
  <2>1. ASSUME NEW k \in DOMAIN lane PROVE lane[k].id \in Ids(lane)' \cup {lane[i].id}
    BY <1>1, <1>2 DEF Ids
  <2> QED BY <2>1 DEF Ids
<1>5. LaneFits'
  <2>1. ASSUME NEW k \in DOMAIN lane'
        PROVE  /\ lane'[k].prev < lane'[k].id /\ lane'[k].id <= used'.controls
               /\ lane'[k].st = "running" => lane'[k].prev \notin Ids(lane)'
    BY <1>0, <1>1, <1>2, <1>3 DEF LaneFits
  <2>2. ASSUME NEW j \in DOMAIN lane', NEW k \in DOMAIN lane', j < k
        PROVE  /\ lane'[j].id < lane'[k].id /\ lane'[j].id <= lane'[k].prev
               /\ lane'[k].cancelled => lane'[j].cancelled
               /\ lane'[k].prev \notin Ids(lane)' => lane'[j].cancelled
    <3> DEFINE a == f(j)
               b == f(k)
    <3>1. /\ a \in DOMAIN lane /\ b \in DOMAIN lane /\ a < b /\ a # i
          /\ lane'[j] = lane[a] /\ lane'[k] = lane[b]
      BY <1>1, <1>2, <2>2
    <3> HIDE DEF a, b
    <3>2. /\ lane[a].id < lane[b].id /\ lane[a].id <= lane[b].prev
          /\ lane[b].cancelled => lane[a].cancelled
          /\ lane[b].prev \notin Ids(lane) => lane[a].cancelled
      BY <3>1 DEF LaneFits
    <3>3. ASSUME lane[b].prev = lane[i].id PROVE lane[a].cancelled
      <4>1. a < i
        <5>1. ~(i < a)
          <6> SUFFICES ASSUME i < a PROVE FALSE OBVIOUS
          <6>1. lane[i].id < lane[a].id BY <3>1 DEF LaneFits
          <6> QED BY <3>1, <3>2, <3>3, <6>1, LaneTyped
        <5> QED BY <3>1, <5>1, LaneTyped
      <4>2. /\ lane[i].cancelled => lane[a].cancelled
            /\ lane[i].prev \notin Ids(lane) => lane[a].cancelled
            /\ lane[i].st = "running" => lane[i].prev \notin Ids(lane)
        BY <3>1, <4>1 DEF LaneFits
      <4> QED BY <1>0, <4>2
    <3> QED BY <1>4, <3>1, <3>2, <3>3
  <2> QED BY <2>1, <2>2 DEF LaneFits
<1>6. AppliedFits' BY <1>0, <1>1, <1>2 DEF AppliedFits
<1> QED BY <1>1, <1>5, <1>6

-----------------------------------------------------------------------------
(* The session: its verdict, connect() and disconnect() *)

\* What LinkTypeOK says of the records of the link.
LEMMA RecordsTyped ==
    ASSUME LinkTypeOK
    PROVE  /\ decider \in Deciders /\ link \in Links /\ cur \in 0..MaxSessions /\ cur \in Nat
           /\ decider.accepted \in BOOLEAN /\ decider.ended \in BOOLEAN
           /\ decider.terminal \in BOOLEAN /\ decider.decided \in BOOLEAN
           /\ link.ws \in 0..MaxSessions /\ link.reason \in 0..MaxSessions
           /\ link.connected \in BOOLEAN
           /\ queue \in Seq(Events) /\ Len(queue) <= Capacity
           /\ reports \in [Sessions -> Nat] /\ MaxSessions \in Nat
<1>1. /\ decider \in Deciders /\ link \in Links /\ cur \in 0..MaxSessions
      /\ queue \in Seq(Events) /\ Len(queue) <= Capacity
      /\ reports \in [Sessions -> Nat] /\ MaxSessions \in Nat
  BY LinkAssumption DEF LinkTypeOK
<1>2. /\ decider.accepted \in BOOLEAN /\ decider.ended \in BOOLEAN
      /\ decider.terminal \in BOOLEAN /\ decider.decided \in BOOLEAN
  BY <1>1, Zenon DEF Deciders
<1>3. /\ link.ws \in 0..MaxSessions /\ link.reason \in 0..MaxSessions
      /\ link.connected \in BOOLEAN
  BY <1>1, Zenon DEF Links
<1> QED BY <1>1, <1>2, <1>3

\* A step that leaves the session and connect() where they are.
LEMMA SessionFrame ==
    ASSUME LinkTypeOK, VerdictFits, CallsFit,
           UNCHANGED <<leftover, cur, decider, core, conn, link, reports>>,
           sup' \in {"attempting", "open"} => sup' = sup,
           sup = "off" => sup' = "off",
           rehook' = "running" => rehook = "running" \/ link.ws # 0,
           conn = "entering" => UNCHANGED <<ctl, shutdown>>,
           disc' # "idle" => link.ws # 0,
           QueueClean /\ link.ws = 0 => QueueClean'
    PROVE  VerdictFits' /\ CallsFit'
<1>1. VerdictFits' BY SMT DEF VerdictFits, Decided
<1>2. CallsFit'
  <2> HIDE DEF QueueClean
  <2> QED BY SMT DEF CallsFit
<1> QED BY <1>1, <1>2

LEMMA QueueCleanKept ==
    ASSUME QueueClean, leftover' = leftover, queue' = queue \/ queue' = <<>>
    PROVE  QueueClean'
BY DEF QueueClean

\* _end and _report: an accepted session is told of its first verdict only.
LEMMA VerdictEffect ==
    ASSUME LinkTypeOK, VerdictFits, cur # 0, NEW d \in Deciders,
           d.accepted = decider.accepted, d.ended = decider.ended,
           d.terminal = decider.terminal, EndWithVerdict(d), leftover' = leftover
    PROVE  /\ decider' \in Deciders /\ link' \in Links /\ reports' \in [Sessions -> Nat]
           /\ queue' \in Seq(Events) /\ Len(queue') <= Capacity
           /\ decider'.accepted = d.accepted /\ decider'.ended = d.ended
           /\ Decided => decider'.terminal = decider.terminal
           /\ decider'.accepted /\ decider'.terminal => link'.reason = cur
           /\ link'.reason # 0 => link'.reason = cur /\ decider'.terminal
           /\ \A s \in Sessions :
                /\ reports'[s] <= 1
                /\ s > cur \/ (s = cur /\ ~decider'.terminal) => reports'[s] = 0
           /\ link'.ws = link.ws
           /\ link'.connected => link.connected /\ link'.reason = link.reason
           /\ QueueClean /\ (~decider.accepted \/ Decided) => QueueClean'
<1>0. /\ link \in Links /\ reports \in [Sessions -> Nat] /\ cur \in Sessions /\ cur \in Nat
      /\ queue \in Seq(Events) /\ Len(queue) <= Capacity /\ cur \in 0..MaxSessions
      /\ d.accepted \in BOOLEAN /\ decider.terminal \in BOOLEAN
  BY RecordsTyped DEF Sessions
<1>1. CASE Decided
  <2>1. decider' = d /\ UNCHANGED <<link, queue, reports>> BY <1>1 DEF EndWithVerdict
  <2> QED BY <1>0, <1>1, <2>1, QueueCleanKept, SMT DEF VerdictFits
<1>2. CASE ~Decided
  <2>0. Report(d) /\ ~decider.terminal /\ ~d.terminal BY <1>2 DEF EndWithVerdict, Decided
  <2>1. decider' = [d EXCEPT !.terminal = TRUE] BY <2>0 DEF Report
  <2>2. decider' \in Deciders BY <2>1, Zenon DEF Deciders
  <2>3. decider'.accepted = d.accepted /\ decider'.ended = d.ended /\ decider'.terminal = TRUE
    BY <2>1, SMT DEF Deciders
  <2>4. \A s \in Sessions : reports[s] \in Nat /\ reports[s] <= 1
                            /\ (s > cur \/ s = cur => reports[s] = 0)
    BY <1>0, <2>0 DEF VerdictFits
  <2>5. link.reason = 0 BY <2>0 DEF VerdictFits
  <2>6. CASE d.accepted
    <3>1. /\ link' = [link EXCEPT !.reason = cur, !.connected = FALSE]
          /\ queue' = Queued(queue, "verdict", cur)
          /\ reports' = [reports EXCEPT ![cur] = reports[cur] + 1]
      BY <2>0, <2>6, Zenon DEF Report
    <3>2. link' \in Links BY <1>0, <3>1, Zenon DEF Links
    <3>3. link'.ws = link.ws /\ link'.reason = cur /\ link'.connected = FALSE
      BY <1>0, <3>1, SMT DEF Links
    <3>4. /\ reports' \in [Sessions -> Nat]
          /\ \A s \in Sessions : reports'[s] <= 1 /\ (s > cur => reports'[s] = 0)
      BY <1>0, <2>4, <3>1, SMT DEF Sessions
    <3>5. queue' \in Seq(Events) /\ Len(queue') <= Capacity
      BY <1>0, <3>1, QueuedEvent DEF Kinds
    <3> QED BY <1>2, <2>2, <2>3, <2>6, <3>2, <3>3, <3>4, <3>5
  <2>7. CASE ~d.accepted
    <3>1. UNCHANGED <<link, queue, reports>> BY <2>0, <2>7 DEF Report
    <3> QED BY <1>0, <1>2, <2>2, <2>3, <2>4, <2>5, <2>7, <3>1, QueueCleanKept
  <2> QED BY <1>0, <2>6, <2>7
<1> QED BY <1>1, <1>2

\* A session runs only inside connect() or behind a link that holds it.
LEMMA SessionRuns ==
    ASSUME LinkTypeOK, CallsFit, sup # "off"
    PROVE  cur # 0
BY RecordsTyped, SMT DEF CallsFit

LEMMA BeginAttemptStep ==
    ASSUME LinkTypeOK, VerdictFits, CallsFit, BeginAttempt
    PROVE  LinkTypeOK' /\ VerdictFits' /\ CallsFit'
<1>1. /\ sup \in {"start", "backoff"}
      /\ decider' = [decider EXCEPT !.superseded = FALSE]
      /\ UNCHANGED <<leftover, cur, ctl, conn, disc, link, queue, lane, waitFor, rehook,
                     shutdown, applied, reports>>
      /\ \/ core = "dead" /\ sup' = "stopped" /\ UNCHANGED <<core, used>>
         \/ /\ core # "dead" /\ core' = "attempting" /\ sup' = "attempting"
            /\ used.attempts < MaxAttempts
            /\ used' = [used EXCEPT !.attempts = used.attempts + 1]
  BY Zenon DEF BeginAttempt
<1>2. decider' \in Deciders BY <1>1, RecordsTyped, Zenon DEF Deciders
<1>3. /\ decider'.accepted = decider.accepted /\ decider'.ended = decider.ended
      /\ decider'.terminal = decider.terminal
  BY <1>1, RecordsTyped, SMT DEF Deciders
<1>4. used' \in [attempts : 0..MaxAttempts, controls : 0..MaxControls, events : 0..MaxEvents]
  <2>1. /\ used \in [attempts : 0..MaxAttempts, controls : 0..MaxControls,
                     events : 0..MaxEvents]
        /\ used.attempts \in 0..MaxAttempts
    BY SMT DEF LinkTypeOK
  <2>2. used.attempts < MaxAttempts => used.attempts + 1 \in 0..MaxAttempts
    BY <2>1, LinkAssumption
  <2> QED BY <1>1, <2>1, <2>2, Zenon
<1>5. LinkTypeOK' BY <1>1, <1>2, <1>4, SMT DEF LinkTypeOK
<1>6. VerdictFits' BY <1>1, <1>3, SMT DEF VerdictFits, Decided
<1>7. QueueClean => QueueClean' BY <1>1, QueueCleanKept
<1>8. CallsFit'
  <2> HIDE DEF QueueClean
  <2> QED BY <1>1, <1>3, <1>7, SMT DEF CallsFit
<1> QED BY <1>5, <1>6, <1>8

\* A step of the supervisor that ends in _end.
LEMMA EndedSession ==
    ASSUME LinkTypeOK, VerdictFits, CallsFit, NEW d \in Deciders,
           d.accepted = decider.accepted, d.ended = decider.ended,
           d.terminal = decider.terminal, EndWithVerdict(d), core' = "dead",
           sup \in {"attempting", "lost"}, sup' = "stopped",
           UNCHANGED <<leftover, cur, ctl, conn, disc, lane, waitFor, shutdown, used, applied>>,
           rehook' = rehook \/ rehook' = "none"
    PROVE  LinkTypeOK' /\ VerdictFits' /\ CallsFit'
<1>1. cur # 0 BY SessionRuns
<1> DEFINE Effect ==
           /\ decider' \in Deciders /\ link' \in Links /\ reports' \in [Sessions -> Nat]
           /\ queue' \in Seq(Events) /\ Len(queue') <= Capacity
           /\ decider'.accepted = d.accepted /\ decider'.ended = d.ended
           /\ decider'.accepted /\ decider'.terminal => link'.reason = cur
           /\ link'.reason # 0 => link'.reason = cur /\ decider'.terminal
           /\ \A s \in Sessions :
                /\ reports'[s] <= 1
                /\ s > cur \/ (s = cur /\ ~decider'.terminal) => reports'[s] = 0
           /\ link'.ws = link.ws
           /\ link'.connected => link.connected /\ link'.reason = link.reason
           /\ QueueClean /\ (~decider.accepted \/ Decided) => QueueClean'
<1>2. Effect BY <1>1, VerdictEffect
<1>3. LinkTypeOK' BY <1>2, SMT DEF LinkTypeOK
<1>4. VerdictFits' BY <1>2, SMT DEF VerdictFits
<1>5. CallsFit'
  <2> HIDE DEF QueueClean, Decided
  <2> QED BY <1>2, SMT DEF CallsFit
<1> QED BY <1>3, <1>4, <1>5

LEMMA AttemptConnectedStep ==
    ASSUME LinkTypeOK, VerdictFits, CallsFit, AttemptConnected
    PROVE  LinkTypeOK' /\ VerdictFits' /\ CallsFit'
<1>0. /\ sup = "attempting" /\ core \in {"attempting", "dead"}
      /\ UNCHANGED <<leftover, cur, conn, disc, lane, waitFor, shutdown, used, applied>>
  BY Zenon DEF AttemptConnected, VerdictFits
<1>1. CASE core = "attempting"
  <2>1. /\ decider' = [decider EXCEPT !.accepted = TRUE, !.decided = FALSE]
        /\ core' = "up" /\ sup' = "open"
        /\ rehook' = IF decider.accepted THEN "due" ELSE "none"
        /\ ctl' \in {ctl} \cup (IF ctl = "joined" THEN {"none"} ELSE {})
        /\ UNCHANGED <<link, queue, reports>>
    BY <1>1, Zenon DEF AttemptConnected
  <2>2. decider' \in Deciders BY <2>1, RecordsTyped, Zenon DEF Deciders
  <2>3. /\ decider'.accepted = TRUE /\ decider'.ended = decider.ended
        /\ decider'.terminal = decider.terminal
    BY <2>1, RecordsTyped, SMT DEF Deciders
  <2>4. ctl' \in {"none", ctl} /\ rehook' \in {"none", "due"} BY <2>1
  <2>5. LinkTypeOK' BY <1>0, <2>1, <2>2, <2>4, SMT DEF LinkTypeOK
  <2>6. ~decider.terminal /\ ~decider.ended BY <1>1 DEF VerdictFits, Decided
  <2>7. VerdictFits' BY <1>0, <2>1, <2>3, <2>6, SMT DEF VerdictFits, Decided
  <2>8. QueueClean => QueueClean' BY <1>0, <2>1, QueueCleanKept
  <2>9. CallsFit'
    <3> HIDE DEF QueueClean
    <3> QED BY <1>0, <2>1, <2>3, <2>4, <2>8, SMT DEF CallsFit
  <2> QED BY <2>5, <2>7, <2>9
<1>2. CASE core = "dead"
  <2> DEFINE d == [decider EXCEPT !.decided = FALSE]
  <2>1. /\ EndWithVerdict(d) /\ sup' = "stopped"
        /\ UNCHANGED <<core, rehook, ctl>>
    BY <1>2, Zenon DEF AttemptConnected
  <2>2. d \in Deciders BY RecordsTyped, Zenon DEF Deciders
  <2>3. d.accepted = decider.accepted /\ d.ended = decider.ended /\ d.terminal = decider.terminal
    BY RecordsTyped, SMT DEF Deciders
  <2> HIDE DEF d
  <2> QED BY <1>0, <1>2, <2>1, <2>2, <2>3, EndedSession
<1> QED BY <1>0, <1>1, <1>2

LEMMA AttemptFailsStep ==
    ASSUME LinkTypeOK, VerdictFits, CallsFit, AttemptFails
    PROVE  LinkTypeOK' /\ VerdictFits' /\ CallsFit'
<1>0. /\ sup = "attempting"
      /\ UNCHANGED <<leftover, cur, ctl, conn, disc, lane, waitFor, rehook, shutdown, used, applied>>
  BY Zenon DEF AttemptFails
<1>1. CASE /\ core # "dead" /\ core' = "backoff" /\ sup' = "backoff"
           /\ UNCHANGED <<decider, link, queue, reports>>
  <2>1. LinkTypeOK' BY <1>0, <1>1, SMT DEF LinkTypeOK
  <2>2. VerdictFits' BY <1>0, <1>1, SMT DEF VerdictFits, Decided
  <2>3. QueueClean => QueueClean' BY <1>0, <1>1, QueueCleanKept
  <2>4. CallsFit'
    <3> HIDE DEF QueueClean
    <3> QED BY <1>0, <1>1, <2>3, SMT DEF CallsFit
  <2> QED BY <2>1, <2>2, <2>4
<1>2. CASE core' = "dead" /\ sup' = "stopped" /\ EndWithVerdict(decider)
  BY <1>0, <1>2, RecordsTyped, EndedSession
<1> QED BY <1>1, <1>2, Zenon DEF AttemptFails

LEMMA DecideDisconnectedStep ==
    ASSUME LinkTypeOK, VerdictFits, CallsFit, DecideDisconnected
    PROVE  LinkTypeOK' /\ VerdictFits' /\ CallsFit'
<1> DEFINE d == [decider EXCEPT !.decided = TRUE]
<1>0. /\ sup = "lost" /\ rehook' = "none"
      /\ UNCHANGED <<leftover, cur, ctl, conn, disc, lane, waitFor, shutdown, used, applied>>
  BY Zenon DEF DecideDisconnected
<1>1. d \in Deciders BY RecordsTyped, Zenon DEF Deciders
<1>2. d.accepted = decider.accepted /\ d.ended = decider.ended /\ d.terminal = decider.terminal
  BY RecordsTyped, SMT DEF Deciders
<1>3. \/ /\ sup' = "backoff" /\ core' = IF core = "dead" THEN "dead" ELSE "backoff"
         /\ decider' = d /\ UNCHANGED <<link, queue, reports>>
      \/ core' = "dead" /\ sup' = "stopped" /\ EndWithVerdict(d)
  BY Zenon DEF DecideDisconnected
<1> HIDE DEF d
<1>4. CASE /\ sup' = "backoff" /\ core' = IF core = "dead" THEN "dead" ELSE "backoff"
           /\ decider' = d /\ UNCHANGED <<link, queue, reports>>
  <2>1. LinkTypeOK' BY <1>0, <1>1, <1>4, SMT DEF LinkTypeOK
  <2>2. VerdictFits' BY <1>0, <1>2, <1>4, SMT DEF VerdictFits, Decided
  <2>3. QueueClean => QueueClean' BY <1>0, <1>4, QueueCleanKept
  <2>4. CallsFit'
    <3> HIDE DEF QueueClean
    <3> QED BY <1>0, <1>2, <1>4, <2>3, SMT DEF CallsFit
  <2> QED BY <2>1, <2>2, <2>4
<1>5. CASE core' = "dead" /\ sup' = "stopped" /\ EndWithVerdict(d)
  BY <1>0, <1>1, <1>2, <1>5, EndedSession
<1> QED BY <1>3, <1>4, <1>5

LEMMA SupersedeStep ==
    ASSUME LinkTypeOK, VerdictFits, CallsFit, Supersede
    PROVE  LinkTypeOK' /\ VerdictFits' /\ CallsFit'
<1>0. /\ ctl = "joined" /\ sup # "off" /\ core = "up" /\ ~Decided /\ cur # 0
      /\ UNCHANGED <<leftover, cur, ctl, conn, disc, lane, waitFor, rehook, used, applied>>
  BY SessionRuns, Zenon DEF Supersede, VerdictFits
<1>1. conn \notin {"entering", "rollbackUnaccepted"} BY <1>0 DEF CallsFit, Decided
<1>2. CASE Report(decider) /\ core' = "dead" /\ shutdown' = TRUE /\ sup' = sup
  <2> DEFINE Effect ==
             /\ decider' \in Deciders /\ link' \in Links /\ reports' \in [Sessions -> Nat]
             /\ queue' \in Seq(Events) /\ Len(queue') <= Capacity
             /\ decider'.accepted = decider.accepted /\ decider'.ended = decider.ended
             /\ decider'.accepted /\ decider'.terminal => link'.reason = cur
             /\ link'.reason # 0 => link'.reason = cur /\ decider'.terminal
             /\ \A s \in Sessions :
                  /\ reports'[s] <= 1
                  /\ s > cur \/ (s = cur /\ ~decider'.terminal) => reports'[s] = 0
             /\ link'.ws = link.ws
             /\ link'.connected => link.connected /\ link'.reason = link.reason
  <2>1. EndWithVerdict(decider) BY <1>0, <1>2 DEF EndWithVerdict
  <2>2. Effect BY <1>0, <2>1, RecordsTyped, VerdictEffect
  <2>3. LinkTypeOK' BY <1>0, <1>2, <2>2, SMT DEF LinkTypeOK
  <2>4. VerdictFits' BY <1>0, <1>2, <2>2, SMT DEF VerdictFits
  <2>5. CallsFit'
    <3> HIDE DEF QueueClean
    <3> QED BY <1>0, <1>1, <1>2, <2>2, SMT DEF CallsFit
  <2> QED BY <2>3, <2>4, <2>5
<1>3. CASE /\ decider' = [decider EXCEPT !.superseded = TRUE]
           /\ core' = "backoff" /\ sup' = IF sup = "open" THEN "lost" ELSE sup
           /\ UNCHANGED <<link, queue, reports, shutdown>>
  <2>1. decider' \in Deciders BY <1>3, RecordsTyped, Zenon DEF Deciders
  <2>2. /\ decider'.accepted = decider.accepted /\ decider'.ended = decider.ended
        /\ decider'.terminal = decider.terminal
    BY <1>3, RecordsTyped, SMT DEF Deciders
  <2>3. LinkTypeOK' BY <1>0, <1>3, <2>1, SMT DEF LinkTypeOK
  <2>4. VerdictFits' BY <1>0, <1>3, <2>2, SMT DEF VerdictFits, Decided
  <2>5. QueueClean => QueueClean' BY <1>0, <1>3, QueueCleanKept
  <2>6. CallsFit'
    <3> HIDE DEF QueueClean
    <3> QED BY <1>0, <1>1, <1>3, <2>2, <2>5, SMT DEF CallsFit
  <2> QED BY <2>3, <2>4, <2>6
<1> QED BY <1>2, <1>3, Zenon DEF Supersede

-----------------------------------------------------------------------------
(* connect() *)

\* end() is local: it marks the session, and reports nothing.
LEMMA EndedDecider ==
    ASSUME LinkTypeOK, decider' = Ended(decider)
    PROVE  /\ decider' \in Deciders /\ decider'.accepted = decider.accepted
           /\ decider'.ended = TRUE /\ decider'.terminal = decider.terminal
<1>1. decider' = [decider EXCEPT !.ended = TRUE, !.decided = TRUE] BY DEF Ended
<1>2. decider' \in Deciders BY <1>1, RecordsTyped, Zenon DEF Deciders
<1> QED BY <1>1, <1>2, RecordsTyped, SMT DEF Deciders

\* The verdict, if there is one, is copied to the link.
LEMMA ReasonCopied ==
    ASSUME LinkTypeOK, link' = [link EXCEPT !.reason = IF decider.terminal THEN cur ELSE @]
    PROVE  /\ link' \in Links /\ link'.ws = link.ws /\ link'.connected = link.connected
           /\ link'.reason = IF decider.terminal THEN cur ELSE link.reason
<1> DEFINE v == IF decider.terminal THEN cur ELSE link.reason
<1>1. v \in 0..MaxSessions BY RecordsTyped
<1>2. link' = [link EXCEPT !.reason = v] BY Zenon
<1> HIDE DEF v
<1>3. link' \in Links BY <1>1, <1>2, RecordsTyped, Zenon DEF Links
<1>4. link'.ws = link.ws /\ link'.connected = link.connected /\ link'.reason = v
  BY <1>2, RecordsTyped, SMT DEF Links
<1> QED BY <1>3, <1>4 DEF v

LEMMA ConnectStartStep ==
    ASSUME LinkTypeOK, VerdictFits, CallsFit, ConnectStart
    PROVE  LinkTypeOK' /\ VerdictFits' /\ CallsFit'
<1>0. /\ conn = "idle" /\ link.ws = 0 /\ cur < MaxSessions
      /\ cur' = cur + 1 /\ decider' = FreshDecider /\ core' = "idle"
      /\ sup' = "start" /\ ctl' = "none" /\ rehook' = "none" /\ shutdown' = FALSE
      /\ link' = [link EXCEPT !.reason = 0]
      /\ conn' = "entering"
      /\ UNCHANGED <<leftover, disc, queue, lane, waitFor, used, applied, reports>>
  BY Zenon DEF ConnectStart
<1>1. decider' \in Deciders BY <1>0, Zenon DEF Deciders, FreshDecider
<1>2. ~decider'.accepted /\ ~decider'.ended /\ ~decider'.terminal
  BY <1>0, SMT DEF FreshDecider
<1>3. link' \in Links
  <2>1. 0 \in 0..MaxSessions BY RecordsTyped
  <2> QED BY <1>0, <2>1, RecordsTyped, Zenon DEF Links
<1>4. link'.ws = 0 /\ link'.connected = link.connected /\ link'.reason = 0
  BY <1>0, RecordsTyped, SMT DEF Links
<1>5. cur' \in 0..MaxSessions /\ cur' # 0 BY <1>0, RecordsTyped
<1>6. LinkTypeOK'
  <2>1. shutdown' \in BOOLEAN BY <1>0
  <2> QED BY <1>0, <1>1, <1>3, <1>5, <2>1, SMT DEF LinkTypeOK
<1>7. VerdictFits'
  <2>1. \A s \in Sessions : /\ reports[s] <= 1
                            /\ s > cur' \/ s = cur' => reports[s] = 0
    BY <1>0, RecordsTyped, SMT DEF VerdictFits, Sessions
  <2> QED BY <1>0, <1>2, <1>4, <2>1, SMT DEF VerdictFits, Decided
<1>8. QueueClean BY <1>0 DEF CallsFit
<1>9. QueueClean' BY <1>0, <1>8, QueueCleanKept
<1>10. CallsFit'
  <2> HIDE DEF QueueClean
  <2> QED BY <1>0, <1>2, <1>4, <1>5, <1>9, SMT DEF CallsFit
<1> QED BY <1>6, <1>7, <1>10

\* connect() moves on without touching the session.
LEMMA ConnectingStep ==
    ASSUME LinkTypeOK, VerdictFits, CallsFit, EnterReturns \/ JoinReply \/ JoinFails
    PROVE  LinkTypeOK' /\ VerdictFits' /\ CallsFit'
<1>0. /\ conn \in {"entering", "joining"} /\ conn' \in {"joining", "joined", "deciding"}
      /\ conn = "entering" => decider.accepted
      /\ ctl' \in {ctl, "joining", "joined"}
      /\ UNCHANGED <<leftover, cur, decider, core, sup, disc, link, queue, lane, waitFor, rehook,
                     shutdown, used, applied, reports>>
  BY SMT DEF EnterReturns, JoinReply, JoinFails, sessVars
<1>1. LinkTypeOK' BY <1>0, SMT DEF LinkTypeOK
<1>2. VerdictFits' BY <1>0, SMT DEF VerdictFits, Decided
<1>3. CallsFit'
  <2> HIDE DEF QueueClean
  <2> QED BY <1>0, SMT DEF CallsFit
<1> QED BY <1>1, <1>2, <1>3

LEMMA ConnectFailsStep ==
    ASSUME LinkTypeOK, VerdictFits, CallsFit, EnterFails \/ StartRollback \/ DecisionCancelled
    PROVE  LinkTypeOK' /\ VerdictFits' /\ CallsFit'
<1>0. /\ \/ conn = "entering" /\ conn' = "rollbackUnaccepted"
         \/ conn \in {"joining", "joined", "deciding"} /\ conn' = "rollback"
      /\ decider' = Ended(decider) /\ core' = "dead"
      /\ link' = [link EXCEPT !.reason = IF decider.terminal THEN cur ELSE @]
      /\ UNCHANGED <<leftover, cur, sup, ctl, disc, queue, lane, waitFor, rehook, shutdown, used,
                     applied, reports>>
  BY SMT DEF EnterFails, StartRollback, DecisionCancelled, Rollback
<1>1. /\ decider' \in Deciders /\ decider'.accepted = decider.accepted
      /\ decider'.ended = TRUE /\ decider'.terminal = decider.terminal
  BY <1>0, EndedDecider
<1>2. /\ link' \in Links /\ link'.ws = link.ws /\ link'.connected = link.connected
      /\ link'.reason = IF decider.terminal THEN cur ELSE link.reason
  BY <1>0, ReasonCopied
<1>3. LinkTypeOK' BY <1>0, <1>1, <1>2, SMT DEF LinkTypeOK
<1>4. VerdictFits' BY <1>0, <1>1, <1>2, SMT DEF VerdictFits, Decided
<1>5. QueueClean => QueueClean' BY <1>0, QueueCleanKept
<1>6. CallsFit'
  <2> HIDE DEF QueueClean
  <2> QED BY <1>0, <1>1, <1>2, <1>5, SMT DEF CallsFit
<1> QED BY <1>3, <1>4, <1>6

\* connect() raises.  Whatever of the session stays in the queue is accounted for.
LEMMA RollbackStep ==
    ASSUME LinkTypeOK, VerdictFits, CallsFit, QueueOwn, RollbackDone \/ RollbackCut
    PROVE  /\ LinkTypeOK' /\ VerdictFits' /\ CallsFit'
           /\ leftover.unswept \subseteq leftover'.unswept
<1>0. /\ conn \in {"rollback", "rollbackUnaccepted"}
      /\ conn' = "idle" /\ sup' = "off" /\ ctl' = "none" /\ rehook' = "none"
      /\ queue' = queue \/ queue' = <<>>
      /\ UNCHANGED <<cur, decider, core, disc, link, lane, waitFor, shutdown, used, applied,
                     reports>>
  BY SMT DEF RollbackDone, RollbackCut, ConnectRaises, sessVars
<1>1. queue' \in Seq(Events) /\ Len(queue') <= Capacity
  <2>1. queue \in Seq(Events) /\ Len(queue) <= Capacity BY RecordsTyped
  <2>2. CASE queue' = queue BY <2>1, <2>2
  <2>3. CASE queue' = <<>> BY <2>3, LinkAssumption, EmptySeq
  <2> QED BY <1>0, <2>2, <2>3
<1>2. /\ leftover' \in [stray : SUBSET Sessions, unswept : SUBSET Sessions]
      /\ \/ leftover'.unswept = leftover.unswept /\ queue' = <<>>
         \/ leftover'.unswept = Unswept
  <2>1. leftover \in [stray : SUBSET Sessions, unswept : SUBSET Sessions] BY DEF LinkTypeOK
  <2>2. cur \in Sessions
    <3>1. cur # 0 BY <1>0 DEF CallsFit
    <3> QED BY <3>1, RecordsTyped DEF Sessions
  <2>3. leftover.stray \in SUBSET Sessions /\ leftover.unswept \in SUBSET Sessions
    BY <2>1, Zenon
  <2>4. Unswept \in SUBSET Sessions BY <2>2, <2>3 DEF Unswept
  <2>5. CASE RollbackDone /\ conn = "rollback"
    <3>1. leftover' = leftover /\ queue' = <<>> BY <2>5, Zenon DEF RollbackDone, ConnectRaises
    <3> QED BY <2>1, <3>1
  <2>6. CASE RollbackDone /\ conn # "rollback"
    <3> DEFINE u == Unswept
    <3>1. leftover' = [leftover EXCEPT !.unswept = u] BY <2>6, Zenon DEF RollbackDone
    <3> HIDE DEF u
    <3>2. u \in SUBSET Sessions BY <2>4 DEF u
    <3>3. leftover' \in [stray : SUBSET Sessions, unswept : SUBSET Sessions]
      BY <2>1, <3>1, <3>2, Zenon
    <3>4. leftover'.unswept = u BY <2>1, <3>1, <3>3, SMT
    <3> QED BY <3>3, <3>4 DEF u
  <2>7. CASE RollbackCut
    <3> DEFINE t == IF conn = "rollback" THEN leftover.stray \cup {cur} ELSE leftover.stray
               u == Unswept
    <3>1. leftover' = [stray |-> t, unswept |-> u] BY <2>7, Zenon DEF RollbackCut
    <3>2. t \in SUBSET Sessions /\ u \in SUBSET Sessions BY <2>2, <2>3, <2>4
    <3> HIDE DEF t, u
    <3>3. leftover' \in [stray : SUBSET Sessions, unswept : SUBSET Sessions]
      BY <3>1, <3>2, Zenon
    <3>4. leftover'.unswept = u BY <3>1, SMT
    <3> QED BY <3>3, <3>4 DEF u
  <2> QED BY <2>5, <2>6, <2>7
<1>3. LinkTypeOK'
  <2> DEFINE L == [stray : SUBSET Sessions, unswept : SUBSET Sessions]
  <2>1. (leftover \in L)' BY <1>2 DEF Sessions
  <2> HIDE DEF L
  <2> QED BY <1>0, <1>1, <2>1, SMT DEF LinkTypeOK, L
<1>4. VerdictFits' BY <1>0, SMT DEF VerdictFits, Decided
<1>5. leftover.unswept \subseteq leftover'.unswept BY <1>2 DEF Unswept
<1>6. QueueClean'
  <2>1. CASE queue' = <<>> BY <2>1 DEF QueueClean
  <2>2. CASE leftover'.unswept = Unswept /\ queue' = queue
    <3>1. CASE decider.accepted BY <2>2, <3>1 DEF QueueOwn, QueueClean, Unswept
    <3>2. CASE ~decider.accepted
      <4>1. QueueClean BY <1>0, <3>2 DEF CallsFit
      <4> QED BY <1>5, <2>2, <4>1 DEF QueueClean
    <3> QED BY <3>1, <3>2
  <2> QED BY <1>0, <1>2, <2>1, <2>2
<1>7. CallsFit'
  <2> HIDE DEF QueueClean
  <2> QED BY <1>0, <1>6, SMT DEF CallsFit
<1> QED BY <1>3, <1>4, <1>5, <1>7

LEMMA ConnectReturnsStep ==
    ASSUME LinkTypeOK, VerdictFits, CallsFit, ConnectReturns
    PROVE  LinkTypeOK' /\ VerdictFits' /\ CallsFit'
<1> DEFINE b == (link.reason = 0)
<1>0. /\ conn = "joined" /\ conn' = "idle"
      /\ link' = [link EXCEPT !.ws = cur, !.connected = b]
      /\ UNCHANGED <<leftover, cur, decider, core, sup, ctl, disc, queue, lane, waitFor, rehook,
                     shutdown, used, applied, reports>>
  BY Zenon DEF ConnectReturns, sessVars
<1>b. b \in BOOLEAN /\ (b <=> link.reason = 0) OBVIOUS
<1> HIDE DEF b
<1>1. link' \in Links BY <1>0, <1>b, RecordsTyped, Zenon DEF Links
<1>2. link'.ws = cur /\ link'.reason = link.reason BY <1>0, RecordsTyped, SMT DEF Links
<1>3. link'.connected <=> b BY <1>0, RecordsTyped, Zenon DEF Links
<1>4. LinkTypeOK' BY <1>0, <1>1, SMT DEF LinkTypeOK
<1>5. VerdictFits' BY <1>0, <1>2, SMT DEF VerdictFits, Decided
<1>6. CallsFit'
  <2>1. cur # 0 /\ decider.accepted BY <1>0 DEF CallsFit
  <2> HIDE DEF QueueClean
  <2> QED BY <1>0, <1>b, <1>2, <1>3, <2>1, SMT DEF CallsFit
<1> QED BY <1>4, <1>5, <1>6

-----------------------------------------------------------------------------
(* disconnect() *)

\* The invariant but for what it says of the queue's sessions.
CallsInv == LinkTypeOK /\ VerdictFits /\ CallsFit /\ LaneFits /\ AppliedFits

LEMMA DisconnectStartStep ==
    ASSUME LinkInv, DisconnectStart
    PROVE  CallsInv'
<1>a. LinkTypeOK /\ VerdictFits /\ CallsFit /\ LaneFits /\ AppliedFits BY DEF LinkInv
<1>0. /\ link.ws # 0 /\ disc = "idle"
      /\ decider' = Ended(decider) /\ core' = "dead"
      /\ \/ disc' = "leaving" /\ UNCHANGED <<lane, waitFor>>
         \/ disc' = "cancelling" /\ CancelLane
      /\ UNCHANGED <<leftover, cur, sup, ctl, conn, link, queue, rehook, shutdown, used, applied,
                     reports>>
  BY Zenon DEF DisconnectStart, CancelLane
<1>1. /\ decider' \in Deciders /\ decider'.accepted = decider.accepted
      /\ decider'.ended = TRUE /\ decider'.terminal = decider.terminal
  BY <1>a, <1>0, EndedDecider
<1>2. /\ lane' \in Seq(Tasks) /\ waitFor' \subseteq 1..MaxControls
      /\ LaneFits' /\ AppliedFits'
  <2>1. CASE UNCHANGED <<lane, waitFor>>
    <3>1. lane \in Seq(Tasks) /\ waitFor \subseteq 1..MaxControls BY <1>a DEF LinkTypeOK
    <3> QED BY <1>a, <1>0, <2>1, <3>1, LaneKept
  <2>2. CASE CancelLane BY <1>a, <1>0, <2>2, CancelLaneStep
  <2> QED BY <1>0, <2>1, <2>2
<1>3. LinkTypeOK' BY <1>a, <1>0, <1>1, <1>2, SMT DEF LinkTypeOK
<1>4. VerdictFits' BY <1>a, <1>0, <1>1, SMT DEF VerdictFits, Decided
<1>5. CallsFit'
  <2> HIDE DEF QueueClean
  <2> QED BY <1>a, <1>0, <1>1, SMT DEF CallsFit
<1> QED BY <1>2, <1>3, <1>4, <1>5 DEF CallsInv

LEMMA DisconnectingStep ==
    ASSUME LinkInv, LeaveDone \/ LaneCancelled \/ DisconnectCancelled
    PROVE  CallsInv'
<1>a. LinkTypeOK /\ VerdictFits /\ CallsFit /\ LaneFits /\ AppliedFits BY DEF LinkInv
<1>0. /\ disc # "idle" /\ disc' \in {"idle", "cancelling", "exiting"}
      /\ ctl' \in {"none", ctl}
      /\ CancelLane \/ (lane' = lane /\ waitFor' = {})
      /\ UNCHANGED <<leftover, cur, decider, core, sup, conn, link, queue, rehook, shutdown, used,
                     applied, reports>>
  BY SMT DEF LeaveDone, LaneCancelled, DisconnectCancelled, CancelLane, sessVars
<1>1. /\ lane' \in Seq(Tasks) /\ waitFor' \subseteq 1..MaxControls
      /\ LaneFits' /\ AppliedFits'
  <2>1. CASE lane' = lane /\ waitFor' = {}
    <3>1. lane \in Seq(Tasks) BY <1>a DEF LinkTypeOK
    <3> QED BY <1>a, <1>0, <2>1, <3>1, LaneKept
  <2>2. CASE CancelLane BY <1>a, <1>0, <2>2, CancelLaneStep
  <2> QED BY <1>0, <2>1, <2>2
<1>2. LinkTypeOK' BY <1>a, <1>0, <1>1, SMT DEF LinkTypeOK
<1>3. link.ws # 0 /\ conn # "entering" BY <1>a, <1>0 DEF CallsFit
<1>4. VerdictFits' /\ CallsFit' BY <1>a, <1>0, <1>3, SessionFrame
<1> QED BY <1>1, <1>2, <1>4 DEF CallsInv

LEMMA ExitDoneStep ==
    ASSUME LinkTypeOK, VerdictFits, CallsFit, ExitDone
    PROVE  LinkTypeOK' /\ VerdictFits' /\ CallsFit'
<1>0. /\ disc = "exiting" /\ disc' = "idle"
      /\ sup' = "off" /\ ctl' = "none" /\ rehook' = "none" /\ queue' = <<>>
      /\ link' = [link EXCEPT !.ws = 0, !.connected = FALSE]
      /\ UNCHANGED <<leftover, cur, decider, core, conn, lane, waitFor, shutdown, used, applied,
                     reports>>
  BY Zenon DEF ExitDone, sessVars
<1>1. link' \in Links
  <2>1. 0 \in 0..MaxSessions BY RecordsTyped
  <2> QED BY <1>0, <2>1, RecordsTyped, Zenon DEF Links
<1>2. link'.ws = 0 /\ link'.reason = link.reason /\ link'.connected = FALSE
  BY <1>0, RecordsTyped, SMT DEF Links
<1>3. queue' \in Seq(Events) /\ Len(queue') <= Capacity /\ QueueClean'
  BY <1>0, LinkAssumption, EmptySeq DEF QueueClean
<1>4. LinkTypeOK' BY <1>0, <1>1, <1>3, SMT DEF LinkTypeOK
<1>5. VerdictFits' BY <1>0, <1>2, SMT DEF VerdictFits, Decided
<1>6. CallsFit'
  <2> HIDE DEF QueueClean
  <2> QED BY <1>0, <1>2, <1>3, SMT DEF CallsFit
<1> QED BY <1>4, <1>5, <1>6

-----------------------------------------------------------------------------
(* Callbacks, and the whole specification *)

\* A step that leaves the lane alone keeps what it says.
LEMMA LaneApart ==
    ASSUME LinkInv, LinkTypeOK' /\ VerdictFits' /\ CallsFit',
           lane' = lane, applied' = applied, used'.controls = used.controls
    PROVE  CallsInv'
BY LaneKept DEF LinkInv, CallsInv

LEMMA CallbackStep ==
    ASSUME LinkInv, Callbacks \/ SocketLost \/ SupersedeShutdown
    PROVE  CallsInv'
<1> USE DEF connVars, sessVars
<1>a. LinkTypeOK /\ VerdictFits /\ CallsFit BY DEF LinkInv
<1>0. /\ UNCHANGED <<leftover, cur, decider, core, conn, disc, link, lane, waitFor, applied, reports>>
      /\ \/ used' = used
         \/ used.events < MaxEvents /\ used' = [used EXCEPT !.events = used.events + 1]
      /\ sup' \in {sup, "lost", "stopped"} /\ rehook' \in {rehook, "none", "running"}
      /\ ctl' \in {ctl, "none", "joined"} /\ shutdown' \in {shutdown, FALSE}
  <2>1. /\ UNCHANGED <<leftover, cur, decider, core, conn, disc, link, lane, waitFor, applied, reports>>
        /\ \/ used' = used
           \/ used.events < MaxEvents /\ used' = [used EXCEPT !.events = used.events + 1]
        /\ shutdown' \in {shutdown, FALSE}
    BY Zenon DEF Callbacks, SocketLost, SupersedeShutdown, ReconnectHookStarts,
           ReconnectHookEnds, RoomEvent, SyntheticEvent, NextEvent
  <2>2. /\ sup' \in {sup, "lost", "stopped"} /\ rehook' \in {rehook, "none", "running"}
        /\ ctl' \in {ctl, "none", "joined"}
    BY SMT DEF Callbacks, SocketLost, SupersedeShutdown, ReconnectHookStarts,
           ReconnectHookEnds, RoomEvent, SyntheticEvent, NextEvent
  <2> QED BY <2>1, <2>2, Zenon
<1>1. used' \in [attempts : 0..MaxAttempts, controls : 0..MaxControls, events : 0..MaxEvents]
      /\ used'.controls = used.controls
  <2>1. /\ used \in [attempts : 0..MaxAttempts, controls : 0..MaxControls,
                     events : 0..MaxEvents]
        /\ used.events \in 0..MaxEvents
    BY <1>a, SMT DEF LinkTypeOK
  <2>2. used.events < MaxEvents => used.events + 1 \in 0..MaxEvents
    BY <2>1, LinkAssumption
  <2>3. used' \in [attempts : 0..MaxAttempts, controls : 0..MaxControls, events : 0..MaxEvents]
    BY <1>0, <2>1, <2>2, Zenon
  <2> QED BY <1>0, <2>1, <2>3, SMT
<1>2. \/ queue' = queue
      \/ queue # <<>> /\ queue' = Tail(queue)
      \/ rehook = "running" /\ queue' = Queued(queue, "reconnected", cur)
      \/ link.ws # 0 /\ queue' = Queued(queue, "room", cur)
      \/ queue' = Queued(queue, "synthetic", 0)
  BY Zenon DEF Callbacks, SocketLost, SupersedeShutdown, ReconnectHookStarts,
               ReconnectHookEnds, RoomEvent, SyntheticEvent, NextEvent
<1>3. /\ queue' \in Seq(Events) /\ Len(queue') <= Capacity
      /\ QueueClean /\ link.ws = 0 => QueueClean'
  <2>1. queue \in Seq(Events) /\ Len(queue) <= Capacity /\ cur \in 0..MaxSessions
        /\ 0 \in 0..MaxSessions
    BY <1>a, RecordsTyped
  <2>2. CASE queue' = queue BY <1>0, <2>1, <2>2, QueueCleanKept
  <2>3. CASE queue # <<>> /\ queue' = Tail(queue) BY <1>0, <2>1, <2>3, TailEvents DEF QueueClean
  <2>4. CASE rehook = "running" /\ queue' = Queued(queue, "reconnected", cur)
    <3>1. link.ws # 0 BY <1>a, <2>4 DEF CallsFit
    <3> QED BY <2>1, <2>4, <3>1, QueuedEvent DEF Kinds
  <2>5. CASE link.ws # 0 /\ queue' = Queued(queue, "room", cur)
    BY <2>1, <2>5, QueuedEvent DEF Kinds
  <2>6. CASE queue' = Queued(queue, "synthetic", 0)
    <3>1. "synthetic" \in Kinds BY DEF Kinds
    <3>2. \A i \in DOMAIN queue' : \/ queue'[i].sess = 0
                                   \/ \E j \in DOMAIN queue : queue'[i] = queue[j]
      BY <2>1, <2>6, <3>1, QueuedEvent
    <3>3. queue' \in Seq(Events) /\ Len(queue') <= Capacity BY <2>1, <2>6, <3>1, QueuedEvent
    <3> QED BY <1>0, <3>2, <3>3 DEF QueueClean
  <2> QED BY <1>2, <2>2, <2>3, <2>4, <2>5, <2>6
<1>4. LinkTypeOK'
  <2>1. shutdown' \in BOOLEAN BY <1>a, <1>0, Zenon DEF LinkTypeOK
  <2> QED BY <1>a, <1>0, <1>1, <1>3, <2>1, SMT DEF LinkTypeOK
<1>5. sup = "off" => sup' = "off"
  BY SMT DEF Callbacks, SocketLost, SupersedeShutdown, ReconnectHookStarts, ReconnectHookEnds,
             RoomEvent, SyntheticEvent, NextEvent
<1>6. rehook' = "running" => rehook = "running" \/ link.ws # 0
  BY SMT DEF Callbacks, SocketLost, SupersedeShutdown, ReconnectHookStarts, ReconnectHookEnds,
             RoomEvent, SyntheticEvent, NextEvent
<1>7. conn = "entering" => UNCHANGED <<ctl, shutdown>>
  <2>1. conn = "entering" => ~shutdown /\ rehook # "running" BY <1>a DEF CallsFit
  <2> QED BY <2>1, SMT DEF Callbacks, SocketLost, SupersedeShutdown, ReconnectHookStarts,
             ReconnectHookEnds, RoomEvent, SyntheticEvent, NextEvent
<1>8. disc' # "idle" => link.ws # 0 BY <1>a, <1>0 DEF CallsFit
<1>9. sup' \in {"attempting", "open"} => sup' = sup BY <1>0
<1>10. VerdictFits' /\ CallsFit'
  BY <1>a, <1>0, <1>3, <1>5, <1>6, <1>7, <1>8, <1>9, SessionFrame
<1> QED BY <1>0, <1>1, <1>4, <1>10, LaneApart

LEMMA ControlLaneStep ==
    ASSUME LinkInv, ControlLane
    PROVE  CallsInv'
<1> USE DEF connVars, sessVars
<1>a. LinkTypeOK /\ VerdictFits /\ CallsFit /\ LaneFits /\ AppliedFits BY DEF LinkInv
<1>0. UNCHANGED <<leftover, cur, decider, core, sup, ctl, conn, disc, link, queue, waitFor, rehook,
                  shutdown, reports>>
  BY Zenon DEF ControlLane, OnControl, HookStarts, TaskEnds
<1>1. /\ lane' \in Seq(Tasks) /\ applied' \in Seq(1..MaxControls)
      /\ used' \in [attempts : 0..MaxAttempts, controls : 0..MaxControls, events : 0..MaxEvents]
      /\ LaneFits' /\ AppliedFits'
  <2>0. /\ applied \in Seq(1..MaxControls)
        /\ used \in [attempts : 0..MaxAttempts, controls : 0..MaxControls, events : 0..MaxEvents]
    BY <1>a DEF LinkTypeOK
  <2>1. CASE OnControl
    <3>1. applied' = applied BY <2>1 DEF OnControl
    <3> QED BY <1>a, <2>0, <2>1, <3>1, OnControlStep
  <2>2. ASSUME NEW i \in DOMAIN lane, HookStarts(i)
        PROVE  /\ lane' \in Seq(Tasks) /\ applied' \in Seq(1..MaxControls) /\ used' = used
               /\ LaneFits' /\ AppliedFits'
    <3>1. used' = used BY <2>2 DEF HookStarts
    <3> QED BY <1>a, <2>2, <3>1, HookStartsStep
  <2>3. ASSUME NEW i \in DOMAIN lane, TaskEnds(i)
        PROVE  /\ lane' \in Seq(Tasks) /\ applied' = applied /\ used' = used
               /\ LaneFits' /\ AppliedFits'
    <3>1. applied' = applied /\ used' = used BY <2>3 DEF TaskEnds
    <3> QED BY <1>a, <2>3, <3>1, TaskEndsStep
  <2> QED BY <2>0, <2>1, <2>2, <2>3 DEF ControlLane
<1>2. LinkTypeOK' BY <1>a, <1>0, <1>1, SMT DEF LinkTypeOK
<1>3. QueueClean => QueueClean' BY <1>0, QueueCleanKept
<1>4. disc # "idle" => link.ws # 0 BY <1>a DEF CallsFit
<1>5. VerdictFits' /\ CallsFit' BY <1>a, <1>0, <1>3, <1>4, SessionFrame
<1> QED BY <1>1, <1>2, <1>5 DEF CallsInv

LEMMA InitLink ==
    ASSUME Init
    PROVE  LinkInv
<1>0. /\ decider.accepted = FALSE /\ decider.ended = FALSE /\ decider.terminal = FALSE
      /\ link.ws = 0 /\ link.connected = FALSE /\ link.reason = 0 /\ decider \in Deciders
      /\ link \in Links
  <2>1. 0 \in 0..MaxSessions BY LinkAssumption
  <2>2. decider \in Deciders /\ link \in Links
    BY <2>1, Zenon DEF Init, FreshDecider, Deciders, Links
  <2> QED BY <2>2, SMT DEF Init, FreshDecider
<1>1. LinkTypeOK
  <2>1. /\ queue \in Seq(Events) /\ lane \in Seq(Tasks) /\ applied \in Seq(1..MaxControls)
        /\ Len(queue) <= Capacity
    BY LinkAssumption, EmptySeq DEF Init
  <2>2. shutdown \in BOOLEAN BY DEF Init
  <2> QED BY <1>0, <2>1, <2>2, LinkAssumption, SMT DEF Init, LinkTypeOK
<1>2. VerdictFits BY <1>0, SMT DEF Init, VerdictFits, Decided
<1>3. CallsFit /\ QueueOwn BY <1>0, SMT DEF Init, CallsFit, QueueClean, QueueOwn
<1>4. LaneFits BY DEF Init, LaneFits
<1>5. AppliedFits BY DEF Init, AppliedFits
<1> QED BY <1>1, <1>2, <1>3, <1>4, <1>5 DEF LinkInv

\* What an event of the queue may be after a step.
LEMMA QueueOwnKept ==
    ASSUME LinkTypeOK, QueueOwn, cur' = cur, leftover.unswept \subseteq leftover'.unswept,
           \/ queue' = queue \/ queue' = <<>>
           \/ queue # <<>> /\ queue' = Tail(queue)
           \/ \E kind \in Kinds, sess \in {0, cur} : queue' = Queued(queue, kind, sess)
    PROVE  QueueOwn'
<1>1. queue \in Seq(Events) /\ Len(queue) <= Capacity /\ cur \in 0..MaxSessions
      /\ 0 \in 0..MaxSessions
  BY RecordsTyped
<1>2. \A i \in DOMAIN queue' : \/ queue'[i].sess \in {0, cur}
                               \/ \E j \in DOMAIN queue : queue'[i] = queue[j]
  <2>1. CASE queue' = queue BY <2>1
  <2>2. CASE queue' = <<>> BY <2>2
  <2>3. CASE queue # <<>> /\ queue' = Tail(queue) BY <1>1, <2>3, TailEvents
  <2>4. ASSUME NEW kind \in Kinds, NEW sess \in {0, cur},
               queue' = Queued(queue, kind, sess)
        PROVE  \A i \in DOMAIN queue' : \/ queue'[i].sess \in {0, cur}
                                        \/ \E j \in DOMAIN queue : queue'[i] = queue[j]
    <3>1. sess \in 0..MaxSessions BY <1>1
    <3> QED BY <1>1, <2>4, <3>1, QueuedEvent
  <2> QED BY <2>1, <2>2, <2>3, <2>4
<1> QED BY <1>2 DEF QueueOwn

\* What a report may add to the queue.
LEMMA ReportQueue ==
    ASSUME NEW d, Report(d) \/ EndWithVerdict(d)
    PROVE  queue' = queue \/ \E kind \in Kinds, sess \in {0, cur} :
                                  queue' = Queued(queue, kind, sess)
<1>1. queue' = queue \/ queue' = Queued(queue, "verdict", cur)
  BY Zenon DEF Report, EndWithVerdict
<1>2. "verdict" \in Kinds BY DEF Kinds
<1> QED BY <1>1, <1>2

\* The queue holds the newest session's events, the host's own and the ones left behind.
LEMMA QueueOwnStep ==
    ASSUME LinkInv, [Next]_vars
    PROVE  QueueOwn'
<1> USE DEF connVars, sessVars
<1>a. LinkTypeOK /\ VerdictFits /\ CallsFit /\ QueueOwn BY DEF LinkInv
<1> DEFINE Offered == \E kind \in Kinds, sess \in {0, cur} :
                          queue' = Queued(queue, kind, sess)
<1>1. CASE ConnectStart
  <2>1. /\ conn = "idle" /\ link.ws = 0 /\ queue' = queue /\ leftover' = leftover
    BY <1>1 DEF ConnectStart
  <2>2. QueueClean BY <1>a, <2>1 DEF CallsFit
  <2> QED BY <2>1, <2>2 DEF QueueClean, QueueOwn
<1>2. CASE RollbackDone \/ RollbackCut
  <2>1. leftover.unswept \subseteq leftover'.unswept BY <1>a, <1>2, RollbackStep
  <2>2. cur' = cur /\ (queue' = queue \/ queue' = <<>>)
    BY <1>2, Zenon DEF RollbackDone, RollbackCut, ConnectRaises
  <2> QED BY <1>a, <2>1, <2>2, QueueOwnKept
<1>3. CASE AttemptConnected \/ AttemptFails \/ DecideDisconnected \/ Supersede
  <2>1. cur' = cur /\ leftover' = leftover
    BY <1>3, Zenon DEF AttemptConnected, AttemptFails, DecideDisconnected, Supersede
  <2>2. queue' = queue \/ \E d \in {decider, [decider EXCEPT !.decided = FALSE],
                                     [decider EXCEPT !.decided = TRUE]} :
                              Report(d) \/ EndWithVerdict(d)
    BY <1>3, Zenon DEF AttemptConnected, AttemptFails, DecideDisconnected, Supersede
  <2>3. queue' = queue \/ Offered BY <2>2, ReportQueue
  <2> QED BY <1>a, <2>1, <2>3, QueueOwnKept
<1>4. CASE Callbacks
  <2>1. cur' = cur /\ leftover' = leftover
    BY <1>4, Zenon DEF Callbacks, ReconnectHookStarts, ReconnectHookEnds, RoomEvent,
                       SyntheticEvent, NextEvent
  <2>2. \/ queue' = queue \/ (queue # <<>> /\ queue' = Tail(queue))
        \/ queue' = Queued(queue, "reconnected", cur) \/ queue' = Queued(queue, "room", cur)
        \/ queue' = Queued(queue, "synthetic", 0)
    BY <1>4, Zenon DEF Callbacks, ReconnectHookStarts, ReconnectHookEnds, RoomEvent,
                       SyntheticEvent, NextEvent
  <2>3. \/ queue' = queue \/ (queue # <<>> /\ queue' = Tail(queue)) \/ Offered
    BY <2>2 DEF Kinds
  <2> QED BY <1>a, <2>1, <2>3, QueueOwnKept
<1>5. CASE \/ BeginAttempt \/ SupersedeShutdown \/ SocketLost \/ EnterReturns \/ EnterFails
           \/ JoinReply \/ JoinFails \/ StartRollback \/ DecisionCancelled \/ ConnectReturns
           \/ Disconnecting \/ ControlLane \/ UNCHANGED vars
  <2>1. cur' = cur /\ leftover' = leftover /\ (queue' = queue \/ queue' = <<>>)
    BY <1>5, Zenon DEF BeginAttempt, SupersedeShutdown, SocketLost, EnterReturns, EnterFails,
       JoinReply, JoinFails, StartRollback, DecisionCancelled, Rollback, ConnectReturns,
       Disconnecting, DisconnectStart, LeaveDone, LaneCancelled, ExitDone,
       DisconnectCancelled, ControlLane, OnControl, HookStarts, TaskEnds, vars
  <2> QED BY <1>a, <2>1, QueueOwnKept
<1> QED BY <1>1, <1>2, <1>3, <1>4, <1>5, Zenon DEF Next, Supervisor, Connecting

LEMMA NextLink ==
    ASSUME LinkInv, [Next]_vars
    PROVE  LinkInv'
<1> USE DEF connVars, sessVars
<1>a. LinkTypeOK /\ VerdictFits /\ CallsFit /\ QueueOwn BY DEF LinkInv
<1>0. QueueOwn' BY QueueOwnStep
<1> SUFFICES CallsInv' BY <1>0 DEF CallsInv, LinkInv
<1>1. CASE \/ BeginAttempt \/ AttemptConnected \/ AttemptFails \/ DecideDisconnected
           \/ Supersede \/ ConnectStart \/ EnterReturns \/ EnterFails \/ JoinReply
           \/ JoinFails \/ StartRollback \/ DecisionCancelled \/ RollbackDone
           \/ RollbackCut \/ ConnectReturns \/ ExitDone
  <2>1. LinkTypeOK' /\ VerdictFits' /\ CallsFit'
    BY <1>a, <1>1, BeginAttemptStep, AttemptConnectedStep, AttemptFailsStep,
       DecideDisconnectedStep, SupersedeStep, ConnectStartStep, ConnectingStep,
       ConnectFailsStep, RollbackStep, ConnectReturnsStep, ExitDoneStep, Zenon
  <2>2. /\ lane' = lane /\ applied' = applied
        /\ used' = used \/ used' = [used EXCEPT !.attempts = @ + 1]
    BY <1>1, Zenon DEF BeginAttempt, AttemptConnected, AttemptFails, DecideDisconnected,
       Supersede, ConnectStart, EnterReturns, EnterFails, JoinReply, JoinFails,
       StartRollback, DecisionCancelled, Rollback, RollbackDone, RollbackCut, ConnectRaises,
       ConnectReturns, ExitDone
  <2>3. used'.controls = used.controls BY <1>a, <2>2, SMT DEF LinkTypeOK
  <2> QED BY <2>1, <2>2, <2>3, LaneApart
<1>2. CASE DisconnectStart BY <1>2, DisconnectStartStep
<1>3. CASE LeaveDone \/ LaneCancelled \/ DisconnectCancelled BY <1>3, DisconnectingStep
<1>4. CASE Callbacks \/ SocketLost \/ SupersedeShutdown BY <1>4, CallbackStep
<1>5. CASE ControlLane BY <1>5, ControlLaneStep
<1>6. CASE UNCHANGED vars
  <2>1. LinkTypeOK' BY <1>a, <1>6 DEF LinkTypeOK, vars
  <2>2. VerdictFits' BY <1>a, <1>6 DEF VerdictFits, Decided, vars
  <2>3. CallsFit' BY <1>a, <1>6 DEF CallsFit, QueueClean, vars
  <2> QED BY <1>6, <2>1, <2>2, <2>3, LaneApart DEF vars
<1> QED
  BY <1>1, <1>2, <1>3, <1>4, <1>5, <1>6, Zenon DEF Next, Supervisor, Connecting, Disconnecting

\* Every reachable state of the link: the session's verdict, what connect() and
\* disconnect() rely on at their awaits, and the order of the control lane.
THEOREM LinkInductive == Spec => []LinkInv
<1>1. Init => LinkInv BY InitLink
<1>2. LinkInv /\ [Next]_vars => LinkInv' BY NextLink
<1> QED BY <1>1, <1>2, PTL DEF Spec

\* What the host reads from the link agrees with the session, whatever close, supersede,
\* failed or cancelled connect() or disconnect() came between; the queue keeps events of
\* an ended session only where its connect() failed without dropping the queue.
THEOREM LinkAgrees == Spec => []LinkAgreesWithSession
<1>1. ASSUME LinkInv PROVE LinkAgreesWithSession
  <2>0. LinkTypeOK /\ VerdictFits /\ CallsFit /\ QueueOwn BY <1>1 DEF LinkInv
  <2>1. link.connected => ~decider.terminal /\ link.ws = cur
    <3> SUFFICES ASSUME link.connected PROVE ~decider.terminal /\ link.ws = cur OBVIOUS
    <3>1. link.ws # 0 /\ link.reason = 0 BY <2>0 DEF CallsFit
    <3>2. link.ws = cur /\ decider.accepted BY <2>0, <3>1 DEF CallsFit
    <3>3. decider.terminal => link.reason = cur BY <2>0, <3>2 DEF VerdictFits
    <3> QED BY <3>1, <3>2, <3>3
  <2>2. link.reason # 0 => link.reason = cur /\ decider.terminal BY <2>0 DEF VerdictFits
  <2>3. ASSUME NEW i \in DOMAIN queue
        PROVE  \/ queue[i].sess \in {0} \cup leftover.unswept
               \/ queue[i].sess = cur /\ (conn # "idle" \/ link.ws # 0)
    <3>1. queue[i].sess \in {0, cur} \cup leftover.unswept BY <2>0 DEF QueueOwn
    <3>2. conn = "idle" /\ link.ws = 0 => QueueClean BY <2>0 DEF CallsFit
    <3> QED BY <3>1, <3>2 DEF QueueClean
  <2> QED BY <2>1, <2>2, <2>3 DEF LinkAgreesWithSession
<1> QED BY <1>1, LinkInductive, PTL

\* Control signals are applied in arrival order and one at a time, but for hooks that
\* disconnect() has cancelled.
THEOREM ControlsOrdered == Spec => []ControlsInOrder
<1>1. ASSUME LinkInv PROVE ControlsInOrder
  <2>0. LinkTypeOK /\ LaneFits /\ AppliedFits BY <1>1 DEF LinkInv
  <2>1. ASSUME NEW i \in DOMAIN lane, NEW j \in DOMAIN lane,
               lane[i].st = "running", ~lane[i].cancelled,
               lane[j].st = "running", ~lane[j].cancelled
        PROVE  i = j
    <3>1. ~(i < j) /\ ~(j < i) BY <2>0, <2>1 DEF LaneFits
    <3> QED BY <2>0, <3>1, LaneTyped
  <2>2. \A i, j \in DOMAIN applied : i < j => applied[i] < applied[j]
    BY <2>0 DEF AppliedFits
  <2> QED BY <2>1, <2>2 DEF ControlsInOrder
<1> QED BY <1>1, LinkInductive, PTL

\* Each session's verdict is reported at most once and no attempt begins after it: a
\* close, a refused reconnect, a supersede push and a local end may race as they like.
THEOREM VerdictsOnce == Spec => VerdictOnce
<1>1. ASSUME LinkInv, [Next]_vars, Decided, cur' = cur
      PROVE  used'.attempts = used.attempts
  <2> USE DEF connVars, sessVars
  <2>0. /\ core = "dead"
        /\ used \in [attempts : 0..MaxAttempts, controls : 0..MaxControls, events : 0..MaxEvents]
    BY <1>1 DEF LinkInv, VerdictFits, LinkTypeOK
  <2>1. \/ used' = used \/ used' = [used EXCEPT !.controls = @ + 1]
        \/ used' = [used EXCEPT !.events = @ + 1]
    BY <1>1, <2>0, Zenon DEF Next, vars, Supervisor, Connecting, Disconnecting, Callbacks,
       ControlLane, BeginAttempt, AttemptConnected, AttemptFails, DecideDisconnected,
       SupersedeShutdown, SocketLost, Supersede, ConnectStart, EnterReturns, EnterFails,
       JoinReply, JoinFails, StartRollback, DecisionCancelled, Rollback, RollbackDone,
       RollbackCut, ConnectRaises, ConnectReturns, DisconnectStart,
       LeaveDone, LaneCancelled, ExitDone, DisconnectCancelled, ReconnectHookStarts,
       ReconnectHookEnds, RoomEvent, SyntheticEvent, NextEvent, OnControl, HookStarts, TaskEnds
  <2> QED BY <2>0, <2>1, SMT
<1>2. LinkInv /\ LinkInv' /\ [Next]_vars
        => [/\ \A s \in Sessions : reports'[s] <= 1
            /\ Decided /\ cur' = cur => used'.attempts = used.attempts]_vars
  <2>1. LinkInv' => \A s \in Sessions : reports'[s] <= 1 BY DEF LinkInv, VerdictFits
  <2> QED BY <1>1, <2>1
<1> QED BY <1>2, LinkInductive, PTL DEF Spec, VerdictOnce

=============================================================================
