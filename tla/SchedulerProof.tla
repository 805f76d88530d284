--------------------------- MODULE SchedulerProof ---------------------------
(***************************************************************************)
(* The invariant of Scheduler.tla, and with it that local events keep their *)
(* place, that no delivered original is lost, that a stop stands and that   *)
(* ordinary input waits.                                                   *)
(*                                                                         *)
(* A step of the coroutine is a chain of operators on its record, so the    *)
(* proof follows the chain: Only says which fields an operator touches,     *)
(* Quiet what a step may do before it ends, and Stepped how it may end.     *)
(***************************************************************************)
EXTENDS Scheduler, SelectionProof

-----------------------------------------------------------------------------
(* The inductive invariant *)

\* The fields of the scheduler's record.
Fields == DOMAIN Fresh \cup DOMAIN IdlePass

\* A delivery is in the line once.
Single(line) ==
    \A i, j \in DOMAIN line : (i < j /\ line[i] = line[j]) => line[i] \in Rosters

Sound(t) ==
    /\ DOMAIN t = Fields /\ t.line \in Seq(Events) /\ t.queue \in Seq(Events \cup {Resync})
    /\ Single(t.line) /\ t.gate \in Msgs \cup {0}
    /\ t.ctlPage = Unread \/ t.ctlPage.rows \in Seq(Msgs)

\* No member of the record's turn has a local event before it in the line.
Placed(t) ==
    \A i, j \in DOMAIN t.line :
        (i < j /\ t.line[j] \in ToSet(t.members)) => t.line[i] \notin Locals

Has(t, m) == Contains(t.line, m) \/ Contains(t.queue, m)

Unsettled == {"free", "mine", "held", "retry", "parkedRetry"}

\* Ordinary input need not wait for deferred input.
Open(t) == t.arg \/ t.deferred = 0 \/ t.relieved

\* The pass will not look at ordinary input again unless it need not wait.
Waits(t, c) ==
    Open(t) \/ t.held \/ OwesWrites(c) \/ t.stopped \/ t.closing \/ Requested(t)

\* What the coroutine relies on when it resumes from the await of its record.
Awaiting(t, c) ==
    /\ t.pc \in {"next", "page"} => t.kind = "step" /\ Open(t) /\ Owed(c) \subseteq t.late
    /\ t.pc = "ctlpage" => t.kind = "prio"
    /\ t.pc = "run" => t.kind \in {"step", "prio"} /\ (t.prio <=> t.kind = "prio")
    /\ t.pc = "run" /\ ~t.prio => Placed(t)
    /\ t.pc = "local" => t.kind \in {"step", "hk"} /\ t.local \notin Msgs
    /\ t.pc \in {"run", "local"} /\ t.kind = "step" => Open(t)
    /\ t.pc \in {"run", "ctlpage"} /\ t.kind = "prio" => t.held \/ OwesWrites(c)
    /\ t.pc \in {"loop", "local"} => Waits(t, c)
    /\ t.pc = "retry" => t.todo \subseteq Owed(c)
    /\ t.pc \in Reads /\ t.answer # Unread => t.answer.rows \in Seq(Msgs)

\* The platform answered the gate read after the last stop, unless a signal outdated it.
GateFits ==
    (s.pc = "gate" /\ s.answer # Unread /\ ~s.stale /\ s.stopped) => probed

SchedulerInv ==
    /\ config \in Scenarios
    /\ Sound(s) /\ s.result = "none"
    /\ claim \in [Msgs -> ClaimStates]
    /\ posted \subseteq Msgs
    /\ Awaiting(s, claim)
    /\ NeverDropsRunnable
    /\ GateFits

-----------------------------------------------------------------------------
(* Records *)

\* u is t but for the fields fs.
Only(fs, t, u) == DOMAIN u = Fields /\ \A f \in Fields \ fs : u[f] = t[f]

LEMMA FieldsListed ==
    Fields = {"pc", "queue", "line", "deferred", "sync", "first", "scan", "ctl", "fallback",
              "stopped", "closing", "due", "started", "arg", "recovery", "held", "relieved",
              "invalid", "declined", "bounds", "ctlPage", "gate", "resumed", "sel", "todo",
              "kind", "members", "prio", "control", "stale", "dead", "local", "answer", "late",
              "result"}
<1>1. DOMAIN Fresh = {"pc", "queue", "line", "deferred", "sync", "first", "scan", "ctl",
                      "fallback", "stopped", "closing", "due", "started"}
  BY SMT DEF Fresh
<1>2. DOMAIN IdlePass = {"arg", "recovery", "held", "relieved", "invalid", "declined",
                         "bounds", "ctlPage", "gate", "resumed", "sel", "todo", "kind",
                         "members", "prio", "control", "stale", "dead", "local", "answer",
                         "late", "result"}
  BY SMT DEF IdlePass
<1> DEFINE F == DOMAIN Fresh
           P == DOMAIN IdlePass
<1>3. Fields = F \cup P BY DEF Fields
<1> HIDE DEF F, P
<1> QED BY <1>1, <1>2, <1>3, SMT DEF F, P

\* The fields the invariant speaks of that Only leaves alone.
LEMMA Untouched ==
    ASSUME NEW fs, NEW t, NEW u, Only(fs, t, u)
    PROVE  /\ "pc" \notin fs => u.pc = t.pc
           /\ "queue" \notin fs => u.queue = t.queue
           /\ "line" \notin fs => u.line = t.line
           /\ "deferred" \notin fs => u.deferred = t.deferred
           /\ "stopped" \notin fs => u.stopped = t.stopped
           /\ "closing" \notin fs => u.closing = t.closing
           /\ "arg" \notin fs => u.arg = t.arg
           /\ "held" \notin fs => u.held = t.held
           /\ "relieved" \notin fs => u.relieved = t.relieved
           /\ "ctlPage" \notin fs => u.ctlPage = t.ctlPage
           /\ "gate" \notin fs => u.gate = t.gate
           /\ "kind" \notin fs => u.kind = t.kind
           /\ "members" \notin fs => u.members = t.members
           /\ "prio" \notin fs => u.prio = t.prio
           /\ "stale" \notin fs => u.stale = t.stale
           /\ "local" \notin fs => u.local = t.local
           /\ "answer" \notin fs => u.answer = t.answer
           /\ "late" \notin fs => u.late = t.late
           /\ "result" \notin fs => u.result = t.result
           /\ "control" \notin fs => u.control = t.control
           /\ "sync" \notin fs => u.sync = t.sync
           /\ "todo" \notin fs => u.todo = t.todo
BY FieldsListed, Zenon DEF Only

LEMMA OnlyJoins ==
    ASSUME NEW a, NEW b, NEW t, NEW u, NEW v, Only(a, t, u), Only(b, u, v)
    PROVE  Only(a \cup b, t, v)
BY DEF Only

LEMMA ReturnFields ==
    ASSUME NEW t, DOMAIN t = Fields, NEW r
    PROVE  Only({"result"}, t, Return(t, r)) /\ Return(t, r).result = r
BY FieldsListed, Zenon DEF Only, Return

Resting == {"kind", "members", "prio", "control", "stale", "dead", "local", "answer",
            "late", "result"}

LEMMA RestFields ==
    ASSUME NEW t, DOMAIN t = Fields
    PROVE  /\ Only(Resting, t, Rest(t))
           /\ Rest(t).kind = "none" /\ Rest(t).members = <<>> /\ Rest(t).prio = FALSE
           /\ Rest(t).stale = FALSE /\ Rest(t).local = 0 /\ Rest(t).answer = Unread
           /\ Rest(t).late = {} /\ Rest(t).result = "none"
BY FieldsListed, Zenon DEF Only, Rest, Resting

-----------------------------------------------------------------------------
(* What a step may do *)

\* A turn may still run m, which the record holds: u holds it too.
Keeps(t, u, c) == \A m \in Msgs : (c[m] \in Unsettled /\ Has(t, m)) => Has(u, m)

\* What a step never changes of the pass.
Frozen(t, u) ==
    /\ u.stopped = t.stopped /\ u.closing = t.closing /\ u.arg = t.arg /\ u.held = t.held
    /\ u.relieved = t.relieved /\ u.kind = t.kind /\ (Requested(t) => Requested(u))

\* A step goes on.
Quiet(t, u, c) ==
    /\ Sound(u) /\ Keeps(t, u, c) /\ Frozen(t, u)
    /\ u.deferred \in {t.deferred, 0} /\ u.result = t.result

\* A step ended with an outcome ...
Outcome(u) ==
    /\ u.result \in {"PROGRESS", "EMPTY", "BLOCKED", "STOPPED", "RETRY"}
    /\ u.result = "STOPPED" => u.stopped \/ u.closing

\* ... or awaits what it runs ...
Launched(u) ==
    /\ u.result = "none" /\ u.pc \in {"run", "local"}
    /\ u.pc = "run" => u.kind # "hk" /\ (u.prio <=> u.kind = "prio") /\ (u.prio \/ Placed(u))
    /\ u.pc = "local" => u.local \notin Msgs /\ u.kind # "prio"

\* ... or what it reads.
Asking(u) ==
    /\ u.result = "none" /\ u.late = {} /\ u.answer = Unread
    /\ u.pc \in {"page", "next", "ctlpage"}
    /\ u.kind = IF u.pc = "ctlpage" THEN "prio" ELSE "step"

Stepped(t, u, c) ==
    /\ Sound(u) /\ Keeps(t, u, c) /\ Frozen(t, u)
    /\ u.deferred \in {t.deferred, 0} \/ u.result \in {"BLOCKED", "RETRY"}
    /\ Outcome(u) \/ Launched(u)

Asked(t, u, c) ==
    Sound(u) /\ Keeps(t, u, c) /\ Frozen(t, u) /\ u.deferred \in {t.deferred, 0} /\ Asking(u)

LEMMA QuietJoins ==
    ASSUME NEW t, NEW u, NEW v, NEW c, Quiet(t, u, c), Quiet(u, v, c)
    PROVE  Quiet(t, v, c)
BY Zenon DEF Quiet, Keeps, Frozen

LEMMA QuietSteps ==
    ASSUME NEW t, NEW u, NEW v, NEW c, Quiet(t, u, c), Stepped(u, v, c)
    PROVE  Stepped(t, v, c)
BY Zenon DEF Quiet, Stepped, Keeps, Frozen

LEMMA QuietAsks ==
    ASSUME NEW t, NEW u, NEW v, NEW c, Quiet(t, u, c), Asked(u, v, c)
    PROVE  Asked(t, v, c)
BY Zenon DEF Quiet, Asked, Keeps, Frozen

\* The fields a step may change at will.
Inert == {"sync", "first", "scan", "ctl", "fallback", "due", "started", "recovery",
          "invalid", "declined", "bounds", "resumed", "sel", "todo", "prio", "control", "stale", "dead"}

LEMMA InertQuiet ==
    ASSUME NEW t, NEW u, NEW c, Sound(t), NEW fs, fs \subseteq Inert, Only(fs, t, u)
    PROVE  Quiet(t, u, c)
<1>1. /\ u.queue = t.queue /\ u.line = t.line /\ u.deferred = t.deferred
      /\ u.stopped = t.stopped /\ u.closing = t.closing /\ u.arg = t.arg /\ u.held = t.held
      /\ u.relieved = t.relieved /\ u.ctlPage = t.ctlPage /\ u.gate = t.gate
      /\ u.kind = t.kind /\ u.result = t.result
  <2>1. \A f \in {"queue", "line", "deferred", "stopped", "closing", "arg", "held", "relieved",
                  "ctlPage", "gate", "kind", "result"} : f \notin fs
    BY DEF Inert
  <2> QED BY <2>1, Untouched
<1>2. DOMAIN u = Fields BY DEF Only
<1>3. Sound(u) BY <1>1, <1>2, Zenon DEF Sound
<1>4. Keeps(t, u, c) BY <1>1, Zenon DEF Keeps, Has
<1>5. Frozen(t, u) BY <1>1, Zenon DEF Frozen, Requested
<1> QED BY <1>1, <1>3, <1>4, <1>5, Zenon DEF Quiet

\* What a step concludes with an outcome.
LEMMA ReturnSteps ==
    ASSUME NEW t, NEW c, Sound(t), NEW r \in {"PROGRESS", "EMPTY", "BLOCKED", "STOPPED", "RETRY"},
           r = "STOPPED" => t.stopped \/ t.closing
    PROVE  Stepped(t, Return(t, r), c)
<1> DEFINE u == Return(t, r)
<1>1. DOMAIN t = Fields BY DEF Sound
<1>2. Only({"result"}, t, u) /\ u.result = r BY <1>1, ReturnFields
<1> HIDE DEF u
<1>3. /\ u.queue = t.queue /\ u.line = t.line /\ u.deferred = t.deferred
      /\ u.stopped = t.stopped /\ u.closing = t.closing /\ u.arg = t.arg /\ u.held = t.held
      /\ u.relieved = t.relieved /\ u.ctlPage = t.ctlPage /\ u.gate = t.gate
      /\ u.kind = t.kind
  BY <1>2, Untouched
<1>4. DOMAIN u = Fields BY <1>2 DEF Only
<1>5. Sound(u) BY <1>3, <1>4, Zenon DEF Sound
<1>6. Keeps(t, u, c) BY <1>3, Zenon DEF Keeps, Has
<1>7. Frozen(t, u) BY <1>3, Zenon DEF Frozen, Requested
<1>8. Outcome(u) BY <1>2, <1>3, Zenon DEF Outcome
<1> QED BY <1>3, <1>5, <1>6, <1>7, <1>8, Zenon DEF Stepped, u

\* What a step that rests at an await keeps.
LEMMA RestSteps ==
    ASSUME NEW t, NEW u, NEW c, Sound(t), Only(Resting \cup {"pc", "sel"}, t, u),
           u.kind = t.kind
    PROVE  /\ Sound(u) /\ Keeps(t, u, c) /\ Frozen(t, u) /\ u.deferred = t.deferred
           /\ u.line = t.line /\ u.queue = t.queue
<1>3. /\ u.queue = t.queue /\ u.line = t.line /\ u.deferred = t.deferred
      /\ u.stopped = t.stopped /\ u.closing = t.closing /\ u.arg = t.arg /\ u.held = t.held
      /\ u.relieved = t.relieved /\ u.ctlPage = t.ctlPage /\ u.gate = t.gate
  BY Untouched DEF Resting
<1>4. DOMAIN u = Fields BY DEF Only
<1>5. Sound(u) BY <1>3, <1>4, Zenon DEF Sound
<1>6. Keeps(t, u, c) BY <1>3, Zenon DEF Keeps, Has
<1>7. Frozen(t, u) BY <1>3, Zenon DEF Frozen, Requested
<1> QED BY <1>3, <1>5, <1>6, <1>7

LEMMA AwaitFields ==
    ASSUME NEW t, DOMAIN t = Fields, NEW pc
    PROVE  /\ Only(Resting \cup {"pc", "sel"}, t, Await(t, pc))
           /\ Await(t, pc).kind = t.kind /\ Await(t, pc).pc = pc /\ Await(t, pc).result = "none"
           /\ Await(t, pc).late = {} /\ Await(t, pc).answer = Unread
<1> DEFINE r == Rest(t)
<1>1. /\ Only(Resting, t, r) /\ r.answer = Unread /\ r.late = {} /\ r.result = "none"
  BY RestFields
<1>2. DOMAIN r = Fields BY <1>1 DEF Only
<1>3. Await(t, pc) = [r EXCEPT !.pc = pc, !.kind = t.kind] BY DEF Await
<1> HIDE DEF r
<1>4. /\ Only({"pc", "kind"}, r, Await(t, pc))
      /\ Await(t, pc).kind = t.kind /\ Await(t, pc).pc = pc
      /\ Await(t, pc).result = r.result
      /\ Await(t, pc).late = r.late /\ Await(t, pc).answer = r.answer
  BY <1>2, <1>3, FieldsListed, Zenon DEF Only
<1>5. Only(Resting \cup {"pc", "kind"}, t, Await(t, pc)) BY <1>1, <1>4, OnlyJoins
<1>6. Only(Resting \cup {"pc", "sel"}, t, Await(t, pc)) BY <1>5 DEF Only, Resting
<1> QED BY <1>1, <1>4, <1>6

LEMMA AwaitAsks ==
    ASSUME NEW t, NEW c, Sound(t), NEW pc \in {"page", "next", "ctlpage"},
           t.kind = IF pc = "ctlpage" THEN "prio" ELSE "step"
    PROVE  Asked(t, Await(t, pc), c)
<1> DEFINE u == Await(t, pc)
<1>1. DOMAIN t = Fields BY DEF Sound
<1>2. /\ Only(Resting \cup {"pc", "sel"}, t, u) /\ u.kind = t.kind /\ u.pc = pc
      /\ u.result = "none" /\ u.late = {} /\ u.answer = Unread
  BY <1>1, AwaitFields
<1> HIDE DEF u
<1>3. Sound(u) /\ Keeps(t, u, c) /\ Frozen(t, u) /\ u.deferred = t.deferred
  BY <1>2, RestSteps
<1>4. Asking(u) BY <1>2 DEF Asking
<1> QED BY <1>3, <1>4, Zenon DEF Asked, u

-----------------------------------------------------------------------------
(* Operators on the line *)

LEMMA ContainsSet ==
    ASSUME NEW S, NEW q \in Seq(S), NEW e
    PROVE  Contains(q, e) <=> e \in ToSet(q)
<1>1. DOMAIN q = 1..Len(q) BY LenProperties
<1> QED BY <1>1 DEF Contains, ToSet

LEMMA SeqWithin ==
    ASSUME NEW S, NEW T, NEW q \in Seq(S), ToSet(q) \subseteq T
    PROVE  q \in Seq(T)
<1>1. q \in [1..Len(q) -> S] /\ Len(q) \in Nat /\ DOMAIN q = 1..Len(q) BY LenProperties
<1>2. \A i \in 1..Len(q) : q[i] \in T BY <1>1 DEF ToSet
<1> QED BY <1>1, <1>2, SeqDef

LEMMA KeepSingle ==
    ASSUME NEW q \in Seq(Events), Single(q), NEW kept
    PROVE  Single(Keep(q, kept))
<1> DEFINE k == Keep(q, kept)
<1>1. ASSUME NEW i \in DOMAIN k, NEW j \in DOMAIN k, i < j, k[i] = k[j]
      PROVE  k[i] \in Rosters
  <2>1. PICK a \in DOMAIN q, b \in DOMAIN q : a < b /\ k[i] = q[a] /\ k[j] = q[b]
    BY <1>1, KeepFrom
  <2> HIDE DEF k
  <2> QED BY <1>1, <2>1 DEF Single
<1> HIDE DEF k
<1>2. Single(k) BY <1>1 DEF Single
<1> QED BY <1>2 DEF k

\* A record whose line and queue changed, and still holds every turn's input.
LEMMA LineQuiet ==
    ASSUME NEW t, NEW u, NEW c, Sound(t), Only({"line", "queue", "first"}, t, u),
           u.line \in Seq(Events), Single(u.line), u.queue \in Seq(Events \cup {Resync}),
           Requested(t) => Requested(u),
           \A m \in Msgs : (c[m] \in Unsettled /\ Has(t, m)) => Has(u, m)
    PROVE  Quiet(t, u, c)
<1>1. /\ u.deferred = t.deferred
      /\ u.stopped = t.stopped /\ u.closing = t.closing /\ u.arg = t.arg /\ u.held = t.held
      /\ u.relieved = t.relieved /\ u.ctlPage = t.ctlPage /\ u.gate = t.gate
      /\ u.kind = t.kind /\ u.result = t.result
  BY Untouched
<1>2. DOMAIN u = Fields BY DEF Only
<1>3. Sound(u) BY <1>1, <1>2, Zenon DEF Sound
<1>4. Keeps(t, u, c) BY Zenon DEF Keeps
<1>5. Frozen(t, u) BY <1>1, Zenon DEF Frozen
<1> QED BY <1>1, <1>3, <1>4, <1>5, Zenon DEF Quiet

\* Only originals that no turn will run, or whose retry waits, are released.
LEMMA ReleaseQuiet ==
    ASSUME NEW t, NEW c, Sound(t), NEW ids,
           \A m \in Msgs : m \in ids => c[m] \notin {"free", "mine", "held"}
    PROVE  /\ Quiet(t, Release(t, c, ids), c)
           /\ Only({"line"}, t, Release(t, c, ids))
           /\ \E kept : Release(t, c, ids).line = Keep(t.line, kept)
<1> DEFINE kept == {e \in ToSet(t.line) : e \notin ids \/ HoldsRetry(c, e)}
           u == Release(t, c, ids)
<1>1. DOMAIN t = Fields /\ t.line \in Seq(Events) /\ Single(t.line)
      /\ t.queue \in Seq(Events \cup {Resync})
  BY DEF Sound
<1>2. u = [t EXCEPT !.line = Keep(t.line, kept)] BY DEF Release
<1>3. Only({"line"}, t, u) /\ u.line = Keep(t.line, kept)
  <2> HIDE DEF kept, u
  <2> QED BY <1>1, <1>2, FieldsListed, Zenon DEF Only
<1>4. u.line \in Seq(Events) /\ ToSet(u.line) = ToSet(t.line) \cap kept
  BY <1>1, <1>3, KeepContents
<1>5. Single(u.line) BY <1>1, <1>3, KeepSingle
<1>6. u.queue = t.queue BY <1>3, Untouched
<1>7. ASSUME NEW m \in Msgs, c[m] \in Unsettled, Has(t, m) PROVE Has(u, m)
  <2>1. CASE Contains(t.queue, m) BY <1>6, <2>1 DEF Has
  <2>2. CASE Contains(t.line, m)
    <3>1. m \in ToSet(t.line) BY <1>1, <2>2, ContainsSet
    <3>2. m \in kept BY <1>7, <3>1 DEF HoldsRetry, KeepsOriginal, Ordinary, Unsettled
    <3>3. m \in ToSet(u.line) BY <1>4, <3>1, <3>2
    <3>4. Contains(u.line, m) BY <1>4, <3>3, ContainsSet
    <3> QED BY <3>4 DEF Has
  <2> QED BY <1>7, <2>1, <2>2 DEF Has
<1> HIDE DEF u, kept
<1>8. Only({"line", "queue", "first"}, t, u) BY <1>3 DEF Only
<1>9. Requested(t) => Requested(u) BY <1>6 DEF Requested
<1>10. u.queue \in Seq(Events \cup {Resync}) BY <1>1, <1>6
<1>11. Quiet(t, u, c) BY <1>4, <1>5, <1>7, <1>8, <1>9, <1>10, LineQuiet
<1> QED BY <1>3, <1>11 DEF u

LEMMA AddKeeps ==
    ASSUME NEW q \in Seq(Events), Single(q), NEW e \in Events
    PROVE  /\ Add(q, e) \in Seq(Events) /\ Single(Add(q, e))
           /\ ToSet(Add(q, e)) = ToSet(q) \cup {e}
<1>1. Contains(q, e) <=> e \in ToSet(q) BY ContainsSet
<1>2. CASE e \notin Rosters /\ Contains(q, e) BY <1>1, <1>2 DEF Add
<1>3. CASE ~(e \notin Rosters /\ Contains(q, e))
  <2> DEFINE a == Append(q, e)
             n == Len(q)
  <2>1. Add(q, e) = a BY <1>3 DEF Add
  <2>2. /\ a \in Seq(Events) /\ Len(a) = n + 1 /\ a[n + 1] = e
        /\ \A i \in 1..n : a[i] = q[i]
    BY AppendProperties
  <2>3. n \in Nat /\ DOMAIN q = 1..n /\ DOMAIN a = 1..(n + 1)
    BY <2>2, LenProperties
  <2>4. ToSet(a) = ToSet(q) \cup {e} BY AppendContents
  <2>5. ASSUME NEW i \in DOMAIN a, NEW j \in DOMAIN a, i < j, a[i] = a[j]
        PROVE  a[i] \in Rosters
    <3> HIDE DEF a, n
    <3>1. i \in 1..n BY <2>3, <2>5
    <3>2. CASE j \in 1..n BY <2>2, <2>3, <2>5, <3>1, <3>2 DEF Single
    <3>3. CASE j \notin 1..n
      <4>1. j = n + 1 BY <2>3, <3>3
      <4>2. q[i] = e /\ a[i] = e BY <2>2, <2>5, <3>1, <4>1
      <4>3. e \in ToSet(q) BY <2>3, <3>1, <4>2 DEF ToSet
      <4> QED BY <1>1, <1>3, <4>2, <4>3
    <3> QED BY <3>2, <3>3
  <2> HIDE DEF a
  <2>6. Single(a) BY <2>5 DEF Single
  <2> QED BY <2>1, <2>2, <2>4, <2>6
<1> QED BY <1>2, <1>3

\* The lines that can be.
Lines == {q \in Seq(Events) : Single(q)}

\* Absorbed events join the line, none is lost and none is held twice.
LEMMA JoinedKeeps ==
    ASSUME NEW line \in Lines, NEW events \in Seq(Events)
    PROVE  /\ Joined(line, events) \in Lines
           /\ ToSet(line) \cup ToSet(events) \subseteq ToSet(Joined(line, events))
<1> DEFINE n == Len(events)
           V == Lines
           F == [i \in 1..n |-> [q \in V |-> Add(q, events[i])]]
           Def(g) == [i \in 0..n |-> IF i = 0 THEN line ELSE Add(g[i - 1], events[i])]
           joined == CHOOSE g : g = Def(g)
<1>1. n \in Nat /\ DOMAIN events = 1..n /\ \A i \in 1..n : events[i] \in Events
  BY LenProperties
<1>2. \A q \in V, i \in 1..n : /\ Add(q, events[i]) \in V
                               /\ ToSet(Add(q, events[i])) = ToSet(q) \cup {events[i]}
  BY <1>1, AddKeeps DEF Lines
<1>3. Joined(line, events) = joined[n] BY Zenon DEF Joined
<1> HIDE DEF n, V
<1>4. F \in [1..n -> [V -> V]] BY <1>2
<1>5. \A i \in 1..n, q \in V : F[i][q] = Add(q, events[i]) OBVIOUS
<1>6. line \in V BY DEF V
<1> HIDE DEF F
<1>7. PICK g \in [0..n -> V] : Recurses(g, n, line, F) BY <1>1, <1>4, <1>6, RecursionDefined
<1>8. \A i \in 1..n : i - 1 \in 0..n /\ i \in 0..n BY <1>1
<1>9. \A i \in 0..n : i = 0 \/ i \in 1..n BY <1>1
<1>10. \A i \in 1..n : g[i] = Add(g[i - 1], events[i]) BY <1>5, <1>7, <1>8 DEF Recurses
<1>11. g = Def(g) BY <1>7, <1>9, <1>10 DEF Recurses
<1>12. joined = Def(joined)
  <2> HIDE DEF Def
  <2> QED BY <1>11
<1> HIDE DEF joined
<1>13. \A i \in 0..n : joined[i] = IF i = 0 THEN line ELSE Add(joined[i - 1], events[i])
  BY <1>12
<1>14. joined[0] = line /\ \A i \in 1..n : joined[i] = Add(joined[i - 1], events[i])
  <2>1. 0 \in 0..n /\ \A i \in 1..n : i # 0 BY <1>1
  <2> QED BY <1>8, <1>13, <2>1
<1> DEFINE D == {i \in 0..n : /\ joined[i] \in V /\ ToSet(line) \subseteq ToSet(joined[i])
                              /\ \A k \in 1..i : events[k] \in ToSet(joined[i])}
<1>15. 0 \in D BY <1>1, <1>6, <1>14
<1>16. ASSUME NEW i \in 0..(n - 1), i \in D PROVE i + 1 \in D
  <2>1. /\ i + 1 \in 1..n /\ i + 1 - 1 = i /\ i + 1 \in 0..n
        /\ \A k \in 1..(i + 1) : k \in 1..i \/ k = i + 1
    BY <1>1
  <2>2. joined[i + 1] = Add(joined[i], events[i + 1]) BY <1>14, <2>1
  <2>3. joined[i + 1] \in V /\ ToSet(joined[i + 1]) = ToSet(joined[i]) \cup {events[i + 1]}
    BY <1>2, <1>16, <2>1, <2>2
  <2> QED BY <1>16, <2>1, <2>3
<1> HIDE DEF D
<1>17. 0..n \subseteq D BY <1>1, <1>15, <1>16, Inductive
<1>18. n \in 0..n BY <1>1
<1>19. n \in D BY <1>17, <1>18
<1>20. ToSet(events) \subseteq ToSet(joined[n]) BY <1>1, <1>19 DEF D, ToSet
<1> QED BY <1>3, <1>19, <1>20 DEF D, V

\* The queue without its recovery request holds its events.
LEMMA QueuedEvents ==
    ASSUME NEW t, Sound(t)
    PROVE  Queued(t) \in Seq(Events) /\ ToSet(Queued(t)) = ToSet(t.queue) \ {Resync}
<1>1. t.queue \in Seq(Events \cup {Resync}) BY DEF Sound
<1>2. /\ Queued(t) \in Seq(Events \cup {Resync})
      /\ ToSet(Queued(t)) = ToSet(t.queue) \cap (ToSet(t.queue) \ {Resync})
  BY <1>1, KeepContents DEF Queued
<1>3. ToSet(t.queue) \subseteq Events \cup {Resync}
  <2>1. \A i \in 1..Len(t.queue) : t.queue[i] \in Events \cup {Resync} BY <1>1, LenProperties
  <2> QED BY <1>1, <2>1, LenProperties DEF ToSet
<1>4. ToSet(Queued(t)) = ToSet(t.queue) \ {Resync} BY <1>2
<1>5. ToSet(Queued(t)) \subseteq Events BY <1>3, <1>4
<1> QED BY <1>2, <1>4, <1>5, SeqWithin

LEMMA AbsorbQuiet ==
    ASSUME NEW t, NEW c, Sound(t), config \in Scenarios
    PROVE  Quiet(t, Absorb(t), c) /\ Only({"line", "queue", "first"}, t, Absorb(t))
<1> DEFINE u == Absorb(t)
           line == Joined(t.line, Queued(t))
           queue == Keep(t.queue, {Resync})
           first == IF t.first = 0 /\ ~t.sync
                    THEN First(Queued(t), ToSet(t.queue) \ Rosters) ELSE t.first
<1>1. /\ DOMAIN t = Fields /\ t.line \in Seq(Events) /\ Single(t.line)
      /\ t.queue \in Seq(Events \cup {Resync})
  BY DEF Sound
<1>2. u = [t EXCEPT !.line = line, !.first = first, !.queue = queue] BY DEF Absorb
<1>3. Queued(t) \in Seq(Events) /\ ToSet(Queued(t)) = ToSet(t.queue) \ {Resync}
  BY QueuedEvents
<1>4. t.line \in Lines BY <1>1 DEF Lines
<1>5. line \in Lines /\ ToSet(t.line) \cup ToSet(Queued(t)) \subseteq ToSet(line)
  BY <1>3, <1>4, JoinedKeeps
<1>6. queue \in Seq(Events \cup {Resync}) /\ ToSet(queue) = ToSet(t.queue) \cap {Resync}
  BY <1>1, KeepContents
<1> HIDE DEF u, line, queue, first
<1>7. Only({"line", "queue", "first"}, t, u) /\ u.line = line /\ u.queue = queue
  BY <1>1, <1>2, FieldsListed, Zenon DEF Only
<1>8. u.line \in Seq(Events) /\ Single(u.line) BY <1>5, <1>7 DEF Lines
<1>9. ASSUME Requested(t) PROVE Requested(u)
  <2>1. Resync \in ToSet(t.queue) BY <1>1, <1>9, ContainsSet DEF Requested
  <2>2. Resync \in ToSet(queue) BY <1>6, <2>1
  <2> QED BY <1>6, <1>7, <2>2, ContainsSet DEF Requested
<1>10. ASSUME NEW m \in Msgs, Has(t, m) PROVE Has(u, m)
  <2>1. m # Resync
    <3>1. Resync \notin Nat /\ config.n \in Nat BY ScenariosAssumption
    <3> QED BY <3>1 DEF Msgs
  <2>2. m \in ToSet(t.line) \/ m \in ToSet(t.queue) BY <1>1, <1>10, ContainsSet DEF Has
  <2>3. m \in ToSet(u.line) BY <1>3, <1>5, <1>7, <2>1, <2>2
  <2> QED BY <1>8, <2>3, ContainsSet DEF Has
<1>11. u.queue \in Seq(Events \cup {Resync}) BY <1>6, <1>7
<1>12. Quiet(t, u, c) BY <1>7, <1>8, <1>9, <1>10, <1>11, LineQuiet
<1> QED BY <1>7, <1>12 DEF u

-----------------------------------------------------------------------------
(* Operators that end or go on with a step *)

LEMMA OnlySelf ==
    ASSUME NEW t, DOMAIN t = Fields, NEW fs
    PROVE  Only(fs, t, t)
BY DEF Only

LEMMA DeferFields ==
    ASSUME NEW t, DOMAIN t = Fields, NEW e
    PROVE  Only({"deferred", "ctl"}, t, Defer(t, e)) /\ Defer(t, e).deferred = e
<1>1. CASE e = t.deferred BY <1>1, OnlySelf DEF Defer
<1>2. CASE e # t.deferred
  <2>1. Defer(t, e) = [t EXCEPT !.deferred = e, !.ctl = 0] BY <1>2 DEF Defer
  <2> QED BY <2>1, FieldsListed, Zenon DEF Only
<1> QED BY <1>1, <1>2

\* Deferring changes nothing else that the invariant speaks of.
LEMMA DeferSound ==
    ASSUME NEW t, NEW c, Sound(t), NEW e
    PROVE  /\ Sound(Defer(t, e)) /\ Keeps(t, Defer(t, e), c) /\ Frozen(t, Defer(t, e))
           /\ Defer(t, e).deferred = e /\ Defer(t, e).result = t.result
           /\ Only({"deferred", "ctl"}, t, Defer(t, e))
<1> DEFINE u == Defer(t, e)
<1>1. DOMAIN t = Fields BY DEF Sound
<1>2. Only({"deferred", "ctl"}, t, u) /\ u.deferred = e BY <1>1, DeferFields
<1> HIDE DEF u
<1>3. /\ u.queue = t.queue /\ u.line = t.line
      /\ u.stopped = t.stopped /\ u.closing = t.closing /\ u.arg = t.arg /\ u.held = t.held
      /\ u.relieved = t.relieved /\ u.ctlPage = t.ctlPage /\ u.gate = t.gate
      /\ u.kind = t.kind /\ u.result = t.result
  BY <1>2, Untouched
<1>4. DOMAIN u = Fields BY <1>2 DEF Only
<1>5. Sound(u) BY <1>3, <1>4, Zenon DEF Sound
<1>6. Keeps(t, u, c) BY <1>3, Zenon DEF Keeps, Has
<1>7. Frozen(t, u) BY <1>3, Zenon DEF Frozen, Requested
<1> QED BY <1>2, <1>3, <1>5, <1>6, <1>7 DEF u

LEMMA UndeferQuiet ==
    ASSUME NEW t, NEW c, Sound(t)
    PROVE  Quiet(t, Defer(t, 0), c)
BY DeferSound DEF Quiet

LEMMA DeferSteps ==
    ASSUME NEW t, NEW c, Sound(t), NEW e, NEW r \in {"BLOCKED", "RETRY"}
    PROVE  Stepped(t, Return(Defer(t, e), r), c)
<1> DEFINE d == Defer(t, e)
           u == Return(d, r)
<1>1. Sound(d) /\ Keeps(t, d, c) /\ Frozen(t, d) BY DeferSound
<1>2. DOMAIN d = Fields BY <1>1 DEF Sound
<1> HIDE DEF d
<1>3. Stepped(d, u, c) BY <1>1, ReturnSteps
<1>4. u.result = r BY <1>2, ReturnFields
<1> HIDE DEF u
<1>5. Keeps(t, u, c) BY <1>1, <1>3, Zenon DEF Stepped, Keeps
<1>6. Frozen(t, u) BY <1>1, <1>3, Zenon DEF Stepped, Frozen
<1>7. Stepped(t, u, c) BY <1>3, <1>4, <1>5, <1>6 DEF Stepped
<1> QED BY <1>7 DEF u, d

LEMMA MarkQuiet ==
    ASSUME NEW t, NEW c, Sound(t), NEW ms
    PROVE  Quiet(t, Mark(t, c, ms), c) /\ Only({"bounds"}, t, Mark(t, c, ms))
<1> DEFINE u == Mark(t, c, ms)
<1>1. DOMAIN t = Fields BY DEF Sound
<1>2. Only({"bounds"}, t, u) BY <1>1, FieldsListed, Zenon DEF Only, Mark
<1> HIDE DEF u
<1>3. Quiet(t, u, c) BY <1>2, InertQuiet DEF Inert
<1> QED BY <1>2, <1>3 DEF u

LEMMA StartLocalSteps ==
    ASSUME NEW t, NEW c, Sound(t), NEW e, e \notin Msgs, t.kind # "prio"
    PROVE  Stepped(t, StartLocal(t, c, e), c)
<1>1. CASE t.stopped /\ e \in Hubs
  <2>1. StartLocal(t, c, e) = Return(t, "STOPPED") BY <1>1 DEF StartLocal
  <2> QED BY <1>1, <2>1, ReturnSteps
<1>2. CASE ~(t.stopped /\ e \in Hubs)
  <2> DEFINE r == Rest(t)
             u == StartLocal(t, c, e)
  <2>1. DOMAIN t = Fields BY DEF Sound
  <2>2. u = [r EXCEPT !.pc = "local", !.local = e, !.kind = t.kind] BY <1>2 DEF StartLocal
  <2>3. Only(Resting, t, r) /\ r.answer = Unread /\ r.late = {} /\ r.result = "none"
    BY <2>1, RestFields
  <2>4. DOMAIN r = Fields BY <2>3 DEF Only
  <2> HIDE DEF r, u
  <2>5. /\ Only({"pc", "local", "kind"}, r, u) /\ u.pc = "local" /\ u.local = e /\ u.kind = t.kind
    BY <2>2, <2>4, FieldsListed, Zenon DEF Only
  <2>6. u.answer = r.answer /\ u.late = r.late /\ u.result = r.result BY <2>5, Untouched
  <2>7. Only(Resting \cup {"pc", "local", "kind"}, t, u) BY <2>3, <2>5, OnlyJoins
  <2>8. Only(Resting \cup {"pc", "sel"}, t, u) BY <2>7 DEF Only, Resting
  <2>9. Sound(u) /\ Keeps(t, u, c) /\ Frozen(t, u) /\ u.deferred = t.deferred
    BY <2>5, <2>8, RestSteps
  <2>10. Launched(u) BY <2>3, <2>5, <2>6 DEF Launched
  <2> QED BY <2>9, <2>10, Zenon DEF Stepped, u
<1> QED BY <1>1, <1>2

\* A turn is dispatched: a control out of turn, or ordinary input in its place.
LEMMA DispatchSteps ==
    ASSUME NEW t, NEW c, Sound(t), NEW members, NEW prio \in BOOLEAN,
           t.kind # "hk", prio <=> t.kind = "prio",
           \/ prio
           \/ \A i, j \in DOMAIN t.line :
                (i < j /\ \E k \in DOMAIN members : t.line[j] = members[k].key)
                => t.line[i] \notin Locals
    PROVE  Stepped(t, Dispatch(t, c, members, prio), c)
<1> DEFINE key == DispatchKey(members, prio)
           u == Dispatch(t, c, members, prio)
<1>1. CASE t.stopped
  <2>1. u = Return(t, "STOPPED") BY <1>1 DEF Dispatch
  <2> QED BY <1>1, <2>1, ReturnSteps
<1>2. CASE ~t.stopped /\ key \in t.sel
  <2>1. u = Return(t, "BLOCKED") BY <1>2 DEF Dispatch
  <2> QED BY <2>1, ReturnSteps
<1>3. CASE ~t.stopped /\ key \notin t.sel
  <2> DEFINE r == Rest(t)
             ids == [i \in DOMAIN members |-> members[i].key]
             ctl == members[1].disposition = "control" /\ members[1].key \notin t.declined
             sel == r.sel \cup {key}
  <2>1. DOMAIN t = Fields BY DEF Sound
  <2>2. key.ids = ids BY DEF DispatchKey
  <2>3. u = [r EXCEPT !.pc = "run", !.members = ids, !.prio = prio, !.sel = sel,
                      !.kind = t.kind, !.control = ctl]
    BY <1>3, <2>2, Zenon DEF Dispatch
  <2>4. Only(Resting, t, r) /\ r.answer = Unread /\ r.late = {} /\ r.result = "none"
    BY <2>1, RestFields
  <2>5. DOMAIN r = Fields BY <2>4 DEF Only
  <2>6. ToSet(ids) = {members[k].key : k \in DOMAIN members} BY DEF ToSet
  <2> HIDE DEF r, u, ids, ctl, sel, key
  <2>7. /\ Only({"pc", "members", "prio", "sel", "kind", "control"}, r, u)
        /\ u.pc = "run" /\ u.members = ids /\ u.prio = prio /\ u.kind = t.kind
    BY <2>3, <2>5, FieldsListed, Zenon DEF Only
  <2>8. u.answer = r.answer /\ u.late = r.late /\ u.result = r.result BY <2>7, Untouched
  <2>9. Only(Resting \cup {"pc", "members", "prio", "sel", "kind", "control"}, t, u)
    BY <2>4, <2>7, OnlyJoins
  <2>10. Only(Resting \cup {"pc", "sel"}, t, u) BY <2>9 DEF Only, Resting
  <2>11. /\ Sound(u) /\ Keeps(t, u, c) /\ Frozen(t, u) /\ u.deferred = t.deferred
         /\ u.line = t.line
    BY <2>7, <2>10, RestSteps
  <2>12. u.prio \/ Placed(u)
    <3>1. CASE prio BY <2>7, <3>1
    <3>2. CASE ~prio
      <4>1. \A e \in ToSet(u.members) : \E k \in DOMAIN members : e = members[k].key
        BY <2>6, <2>7
      <4> QED BY <2>11, <3>2, <4>1 DEF Placed
    <3> QED BY <3>1, <3>2
  <2>13. Launched(u) BY <2>4, <2>7, <2>8, <2>12 DEF Launched
  <2> QED BY <2>11, <2>13, Zenon DEF Stepped, u
<1> QED BY <1>1, <1>2, <1>3

LEMMA AdvanceScanSteps ==
    ASSUME NEW t, NEW c, Sound(t), NEW read, NEW exhausted, NEW skipped, NEW segment
    PROVE  Stepped(t, AdvanceScan(t, c, read, exhausted, skipped, segment), c)
<1> DEFINE ended == [t EXCEPT !.scan = 0, !.sync = t.sync \/ exhausted,
                              !.recovery = t.recovery /\ ~exhausted]
           next == [t EXCEPT !.scan = read.next]
           u == AdvanceScan(t, c, read, exhausted, skipped, segment)
<1>1. DOMAIN t = Fields BY DEF Sound
<1>2. Only({"scan", "sync", "recovery"}, t, ended) BY <1>1, FieldsListed, Zenon DEF Only
<1>3. Only({"scan"}, t, next) BY <1>1, FieldsListed, Zenon DEF Only
<1>4. u = Return(next, "PROGRESS") \/ u = Return(ended, "PROGRESS") \/ u = Return(ended, "EMPTY")
  BY Zenon DEF AdvanceScan
<1> HIDE DEF ended, next, u
<1>5. Quiet(t, ended, c) BY <1>2, InertQuiet DEF Inert
<1>6. Quiet(t, next, c) BY <1>3, InertQuiet DEF Inert
<1>7. Stepped(next, Return(next, "PROGRESS"), c) BY <1>6, ReturnSteps DEF Quiet
<1>8. /\ Stepped(ended, Return(ended, "PROGRESS"), c)
      /\ Stepped(ended, Return(ended, "EMPTY"), c)
  BY <1>5, ReturnSteps DEF Quiet
<1>9. Stepped(t, u, c) BY <1>4, <1>5, <1>6, <1>7, <1>8, QuietSteps
<1> QED BY <1>9 DEF u

-----------------------------------------------------------------------------
(* The place of local events *)

LEMMA ScenarioFacts ==
    ASSUME config \in Scenarios
    PROVE  /\ config.n \in Nat /\ Msgs = 1..config.n /\ Msgs \subseteq Nat /\ 0 \notin Msgs
           /\ Resync \notin Msgs /\ Resync \notin Events
           /\ \A e \in Locals : e \notin Msgs /\ e # 0
           /\ \A e \in Rosters : e \notin Msgs /\ e \in Locals
           /\ \A e \in Events : e \in Msgs \/ e \in Locals
           /\ TurnSize \in Nat \ {0} /\ Batching \in BOOLEAN
BY ScenariosAssumption DEF Msgs, Locals, Rosters, Hubs, Events, TurnSize, Batching

\* What local_predecessor names has no local event before it.
LEMMA PriorFirst ==
    ASSUME config \in Scenarios, NEW u, Sound(u), NEW c, NEW m,
           LocalPredecessor(u, c, m) \in Msgs,
           NEW i \in DOMAIN u.line, NEW j \in DOMAIN u.line, i < j,
           u.line[j] = LocalPredecessor(u, c, m)
    PROVE  u.line[i] \notin Locals
<1> DEFINE wanted == {e \in ToSet(u.line) : ~HoldsRetry(c, e)}
           kept == Keep(u.line, wanted)
           at == {k \in DOMAIN kept : kept[k] = m}
           p == LocalPredecessor(u, c, m)
<1>1. u.line \in Seq(Events) /\ Single(u.line) BY DEF Sound
<1>2. p = IF \E k \in at : \E l \in 1..(k - 1) : ~Ordinary(kept[l]) THEN kept[1] ELSE 0
  BY DEF LocalPredecessor
<1>3. kept \in Seq(Events) /\ ToSet(kept) = ToSet(u.line) \cap wanted /\ Single(kept)
  BY <1>1, KeepContents, KeepSingle
<1>4. p # 0 BY ScenarioFacts
<1>5. p = kept[1] /\ 1 \in DOMAIN kept
  <2>1. PICK k \in at : p = kept[1] BY <1>2, <1>4
  <2>2. k \in DOMAIN kept /\ DOMAIN kept = 1..Len(kept) /\ Len(kept) \in Nat
    BY <1>3, LenProperties
  <2> HIDE DEF kept, at, p
  <2>3. k \in Nat /\ k >= 1 BY <2>2
  <2> QED BY <2>1, <2>2, <2>3
<1>6. p \in wanted BY <1>3, <1>5 DEF ToSet
<1>7. ASSUME u.line[i] \in Locals PROVE FALSE
  <2>1. u.line[i] \in wanted BY <1>7, ScenarioFacts DEF HoldsRetry, Ordinary, ToSet
  <2>2. u.line[j] \in wanted BY <1>6
  <2>3. PICK a \in DOMAIN kept, b \in DOMAIN kept : a < b /\ kept[b] = u.line[j]
    <3> HIDE DEF wanted
    <3>1. \E a, b \in DOMAIN Keep(u.line, wanted) :
            /\ a < b /\ Keep(u.line, wanted)[a] = u.line[i]
            /\ Keep(u.line, wanted)[b] = u.line[j]
      BY <1>1, <2>1, <2>2, KeepOrder
    <3> QED BY <3>1
  <2>4. 1 < b
    <3>1. DOMAIN kept = 1..Len(kept) /\ Len(kept) \in Nat BY <1>3, LenProperties
    <3> HIDE DEF kept
    <3> QED BY <2>3, <3>1
  <2>5. kept[1] = kept[b] BY <1>5, <2>3
  <2>6. p \in Rosters BY <1>3, <1>5, <2>4, <2>5 DEF Single
  <2> QED BY <2>6, ScenarioFacts
<1> QED BY <1>7

\* Input local_predecessor lets pass has no local event before it.
LEMMA NoPrior ==
    ASSUME config \in Scenarios, NEW u, Sound(u), NEW c, NEW m \in Msgs, ~HoldsRetry(c, m),
           LocalPredecessor(u, c, m) = 0,
           NEW i \in DOMAIN u.line, NEW j \in DOMAIN u.line, i < j, u.line[j] = m
    PROVE  u.line[i] \notin Locals
<1> DEFINE wanted == {e \in ToSet(u.line) : ~HoldsRetry(c, e)}
           kept == Keep(u.line, wanted)
           at == {k \in DOMAIN kept : kept[k] = m}
<1>1. u.line \in Seq(Events) BY DEF Sound
<1>2. \/ ~\E k \in at : \E l \in 1..(k - 1) : ~Ordinary(kept[l])
      \/ (\E k \in at : \E l \in 1..(k - 1) : ~Ordinary(kept[l])) /\ kept[1] = 0
  BY DEF LocalPredecessor
<1>3. kept \in Seq(Events) BY <1>1, KeepContents
<1>4. DOMAIN kept = 1..Len(kept) /\ Len(kept) \in Nat /\ \A k \in DOMAIN kept : kept[k] \in Events
  BY <1>3, LenProperties, ElementOfSeq
<1>5. ~\E k \in at : \E l \in 1..(k - 1) : ~Ordinary(kept[l])
  <2>1. ASSUME NEW k \in at, NEW l \in 1..(k - 1), kept[1] = 0 PROVE FALSE
    <3>1. 1 \in DOMAIN kept
      <4>1. k \in DOMAIN kept OBVIOUS
      <4> HIDE DEF kept, at
      <4> QED BY <1>4, <4>1
    <3>2. 0 \in Events BY <1>4, <2>1, <3>1
    <3> QED BY <3>2, ScenarioFacts
  <2> QED BY <1>2, <2>1
<1>6. ASSUME u.line[i] \in Locals PROVE FALSE
  <2>1. u.line[i] \in wanted /\ ~Ordinary(u.line[i])
    BY <1>6, ScenarioFacts DEF HoldsRetry, Ordinary, ToSet
  <2>2. u.line[j] \in wanted BY DEF ToSet
  <2>3. PICK a \in DOMAIN kept, b \in DOMAIN kept :
          a < b /\ kept[a] = u.line[i] /\ kept[b] = u.line[j]
    <3> HIDE DEF wanted
    <3>1. \E a, b \in DOMAIN Keep(u.line, wanted) :
            /\ a < b /\ Keep(u.line, wanted)[a] = u.line[i]
            /\ Keep(u.line, wanted)[b] = u.line[j]
      BY <1>1, <2>1, <2>2, KeepOrder
    <3> QED BY <3>1
  <2>4. b \in at BY <2>3
  <2>5. a \in 1..(b - 1)
    <3> HIDE DEF kept
    <3> QED BY <1>4, <2>3
  <2> QED BY <1>5, <2>1, <2>3, <2>4, <2>5
<1> QED BY <1>6

\* The segment is the part of the line before its first local event.
LEMMA SegmentPlaces ==
    ASSUME config \in Scenarios, NEW t, Sound(t)
    PROVE  /\ Segment(t) \in Seq(Msgs)
           /\ \A j \in DOMAIN Segment(t) :
                /\ j \in DOMAIN t.line /\ Segment(t)[j] = t.line[j]
                /\ \A i \in DOMAIN t.line : i <= j => t.line[i] \in Msgs
<1> DEFINE stops == {i \in DOMAIN t.line : ~Ordinary(t.line[i])}
           stop == CHOOSE i \in stops : \A j \in stops : i <= j
           g == Segment(t)
<1>1. /\ t.line \in Seq(Events) /\ DOMAIN t.line = 1..Len(t.line) /\ Len(t.line) \in Nat
      /\ \A i \in DOMAIN t.line : t.line[i] \in Events
  BY LenProperties, ElementOfSeq DEF Sound
<1>2. \A i \in DOMAIN t.line : i \notin stops => t.line[i] \in Msgs BY DEF Ordinary
<1>3. CASE stops = {}
  <2>1. g = t.line BY <1>3 DEF Segment
  <2>2. \A i \in DOMAIN t.line : t.line[i] \in Msgs BY <1>2, <1>3
  <2>3. ToSet(t.line) \subseteq Msgs BY <2>2 DEF ToSet
  <2>4. g \in Seq(Msgs) BY <1>1, <2>1, <2>3, SeqWithin
  <2> HIDE DEF g
  <2> QED BY <2>1, <2>2, <2>4 DEF g
<1>4. CASE stops # {}
  <2>1. stops \in SUBSET Nat BY <1>1
  <2>2. \E i \in stops : \A j \in stops : i <= j
    <3> HIDE DEF stops
    <3> QED BY <1>4, <2>1, LeastNatural
  <2>3. stop \in stops /\ \A j \in stops : stop <= j BY <2>2
  <2>4. g = SubSeq(t.line, 1, stop - 1) BY <1>4 DEF Segment
  <2>5. stop \in 1..Len(t.line) BY <1>1, <2>3
  <2>6. ASSUME NEW i \in 1..(stop - 1) PROVE i \in DOMAIN t.line /\ t.line[i] \in Msgs
    <3>1. i \in DOMAIN t.line /\ i < stop /\ i \in Nat /\ stop \in Nat
      <4> HIDE DEF stop, stops
      <4> QED BY <1>1, <2>5
    <3>2. i \notin stops
      <4> HIDE DEF stop, stops
      <4> QED BY <2>3, <3>1
    <3> QED BY <1>2, <3>1, <3>2
  <2> HIDE DEF stop, stops, g
  <2>7. /\ Len(g) = stop - 1 /\ \A i \in 1..(stop - 1) : g[i] = t.line[i]
        /\ g \in Seq(Events)
    <3>1. stop - 1 \in Int /\ \A i \in 1..(stop - 1) : t.line[i] \in Events BY <1>1, <2>5
    <3>2. /\ g \in Seq(Events)
          /\ Len(g) = IF 1 <= stop - 1 THEN stop - 1 - 1 + 1 ELSE 0
          /\ \A i \in 1..(stop - 1 - 1 + 1) : g[i] = t.line[1 + i - 1]
      BY <1>1, <2>4, <3>1, SubSeqProperties
    <3>3. Len(g) = stop - 1 BY <2>5, <3>2
    <3>4. \A i \in 1..(stop - 1) : i \in 1..(stop - 1 - 1 + 1) /\ 1 + i - 1 = i BY <2>5
    <3> QED BY <3>2, <3>3, <3>4
  <2>8. DOMAIN g = 1..(stop - 1) BY <2>7, LenProperties
  <2>9. ToSet(g) \subseteq Msgs BY <2>6, <2>7, <2>8 DEF ToSet
  <2>10. g \in Seq(Msgs) BY <2>7, <2>9, SeqWithin
  <2>11. ASSUME NEW j \in DOMAIN g, NEW i \in DOMAIN t.line, i <= j PROVE t.line[i] \in Msgs
    <3>1. i \in 1..(stop - 1) BY <1>1, <2>5, <2>8, <2>11
    <3> QED BY <2>6, <3>1
  <2> QED BY <2>6, <2>7, <2>8, <2>10, <2>11 DEF g
<1> QED BY <1>3, <1>4

-----------------------------------------------------------------------------
(* Candidates *)

\* The candidates whose disposition fits the claims c.
Judged(c) ==
    {x \in CandidatesOf(Msgs) :
        /\ x.disposition \notin {"skip", "held"} => c[x.key] = "free"
        /\ x.disposition = "skip" => c[x.key] \notin {"free", "held", "mine"}}

LEMMA CandidateJudged ==
    ASSUME NEW t, NEW c, NEW m \in Msgs, NEW observed \in BOOLEAN
    PROVE  CandidateOf(t, c, m, observed) \in Judged(c) /\ CandidateOf(t, c, m, observed).key = m
<1> DEFINE d == Classify(t, c, m)
<1>1. /\ d \in Dispositions
      /\ d \notin {"skip", "held"} => c[m] = "free"
      /\ d = "skip" => c[m] \notin {"free", "held", "mine"}
  <2>1. CASE c[m] = "free" BY <2>1 DEF Classify, Dispositions
  <2>2. CASE c[m] \in {"held", "mine"}
    <3>1. d = "held" BY <2>2, Zenon DEF Classify
    <3> QED BY <3>1 DEF Dispositions
  <2>3. CASE c[m] \notin {"free", "held", "mine"}
    <3>1. d = "skip" BY <2>3, Zenon DEF Classify
    <3> QED BY <2>3, <3>1 DEF Dispositions
  <2> QED BY <2>1, <2>2, <2>3
<1> HIDE DEF d
<1>2. CandidateOf(t, c, m, observed) = [key |-> m, disposition |-> d, observed |-> observed]
  BY DEF CandidateOf, Candidate, d
<1> QED BY <1>1, <1>2 DEF Judged, CandidatesOf

LEMMA RowsJudged ==
    ASSUME NEW t, NEW c, NEW rows \in Seq(Msgs)
    PROVE  /\ RowCandidates(t, c, rows) \subseteq Judged(c)
           /\ \A x \in RowCandidates(t, c, rows) : x.key \in ToSet(rows)
<1>1. ToSet(rows) \subseteq Msgs BY ElementOfSeq, LenProperties DEF ToSet
<1>2. \A m \in ToSet(rows) : /\ CandidateOf(t, c, m, TRUE) \in Judged(c)
                             /\ CandidateOf(t, c, m, TRUE).key = m
  BY <1>1, CandidateJudged
<1> QED BY <1>2 DEF RowCandidates

LEMMA RetainedJudged ==
    ASSUME NEW t, NEW c, NEW line
    PROVE  /\ RetainedCandidates(t, c, line) \subseteq Judged(c)
           /\ \A x \in RetainedCandidates(t, c, line) : x.key \in ToSet(line)
<1>1. \A m \in Msgs : /\ CandidateOf(t, c, m, FALSE) \in Judged(c)
                      /\ CandidateOf(t, c, m, FALSE).key = m
  BY CandidateJudged
<1> QED BY <1>1 DEF RetainedCandidates, Ordinary

\* A merge of judged candidates is a sequence of them.
LEMMA MergeJudged ==
    ASSUME config \in Scenarios, NEW c, NEW a \in SUBSET Judged(c), NEW b \in SUBSET Judged(c)
    PROVE  Merge(a, b) \in Seq(Judged(c)) /\ ToSet(Merge(a, b)) \subseteq a \cup b
<1>1. config.n \in Nat /\ Msgs = 1..config.n BY ScenarioFacts
<1>2. a \in SUBSET CandidatesOf(1..config.n) /\ b \in SUBSET CandidatesOf(1..config.n)
  BY <1>1 DEF Judged
<1>3. Merge(a, b) \in Seq(a \cup b) BY <1>1, <1>2, MergeLists
<1>4. ToSet(Merge(a, b)) \subseteq a \cup b BY <1>3, ElementOfSeq, LenProperties DEF ToSet
<1>5. ToSet(Merge(a, b)) \subseteq Judged(c) BY <1>4
<1> QED BY <1>3, <1>4, <1>5, SeqWithin

LEMMA CandidatesJudged ==
    ASSUME config \in Scenarios, NEW t, NEW c, NEW rows \in Seq(Msgs)
    PROVE  Candidates(t, c, rows) \in Seq(Judged(c))
<1>1. RowCandidates(t, c, rows) \subseteq Judged(c) BY RowsJudged
<1>2. RetainedCandidates(t, c, t.line) \subseteq Judged(c) BY RetainedJudged
<1> QED BY <1>1, <1>2, MergeJudged DEF Candidates

\* A batch takes nothing from behind the first local event.
LEMMA BatchJudged ==
    ASSUME config \in Scenarios, NEW t, NEW c, NEW rows \in Seq(Msgs)
    PROVE  /\ BatchCandidates(t, c, rows) \in Seq(Judged(c))
           /\ \A x \in ToSet(BatchCandidates(t, c, rows)) :
                x.key \in ToSet(t.line) => x.key \in ToSet(Segment(t))
<1> DEFINE segment == Segment(t)
           later == {e \in ToSet(t.line) : Ordinary(e)} \ ToSet(segment)
           open(m) == \/ ~Bounded(t) \/ segment = <<>> \/ Contains(segment, m)
                      \/ m <= Last(segment)
           kept == {m \in ToSet(rows) : m \notin later /\ open(m)}
           a == RowCandidates(t, c, Keep(rows, kept))
           b == RetainedCandidates(t, c, segment)
<1>1. BatchCandidates(t, c, rows) = Merge(a, b) BY DEF BatchCandidates
<1>2. Keep(rows, kept) \in Seq(Msgs) /\ ToSet(Keep(rows, kept)) = ToSet(rows) \cap kept
  BY KeepContents
<1>3. \A m \in kept : m \notin later OBVIOUS
<1> HIDE DEF kept
<1>4. a \subseteq Judged(c) /\ \A x \in a : x.key \in kept BY <1>2, RowsJudged
<1>5. b \subseteq Judged(c) /\ \A x \in b : x.key \in ToSet(segment) BY RetainedJudged
<1> HIDE DEF a, b
<1>6. Merge(a, b) \in Seq(Judged(c)) /\ ToSet(Merge(a, b)) \subseteq a \cup b
  BY <1>4, <1>5, MergeJudged
<1>7. ASSUME NEW x \in a \cup b, x.key \in ToSet(t.line) PROVE x.key \in ToSet(segment)
  <2>1. x.key \in Msgs BY <1>4, <1>5 DEF Judged, CandidatesOf
  <2>2. x \in a => x.key \notin later BY <1>3, <1>4
  <2> QED BY <1>5, <1>7, <2>1, <2>2 DEF Ordinary
<1> QED BY <1>1, <1>6, <1>7

\* What run_selection selects from.
LEMMA ChosenJudged ==
    ASSUME config \in Scenarios, NEW t, Sound(t), NEW c, NEW read, read.rows \in Seq(Msgs)
    PROVE  /\ Chosen(t, c, read) \in Seq(Judged(c))
           /\ Batching => \A x \in ToSet(Chosen(t, c, read)) :
                x.key \in ToSet(t.line) => x.key \in ToSet(Segment(t))
<1>1. CASE Batching
  <2>1. Chosen(t, c, read) = BatchCandidates(t, c, read.rows) BY <1>1 DEF Chosen
  <2> QED BY <2>1, BatchJudged
<1>2. CASE ~Batching /\ read.rows = <<>> /\ t.sync
  <2> DEFINE g == Segment(t)
             q == [i \in DOMAIN g |-> CandidateOf(t, c, g[i], FALSE)]
  <2>1. Chosen(t, c, read) = q BY <1>2, Zenon DEF Chosen
  <2>2. g \in Seq(Msgs) BY SegmentPlaces
  <2> HIDE DEF g
  <2>3. DOMAIN g = 1..Len(g) /\ Len(g) \in Nat /\ \A i \in DOMAIN g : g[i] \in Msgs
    BY <2>2, LenProperties, ElementOfSeq
  <2>4. \A i \in 1..Len(g) : CandidateOf(t, c, g[i], FALSE) \in Judged(c)
    BY <2>3, CandidateJudged
  <2>5. q \in [1..Len(g) -> Judged(c)] BY <2>3, <2>4
  <2> HIDE DEF q
  <2>6. q \in Seq(Judged(c)) BY <2>3, <2>5, SeqDef
  <2> QED BY <1>2, <2>1, <2>6
<1>3. CASE ~Batching /\ ~(read.rows = <<>> /\ t.sync)
  <2> DEFINE all == Candidates(t, c, read.rows)
             k1 == {x \in ToSet(all) : x.key \in t.resumed}
             k2 == {x \in ToSet(all) : x.key \notin t.resumed}
  <2>1. Chosen(t, c, read) = Keep(all, k1) \o Keep(all, k2) BY <1>3, Zenon DEF Chosen
  <2>2. all \in Seq(Judged(c)) BY CandidatesJudged
  <2> HIDE DEF all, k1, k2
  <2>3. Keep(all, k1) \in Seq(Judged(c)) /\ Keep(all, k2) \in Seq(Judged(c))
    BY <2>2, KeepContents
  <2>4. Keep(all, k1) \o Keep(all, k2) \in Seq(Judged(c)) BY <2>3, ConcatProperties
  <2> QED BY <1>3, <2>1, <2>4
<1> QED BY <1>1, <1>2, <1>3

\* Only settled candidates are skipped.
LEMMA SkippedSettled ==
    ASSUME NEW c, NEW cs \in Seq(Judged(c)), NEW rows, NEW exhausted,
           NEW m \in Skipped(cs, rows, exhausted)
    PROVE  c[m] \notin {"free", "mine", "held"}
<1>1. \A x \in ToSet(cs) : x \in Judged(c) BY ElementOfSeq, LenProperties DEF ToSet
<1>2. PICK x \in ToSet(cs) : x.key = m /\ x.disposition = "skip" BY DEF Skipped
<1> QED BY <1>1, <1>2 DEF Judged

\* The prefix select_prefix returns for judged candidates.
LEMMA PrefixJudged ==
    ASSUME config \in Scenarios, NEW c, NEW cs \in Seq(Judged(c)),
           NEW listed, NEW cap \in Nat \ {0}, NEW reaches, NEW exhausted, NEW resumed
    PROVE  /\ SelectPrefix(cs, listed, cap, reaches, exhausted, resumed)
                \in Accumulators(ToSet(cs))
           /\ Batchable(SelectPrefix(cs, listed, cap, reaches, exhausted, resumed), listed, cap)
<1>1. Msgs \subseteq Nat BY ScenarioFacts
<1>2. ToSet(cs) \subseteq Judged(c) BY ElementOfSeq, LenProperties DEF ToSet
<1>3. ToSet(cs) \in SUBSET CandidatesOf(Nat) BY <1>1, <1>2 DEF Judged, CandidatesOf
<1>4. cs \in Seq(ToSet(cs)) BY SeqWithin
<1> QED BY <1>3, <1>4, PrefixBatchable

-----------------------------------------------------------------------------
(* The steps of a pass *)

\* A turn of listed messages that form no batch is one message, its own input.
LEMMA SingleInput ==
    ASSUME config \in Scenarios, NEW c, NEW cs \in Seq(Judged(c)),
           NEW sel \in Accumulators(ToSet(cs)), NEW listed, Batchable(sel, listed, 1),
           sel.members # <<>>
    PROVE  /\ Input(sel) \in Msgs /\ c[Input(sel)] = "free"
           /\ \A k \in DOMAIN sel.members : sel.members[k].key = Input(sel)
<1>1. sel.members \in Seq(ToSet(cs)) BY DEF Accumulators
<1>2. Len(sel.members) \in Nat \ {0} BY <1>1, EmptySeq
<1>3. Len(sel.members) = 1 /\ sel.stop # "frontier"
  <2>1. Len(sel.members) <= 1 /\ (sel.stop = "frontier" => Len(sel.members) < 1)
    BY Zenon DEF Batchable
  <2> DEFINE n == Len(sel.members)
  <2>2. n \in Nat \ {0} /\ n <= 1 /\ (sel.stop = "frontier" => n < 1) BY <1>2, <2>1
  <2> HIDE DEF n
  <2>3. n = 1 /\ ~(n < 1) BY <2>2
  <2> QED BY <2>2, <2>3 DEF n
<1>4. Input(sel) = sel.members[1].key BY <1>3, Zenon DEF Input
<1>5. DOMAIN sel.members = {1} BY <1>1, <1>3, LenProperties
<1>6. sel.members[1] \in ToSet(cs) BY <1>1, <1>3, ElementOfSeq
<1>7. sel.members[1] \in Judged(c) BY <1>6, ElementOfSeq, LenProperties DEF ToSet
<1>8. sel.members[1].disposition \notin {"skip", "held"} BY <1>5 DEF Batchable, ToSet
<1> QED BY <1>4, <1>5, <1>7, <1>8 DEF Judged, CandidatesOf

\* run_selection's end: whatever it dispatches has no local event before it.
LEMMA PruneSteps ==
    ASSUME config \in Scenarios, NEW t, NEW c, Sound(t), t.kind = "step",
           NEW read, NEW exhausted, NEW cs \in Seq(Judged(c)),
           Batching => \A x \in ToSet(cs) :
                         x.key \in ToSet(t.line) => x.key \in ToSet(Segment(t)),
           NEW sel \in Accumulators(ToSet(cs)), NEW listed,
           Batchable(sel, listed, IF Batching THEN TurnSize ELSE 1),
           NEW skipped, \A m \in skipped : c[m] \notin {"free", "mine", "held"}
    PROVE  Stepped(t, Prune(t, c, read, exhausted, cs, sel, skipped), c)
<1> DEFINE v == Mark(t, c, {x.key : x \in ToSet(cs)})
           u == Release(v, c, skipped)
           input == Input(sel)
           prior == IF input = 0 THEN 0 ELSE LocalPredecessor(u, c, input)
           r == RunPrefix(u, c, read, exhausted, cs, sel, skipped, Segment(t), prior)
<1>1. Quiet(t, v, c) /\ Only({"bounds"}, t, v) BY MarkQuiet
<1>2. Sound(v) BY <1>1 DEF Quiet
<1>3. Prune(t, c, read, exhausted, cs, sel, skipped) = r BY DEF Prune
<1>4. v.line = t.line BY <1>1, Untouched
<1> HIDE DEF v
<1>5. Quiet(v, u, c) /\ \E kept : u.line = Keep(v.line, kept) BY <1>2, ReleaseQuiet
<1> HIDE DEF u
<1>6. Quiet(t, u, c) BY <1>1, <1>5, QuietJoins
<1>7. Sound(u) /\ u.kind = "step" BY <1>6 DEF Quiet, Frozen
<1>8. SUFFICES Stepped(u, r, c) BY <1>3, <1>6, QuietSteps
<1>9. CASE prior # 0 /\ Ordinary(prior)
  <2> DEFINE wanted == {x \in ToSet(cs) : x.key = prior}
             ms == Keep(cs, wanted)
  <2>1. r = Dispatch(u, c, ms, FALSE) BY <1>9, Zenon DEF RunPrefix, DispatchSelection
  <2>2. prior = LocalPredecessor(u, c, input) /\ prior \in Msgs BY <1>9 DEF Ordinary
  <2>3. ms \in Seq(Judged(c)) /\ ToSet(ms) = ToSet(cs) \cap wanted BY KeepContents
  <2>4. \A k \in DOMAIN ms : ms[k].key = prior
    <3>1. \A k \in DOMAIN ms : ms[k] \in wanted BY <2>3 DEF ToSet
    <3> HIDE DEF ms
    <3> QED BY <3>1
  <2> HIDE DEF r, prior, input, ms, wanted
  <2>5. ASSUME NEW i \in DOMAIN u.line, NEW j \in DOMAIN u.line, i < j,
               NEW k \in DOMAIN ms, u.line[j] = ms[k].key
        PROVE  u.line[i] \notin Locals
    <3>1. u.line[j] = LocalPredecessor(u, c, input) BY <2>2, <2>4, <2>5
    <3> QED BY <1>7, <2>2, <2>5, <3>1, PriorFirst
  <2> QED BY <1>7, <2>1, <2>5, DispatchSteps
<1>10. CASE prior # 0 /\ ~Ordinary(prior)
  <2>1. r = StartLocal(u, c, prior) BY <1>10, Zenon DEF RunPrefix
  <2> HIDE DEF r, prior
  <2> QED BY <1>7, <1>10, <2>1, StartLocalSteps DEF Ordinary
<1>11. CASE prior = 0 /\ sel.members # <<>>
  <2>1. r = Dispatch(u, c, sel.members, FALSE)
    BY <1>11, Zenon DEF RunPrefix, DispatchSelection
  <2>2. ASSUME NEW i \in DOMAIN u.line, NEW j \in DOMAIN u.line, i < j,
               NEW k \in DOMAIN sel.members, u.line[j] = sel.members[k].key,
               u.line[i] \in Locals
        PROVE  FALSE
    <3>1. CASE Batching
      <4>1. PICK kept : u.line = Keep(t.line, kept) BY <1>4, <1>5
      <4>2. t.line \in Seq(Events) /\ Single(t.line) BY DEF Sound
      <4>3. \E a, b \in DOMAIN t.line :
              a < b /\ Keep(t.line, kept)[i] = t.line[a] /\ Keep(t.line, kept)[j] = t.line[b]
        BY <2>2, <4>1, <4>2, KeepFrom
      <4>4. PICK a \in DOMAIN t.line, b \in DOMAIN t.line :
              a < b /\ u.line[i] = t.line[a] /\ u.line[j] = t.line[b]
        BY <4>1, <4>3
      <4>5. sel.members[k] \in ToSet(cs)
        BY <2>2, ElementOfSeq, LenProperties DEF Accumulators
      <4>6. t.line[b] \in ToSet(Segment(t)) BY <2>2, <3>1, <4>4, <4>5 DEF ToSet
      <4>7. PICK d \in DOMAIN Segment(t) : Segment(t)[d] = t.line[b] BY <4>6 DEF ToSet
      <4>8. /\ d \in DOMAIN t.line /\ t.line[d] = t.line[b] /\ t.line[b] \in Msgs
            /\ \A x \in DOMAIN t.line : x <= d => t.line[x] \in Msgs
        <5>1. DOMAIN t.line = 1..Len(t.line) BY <4>2, LenProperties
        <5>2. d <= d BY <5>1, SegmentPlaces
        <5> QED BY <4>7, <5>2, SegmentPlaces
      <4>9. DOMAIN t.line \subseteq Nat BY <4>2, LenProperties
      <4>10. ~(a <= d) BY <2>2, <4>4, <4>8, ScenarioFacts
      <4>11. d < b BY <4>4, <4>8, <4>9, <4>10
      <4>12. t.line[b] \in Rosters BY <4>2, <4>8, <4>11 DEF Single
      <4> QED BY <4>8, <4>12, ScenarioFacts
    <3>2. CASE ~Batching
      <4>1. Batchable(sel, listed, 1) BY <3>2
      <4>2. /\ input \in Msgs /\ c[input] = "free"
            /\ \A l \in DOMAIN sel.members : sel.members[l].key = input
        BY <1>11, <4>1, SingleInput
      <4>3. input # 0 BY <4>2, ScenarioFacts
      <4>4. LocalPredecessor(u, c, input) = 0 BY <1>11, <4>3
      <4>5. ~HoldsRetry(c, input) BY <4>2 DEF HoldsRetry, KeepsOriginal
      <4>6. u.line[j] = input BY <2>2, <4>2
      <4> HIDE DEF input
      <4> QED BY <1>7, <2>2, <4>2, <4>4, <4>5, <4>6, NoPrior
    <3> QED BY <3>1, <3>2
  <2> HIDE DEF r, prior
  <2> QED BY <1>7, <2>1, <2>2, DispatchSteps
<1>12. CASE prior = 0 /\ sel.members = <<>> /\ sel.stop = "held"
  <2>1. r = Return(Defer(u, sel.at.key), "BLOCKED") BY <1>12, Zenon DEF RunPrefix
  <2> HIDE DEF r
  <2> QED BY <1>7, <2>1, DeferSteps
<1>13. CASE prior = 0 /\ sel.members = <<>> /\ sel.stop # "held"
  <2>1. r = AdvanceScan(u, c, read, exhausted, skipped, Segment(t))
    BY <1>13, Zenon DEF RunPrefix
  <2> HIDE DEF r
  <2> QED BY <1>7, <2>1, AdvanceScanSteps
<1> QED BY <1>9, <1>10, <1>11, <1>12, <1>13

LEMMA RunSelectionSteps ==
    ASSUME config \in Scenarios, NEW t, NEW c, Sound(t), t.kind = "step",
           NEW read, read.rows \in Seq(Msgs), NEW exhausted
    PROVE  Stepped(t, RunSelection(t, c, read, exhausted, Chosen(t, c, read)), c)
<1> DEFINE cs == Chosen(t, c, read)
           cap == IF Batching THEN TurnSize ELSE 1
           sel == SelectPrefix(cs, ToSet(read.rows), cap, Frontier(read.rows), exhausted,
                               t.resumed)
           skipped == Skipped(cs, read.rows, exhausted)
<1>1. RunSelection(t, c, read, exhausted, cs) = Prune(t, c, read, exhausted, cs, sel, skipped)
  BY DEF RunSelection
<1>2. /\ cs \in Seq(Judged(c))
      /\ Batching => \A x \in ToSet(cs) :
            x.key \in ToSet(t.line) => x.key \in ToSet(Segment(t))
  BY ChosenJudged
<1> HIDE DEF cs
<1>3. cap \in Nat \ {0} BY ScenarioFacts
<1> HIDE DEF cap
<1>4. sel \in Accumulators(ToSet(cs)) /\ Batchable(sel, ToSet(read.rows), cap)
  BY <1>2, <1>3, PrefixJudged
<1>5. \A m \in skipped : c[m] \notin {"free", "mine", "held"} BY <1>2, SkippedSettled
<1> HIDE DEF sel, skipped
<1>6. Stepped(t, Prune(t, c, read, exhausted, cs, sel, skipped), c)
  BY <1>2, <1>4, <1>5, PruneSteps DEF cap
<1> QED BY <1>1, <1>6 DEF cs

LEMMA NextLocalLocal ==
    ASSUME config \in Scenarios, NEW t, NEW c
    PROVE  NextLocal(t, c) \notin Msgs
BY ScenarioFacts DEF NextLocal, Ordinary

LEMMA AfterReadSteps ==
    ASSUME config \in Scenarios, NEW t, NEW c, Sound(t), t.kind = "step",
           NEW read, read.rows \in Seq(Msgs), NEW exhausted
    PROVE  Stepped(t, AfterRead(t, c, read, exhausted), c)
<1>1. \/ t.stopped /\ AfterRead(t, c, read, exhausted) = Return(t, "STOPPED")
      \/ AfterRead(t, c, read, exhausted) = StartLocal(t, c, NextLocal(t, c))
      \/ AfterRead(t, c, read, exhausted)
           = RunSelection(t, c, read, exhausted, Chosen(t, c, read))
  BY Zenon DEF AfterRead
<1>2. t.stopped => Stepped(t, Return(t, "STOPPED"), c) BY ReturnSteps
<1>3. Stepped(t, StartLocal(t, c, NextLocal(t, c)), c) BY NextLocalLocal, StartLocalSteps
<1> QED BY <1>1, <1>2, <1>3, RunSelectionSteps

LEMMA AfterNextSteps ==
    ASSUME config \in Scenarios, NEW t, NEW c, Sound(t), t.kind = "step",
           NEW row \in Msgs \cup {0}
    PROVE  Stepped(t, AfterNext(t, c, row), c)
<1>0. DOMAIN t = Fields BY DEF Sound
<1>1. CASE row = 0
  <2> DEFINE u == [t EXCEPT !.sync = TRUE, !.recovery = FALSE]
  <2>1. AfterNext(t, c, row) = AfterRead(u, c, NoRows, TRUE) BY <1>1, Zenon DEF AfterNext
  <2>2. Only({"sync", "recovery"}, t, u) BY <1>0, FieldsListed, Zenon DEF Only
  <2> HIDE DEF u
  <2>3. Quiet(t, u, c) BY <2>2, InertQuiet DEF Inert
  <2>4. Sound(u) /\ u.kind = "step" BY <2>3 DEF Quiet, Frozen
  <2>5. NoRows.rows \in Seq(Msgs) BY EmptySeq DEF NoRows
  <2>6. Stepped(u, AfterRead(u, c, NoRows, TRUE), c) BY <2>4, <2>5, AfterReadSteps
  <2> QED BY <2>1, <2>3, <2>6, QuietSteps
<1>2. CASE row # 0
  <2> DEFINE u == Mark(t, c, {row})
             w == [u EXCEPT !.fallback = TRUE]
             read == [rows |-> <<row>>, next |-> 0]
  <2>1. Quiet(t, u, c) BY MarkQuiet
  <2>2. \/ AfterNext(t, c, row) = Return(w, "PROGRESS")
        \/ AfterNext(t, c, row) = AfterRead(u, c, read, FALSE)
    BY <1>2, Zenon DEF AfterNext
  <2> HIDE DEF u
  <2>3. Sound(u) /\ u.kind = "step" /\ DOMAIN u = Fields BY <2>1 DEF Quiet, Frozen, Sound
  <2>4. Only({"fallback"}, u, w) BY <2>3, FieldsListed, Zenon DEF Only
  <2> HIDE DEF w
  <2>5. Quiet(u, w, c) BY <2>3, <2>4, InertQuiet DEF Inert
  <2>6. Stepped(w, Return(w, "PROGRESS"), c) BY <2>5, ReturnSteps DEF Quiet
  <2>7. read.rows \in Seq(Msgs) BY <1>2
  <2> HIDE DEF read
  <2>8. Stepped(u, AfterRead(u, c, read, FALSE), c) BY <2>3, <2>7, AfterReadSteps
  <2> QED BY <2>1, <2>2, <2>5, <2>6, <2>8, QuietSteps
<1> QED BY <1>1, <1>2

LEMMA StepFromSteps ==
    ASSUME config \in Scenarios, NEW t, NEW c, Sound(t), t.kind = "step",
           NEW local, local \notin Msgs
    PROVE  Stepped(t, StepFrom(t, c, local), c) \/ Asked(t, StepFrom(t, c, local), c)
<1> DEFINE u == [t EXCEPT !.gate = 0]
<1>0. DOMAIN t = Fields /\ t.gate \in Msgs \cup {0} BY DEF Sound
<1>1. \/ (t.stopped \/ t.closing) /\ StepFrom(t, c, local) = Return(t, "STOPPED")
      \/ StepFrom(t, c, local) = StartLocal(t, c, local)
      \/ StepFrom(t, c, local) = AfterRead(t, c, NoRows, TRUE)
      \/ StepFrom(t, c, local) = Await(t, "page")
      \/ StepFrom(t, c, local) = AfterNext(u, c, t.gate)
      \/ StepFrom(t, c, local) = Await(t, "next")
  <2> DEFINE recovery == t.recovery \/ ~t.sync
             due == local # 0 /\ (~recovery \/ Batching \/ local = t.deferred)
             read == CASE ~recovery /\ ~Batching -> AfterRead(t, c, NoRows, TRUE)
                       [] Batching \/ (recovery /\ t.fallback) -> Await(t, "page")
                       [] OTHER -> IF t.gate # 0 THEN AfterNext(u, c, t.gate)
                                   ELSE Await(t, "next")
  <2>1. StepFrom(t, c, local) =
          CASE t.stopped \/ t.closing -> Return(t, "STOPPED")
            [] ~t.stopped /\ ~t.closing /\ due -> StartLocal(t, c, local)
            [] OTHER -> read
    BY DEF StepFrom
  <2>2. \/ read = AfterRead(t, c, NoRows, TRUE) \/ read = Await(t, "page")
        \/ read = AfterNext(u, c, t.gate) \/ read = Await(t, "next")
    <3> HIDE DEF recovery, u
    <3> QED BY Zenon
  <2> HIDE DEF read, due, recovery, u
  <2>3. \/ (t.stopped \/ t.closing) /\ StepFrom(t, c, local) = Return(t, "STOPPED")
        \/ StepFrom(t, c, local) = StartLocal(t, c, local)
        \/ StepFrom(t, c, local) = read
    BY <2>1, Zenon
  <2> QED BY <2>2, <2>3, Zenon
<1>2. t.stopped \/ t.closing => Stepped(t, Return(t, "STOPPED"), c) BY ReturnSteps
<1>3. Stepped(t, StartLocal(t, c, local), c) BY StartLocalSteps
<1>4. Stepped(t, AfterRead(t, c, NoRows, TRUE), c)
  <2>1. NoRows.rows \in Seq(Msgs) BY EmptySeq DEF NoRows
  <2> QED BY <2>1, AfterReadSteps
<1>5. Asked(t, Await(t, "page"), c) /\ Asked(t, Await(t, "next"), c) BY AwaitAsks
<1>6. Stepped(t, AfterNext(u, c, t.gate), c)
  <2>1. Only({"gate"}, t, u) /\ u.gate = 0 BY <1>0, FieldsListed, Zenon DEF Only
  <2> HIDE DEF u
  <2>2. /\ u.queue = t.queue /\ u.line = t.line /\ u.deferred = t.deferred
        /\ u.stopped = t.stopped /\ u.closing = t.closing /\ u.arg = t.arg /\ u.held = t.held
        /\ u.relieved = t.relieved /\ u.ctlPage = t.ctlPage
        /\ u.kind = t.kind /\ u.result = t.result
    BY <2>1, Untouched
  <2>3. DOMAIN u = Fields BY <2>1 DEF Only
  <2>4. Sound(u)
    <3>1. u.gate \in Msgs \cup {0} BY <2>1
    <3> QED BY <2>2, <2>3, <3>1, Zenon DEF Sound
  <2>5. Keeps(t, u, c) BY <2>2, Zenon DEF Keeps, Has
  <2>6. Frozen(t, u) BY <2>2, Zenon DEF Frozen, Requested
  <2>7. Quiet(t, u, c) BY <2>2, <2>4, <2>5, <2>6 DEF Quiet
  <2>8. Stepped(u, AfterNext(u, c, t.gate), c) BY <1>0, <2>2, <2>4, AfterNextSteps
  <2> QED BY <2>7, <2>8, QuietSteps
<1> QED BY <1>1, <1>2, <1>3, <1>4, <1>5, <1>6

\* A record whose step has just been chosen.
LEMMA KindFields ==
    ASSUME NEW t, Sound(t), NEW k
    PROVE  /\ Only({"kind"}, t, [t EXCEPT !.kind = k]) /\ [t EXCEPT !.kind = k].kind = k
           /\ Sound([t EXCEPT !.kind = k])
<1> DEFINE u == [t EXCEPT !.kind = k]
<1>0. DOMAIN t = Fields BY DEF Sound
<1>1. Only({"kind"}, t, u) /\ u.kind = k BY <1>0, FieldsListed, Zenon DEF Only
<1> HIDE DEF u
<1>2. /\ u.queue = t.queue /\ u.line = t.line /\ u.ctlPage = t.ctlPage /\ u.gate = t.gate
  BY <1>1, Untouched
<1>3. DOMAIN u = Fields BY <1>1 DEF Only
<1>4. Sound(u) BY <1>2, <1>3, Zenon DEF Sound
<1> QED BY <1>1, <1>4 DEF u

LEMMA StepSteps ==
    ASSUME config \in Scenarios, NEW t, NEW c, Sound(t)
    PROVE  \/ Stepped([t EXCEPT !.kind = "step"], Step(t, c), c)
           \/ Asked([t EXCEPT !.kind = "step"], Step(t, c), c)
<1> DEFINE k == [t EXCEPT !.kind = "step"]
           u == Absorb(k)
<1>1. Sound(k) /\ k.kind = "step" BY KindFields
<1>2. Step(t, c) = StepFrom(u, c, NextLocal(u, c)) BY DEF Step
<1> HIDE DEF k
<1>3. Quiet(k, u, c) BY <1>1, AbsorbQuiet
<1> HIDE DEF u
<1>4. Sound(u) /\ u.kind = "step" BY <1>1, <1>3 DEF Quiet, Frozen
<1>5. \/ Stepped(u, StepFrom(u, c, NextLocal(u, c)), c)
      \/ Asked(u, StepFrom(u, c, NextLocal(u, c)), c)
  BY <1>4, NextLocalLocal, StepFromSteps
<1>6. Stepped(k, Step(t, c), c) \/ Asked(k, Step(t, c), c)
  BY <1>2, <1>3, <1>5, QuietSteps, QuietAsks
<1> QED BY <1>6 DEF k

LEMMA OfferSteps ==
    ASSUME config \in Scenarios, NEW t, NEW c, Sound(t), t.kind = "prio",
           NEW cs, NEW pick, NEW skipped,
           \A m \in skipped : c[m] \notin {"free", "mine", "held"}
    PROVE  Stepped(t, Offer(t, c, cs, pick, skipped), c)
<1> DEFINE w == Mark(t, c, {x.key : x \in ToSet(cs)})
           u == Release(w, c, skipped)
           v == IF u.deferred \in skipped /\ ~KeepsOriginal(c, u.deferred) THEN Defer(u, 0) ELSE u
           r == Offer(t, c, cs, pick, skipped)
<1>1. Quiet(t, w, c) BY MarkQuiet
<1>2. \/ r = Dispatch(v, c, <<cs[pick]>>, TRUE)
      \/ r = Return(v, "BLOCKED") \/ r = Return(v, "PROGRESS")
  BY Zenon DEF Offer
<1> HIDE DEF w
<1>3. Quiet(w, u, c) BY <1>1, ReleaseQuiet DEF Quiet
<1> HIDE DEF u
<1>4. Quiet(u, Defer(u, 0), c) BY <1>3, UndeferQuiet DEF Quiet
<1>5. Quiet(t, u, c) BY <1>1, <1>3, QuietJoins
<1>6. Quiet(t, v, c) BY <1>4, <1>5, QuietJoins
<1> HIDE DEF v, r
<1>7. Sound(v) /\ v.kind = "prio" BY <1>6 DEF Quiet, Frozen
<1>8. Stepped(v, Dispatch(v, c, <<cs[pick]>>, TRUE), c) BY <1>7, DispatchSteps
<1>9. Stepped(v, Return(v, "BLOCKED"), c) /\ Stepped(v, Return(v, "PROGRESS"), c)
  BY <1>7, ReturnSteps
<1>10. Stepped(t, r, c) BY <1>2, <1>6, <1>8, <1>9, QuietSteps
<1> QED BY <1>10 DEF r

LEMMA PriorityScanSteps ==
    ASSUME config \in Scenarios, NEW t, NEW c, Sound(t), t.kind = "prio",
           NEW cs \in Seq(Judged(c))
    PROVE  Stepped(t, PriorityScan(t, c, cs), c)
<1> DEFINE offers == {i \in DOMAIN cs :
                        /\ cs[i].disposition = "control" /\ cs[i].key \notin t.declined
                        /\ DispatchKey(<<cs[i]>>, TRUE) \notin t.sel}
           pick == IF offers = {} THEN 0 ELSE CHOOSE i \in offers : \A j \in offers : i <= j
           passed == IF pick = 0 THEN cs ELSE SubSeq(cs, 1, pick - 1)
           skipped == Skipped(passed, t.ctlPage.rows, t.ctlPage.next = 0)
<1>1. PriorityScan(t, c, cs) = Offer(t, c, cs, pick, skipped) BY DEF PriorityScan
<1>2. offers \subseteq DOMAIN cs OBVIOUS
<1>3. DOMAIN cs = 1..Len(cs) /\ Len(cs) \in Nat /\ \A i \in 1..Len(cs) : cs[i] \in Judged(c)
  BY LenProperties, ElementOfSeq
<1>4. pick = 0 \/ pick \in DOMAIN cs
  <2>1. CASE offers # {}
    <3> HIDE DEF offers
    <3>1. offers \in SUBSET Nat BY <1>2, <1>3
    <3>2. \E i \in offers : \A j \in offers : i <= j BY <2>1, <3>1, LeastNatural
    <3>3. pick \in offers BY <2>1, <3>2
    <3> QED BY <1>2, <3>3
  <2> QED BY <2>1
<1> HIDE DEF pick, offers
<1>5. passed \in Seq(Judged(c))
  <2>1. CASE pick # 0
    <3>1. pick - 1 \in Int /\ \A i \in 1..(pick - 1) : cs[i] \in Judged(c) BY <1>3, <1>4, <2>1
    <3>2. SubSeq(cs, 1, pick - 1) \in Seq(Judged(c)) BY <3>1, SubSeqProperties
    <3> QED BY <2>1, <3>2
  <2> QED BY <2>1
<1> HIDE DEF passed
<1>6. \A m \in skipped : c[m] \notin {"free", "mine", "held"} BY <1>5, SkippedSettled
<1> HIDE DEF skipped
<1> QED BY <1>1, <1>6, OfferSteps

LEMMA PriorityStepSteps ==
    ASSUME config \in Scenarios, NEW t, NEW c, Sound(t)
    PROVE  \/ Stepped([t EXCEPT !.kind = "prio"], PriorityStep(t, c), c)
           \/ Asked([t EXCEPT !.kind = "prio"], PriorityStep(t, c), c)
<1> DEFINE k == [t EXCEPT !.kind = "prio"]
           cs == Candidates(k, c, k.ctlPage.rows)
<1>1. Sound(k) /\ k.kind = "prio" BY KindFields
<1>2. \/ PriorityStep(t, c) = Return(k, "BLOCKED")
      \/ PriorityStep(t, c) = Await(k, "ctlpage")
      \/ k.ctlPage # Unread /\ PriorityStep(t, c) = PriorityScan(k, c, cs)
  BY Zenon DEF PriorityStep
<1> HIDE DEF k
<1>3. Stepped(k, Return(k, "BLOCKED"), c) BY <1>1, ReturnSteps
<1>4. Asked(k, Await(k, "ctlpage"), c) BY <1>1, AwaitAsks
<1>5. ASSUME k.ctlPage # Unread PROVE Stepped(k, PriorityScan(k, c, cs), c)
  <2>1. k.ctlPage.rows \in Seq(Msgs) BY <1>1, <1>5 DEF Sound
  <2>2. cs \in Seq(Judged(c)) BY <2>1, CandidatesJudged
  <2> HIDE DEF cs
  <2> QED BY <1>1, <2>2, PriorityScanSteps
<1> HIDE DEF cs
<1>6. Stepped(k, PriorityStep(t, c), c) \/ Asked(k, PriorityStep(t, c), c)
  BY <1>2, <1>3, <1>4, <1>5
<1> QED BY <1>6 DEF k

-----------------------------------------------------------------------------
(* The end of a step and of a pass *)

\* The fields of a pass.
PassFields == {"arg", "recovery", "held", "relieved", "invalid", "declined", "bounds",
               "ctlPage", "gate", "resumed", "sel", "todo", "kind", "members", "prio",
               "control", "stale", "dead", "local", "answer", "late", "result"}

LEMMA IdleFields ==
    ASSUME NEW t, DOMAIN t = Fields
    PROVE  /\ Only(PassFields, t, Idle(t))
           /\ Idle(t).result = "none" /\ Idle(t).gate = 0 /\ Idle(t).ctlPage = Unread
           /\ Idle(t).answer = Unread
<1> DEFINE u == Idle(t)
<1>1. DOMAIN IdlePass = PassFields BY Zenon DEF IdlePass, PassFields
<1>2. /\ IdlePass.result = "none" /\ IdlePass.gate = 0 /\ IdlePass.ctlPage = Unread
      /\ IdlePass.answer = Unread
  BY DEF IdlePass
<1>3. /\ DOMAIN u = Fields
      /\ \A f \in Fields : u[f] = IF f \in PassFields THEN IdlePass[f] ELSE t[f]
  BY <1>1, Zenon DEF Idle
<1> HIDE DEF u
<1>4. Only(PassFields, t, u) BY <1>3 DEF Only
<1>5. /\ "result" \in PassFields /\ "gate" \in PassFields /\ "ctlPage" \in PassFields
      /\ "answer" \in PassFields /\ PassFields \subseteq Fields
  BY FieldsListed DEF PassFields
<1>6. /\ u.result = IdlePass.result /\ u.gate = IdlePass.gate /\ u.ctlPage = IdlePass.ctlPage
      /\ u.answer = IdlePass.answer
  BY <1>3, <1>5, Zenon
<1> QED BY <1>2, <1>4, <1>6 DEF u

\* The coroutine's record at an await, from the record t.
Landed(t, u, c) ==
    /\ Sound(u) /\ Keeps(t, u, c) /\ u.stopped = t.stopped /\ u.result = "none"
    /\ Awaiting(u, c) /\ (u.pc = "gate" => u.answer = Unread)

\* A pass that ended awaits nothing.
LEMMA OverLands ==
    ASSUME NEW t, NEW u, NEW c, Sound(t), NEW fs, Only(fs, t, u),
           fs = PassFields \cup {"pc", "started", "due", "scan", "fallback"},
           u.result = "none", u.gate = 0, u.ctlPage = Unread, u.pc \in {"wait", "off"}
    PROVE  Landed(t, u, c) /\ u.queue = t.queue /\ u.line = t.line
<1>1. /\ u.queue = t.queue /\ u.line = t.line /\ u.stopped = t.stopped
  BY Untouched DEF PassFields
<1>2. DOMAIN u = Fields BY DEF Only
<1>3. u.gate \in Msgs \cup {0} OBVIOUS
<1>4. Sound(u) BY <1>1, <1>2, <1>3, Zenon DEF Sound
<1>5. Keeps(t, u, c) BY <1>1, Zenon DEF Keeps, Has
<1>6. Awaiting(u, c)
  <2>1. u.pc \notin {"next", "page", "ctlpage", "run", "local", "loop", "retry"} /\ u.pc \notin Reads
    BY DEF Reads
  <2> QED BY <2>1 DEF Awaiting
<1>7. u.pc # "gate" OBVIOUS
<1> QED BY <1>1, <1>4, <1>5, <1>6, <1>7, Zenon DEF Landed

LEMMA EndPassLands ==
    ASSUME NEW t, NEW c, Sound(t)
    PROVE  /\ Landed(t, EndPass(t), c) /\ EndPass(t).pc \in {"wait", "off"}
           /\ EndPass(t).queue = t.queue /\ EndPass(t).line = t.line
<1> DEFINE i == Idle(t)
           u == EndPass(t)
           pc == IF t.closing THEN "off" ELSE "wait"
           due == IF t.arg THEN FALSE ELSE i.due
           fs == PassFields \cup {"pc", "started", "due", "scan", "fallback"}
<1>0. DOMAIN t = Fields BY DEF Sound
<1>1. /\ Only(PassFields, t, i) /\ i.result = "none" /\ i.gate = 0 /\ i.ctlPage = Unread
  BY <1>0, IdleFields
<1>2. DOMAIN i = Fields BY <1>1 DEF Only
<1>3. u = [i EXCEPT !.pc = pc, !.started = TRUE, !.due = due, !.scan = 0, !.fallback = FALSE]
  BY DEF EndPass
<1>4. pc \in {"wait", "off"} OBVIOUS
<1> HIDE DEF i, u, pc, due
<1>5. Only({"pc", "started", "due", "scan", "fallback"}, i, u) /\ u.pc = pc
  BY <1>2, <1>3, FieldsListed, Zenon DEF Only
<1>6. u.result = i.result /\ u.gate = i.gate /\ u.ctlPage = i.ctlPage BY <1>5, Untouched
<1>7. Only(fs, t, u) BY <1>1, <1>5, OnlyJoins
<1>8. Landed(t, u, c) /\ u.queue = t.queue /\ u.line = t.line
  BY <1>1, <1>4, <1>5, <1>6, <1>7, OverLands
<1> QED BY <1>4, <1>5, <1>8 DEF u

\* A record that a step, or the start of a pass, hands to Proceed.
Due(t, c, owed) ==
    /\ Sound(t)
    /\ \/ /\ t.result = "none" /\ Awaiting(t, c) /\ (t.pc = "gate" => t.answer = Unread)
          /\ (t.pc = "run" /\ ~t.prio) => Owed(c) \subseteq owed
       \/ Outcome(t) /\ (t.result = "PROGRESS" => Waits(t, c))

\* The tail of a step: the pass goes on only where ordinary input waits or may run.
LEMMA AfterStepLands ==
    ASSUME NEW t, NEW c, Sound(t), Outcome(t), t.result = "PROGRESS" => Waits(t, c)
    PROVE  Landed(t, AfterStep(t, c), c) /\ AfterStep(t, c).pc \in {"loop", "wait", "off"}
<1> DEFINE blocked == /\ t.kind = "step" /\ t.result \in {"BLOCKED", "RETRY"}
                      /\ t.deferred # 0 \/ OwesWrites(c)
           kept == IF blocked \/ (t.result = "STOPPED" /\ Housekeeping(t) # 0)
                   THEN "PROGRESS" ELSE t.result
           u == AfterStep(t, c)
<1>0. DOMAIN t = Fields BY DEF Sound
<1>1. CASE kept = "PROGRESS" /\ ~t.invalid
  <2> DEFINE r == Rest(t)
             held == r.held \/ blocked
  <2>1. u = [r EXCEPT !.pc = "loop", !.held = held] BY <1>1, Zenon DEF AfterStep
  <2>2. blocked \/ t.result \in {"STOPPED", "PROGRESS"} BY <1>1
  <2>3. Only(Resting, t, r) /\ r.answer = Unread /\ r.result = "none" BY <1>0, RestFields
  <2>4. DOMAIN r = Fields BY <2>3 DEF Only
  <2>5. blocked => held OBVIOUS
  <2>6. r.held => held OBVIOUS
  <2> HIDE DEF r, u, held, blocked
  <2>7. Only({"pc", "held"}, r, u) /\ u.pc = "loop" /\ u.held = held
    BY <2>1, <2>4, FieldsListed, Zenon DEF Only
  <2>8. Only(Resting \cup {"pc", "held"}, t, u) BY <2>3, <2>7, OnlyJoins
  <2>9. /\ u.queue = t.queue /\ u.line = t.line /\ u.deferred = t.deferred
        /\ u.stopped = t.stopped /\ u.closing = t.closing /\ u.arg = t.arg
        /\ u.relieved = t.relieved /\ u.ctlPage = t.ctlPage /\ u.gate = t.gate
    BY <2>8, Untouched DEF Resting
  <2>10. u.result = "none" /\ r.held = t.held
    <3>1. u.result = r.result BY <2>7, Untouched
    <3>2. r.held = t.held BY <2>3, Untouched DEF Resting
    <3> QED BY <2>3, <3>1, <3>2
  <2>11. DOMAIN u = Fields BY <2>7 DEF Only
  <2>12. Sound(u) BY <2>9, <2>11, Zenon DEF Sound
  <2>13. Keeps(t, u, c) BY <2>9, Zenon DEF Keeps, Has
  <2>14. Waits(u, c)
    <3>1. CASE blocked BY <2>5, <2>7, <3>1 DEF Waits
    <3>2. CASE t.result = "STOPPED" BY <2>9, <3>2 DEF Outcome, Waits
    <3>3. CASE t.result = "PROGRESS"
      <4>1. Waits(t, c) BY <3>3
      <4>2. t.held => u.held BY <2>6, <2>7, <2>10
      <4>3. Requested(t) => Requested(u) BY <2>9 DEF Requested
      <4>4. Open(t) => Open(u) BY <2>9 DEF Open
      <4> QED BY <2>9, <4>1, <4>2, <4>3, <4>4, Zenon DEF Waits
    <3> QED BY <2>2, <3>1, <3>2, <3>3
  <2>15. Awaiting(u, c)
    <3>1. u.pc \notin {"next", "page", "ctlpage", "run", "local", "retry"} /\ u.pc \notin Reads
      BY <2>7 DEF Reads
    <3> QED BY <2>14, <3>1 DEF Awaiting
  <2> QED BY <2>7, <2>9, <2>10, <2>12, <2>13, <2>15, Zenon DEF Landed, u
<1>2. CASE ~(kept = "PROGRESS" /\ ~t.invalid)
  <2> DEFINE d == IF kept = "EMPTY" /\ ~t.invalid THEN Defer(t, 0) ELSE t
  <2>1. u = EndPass(d) BY <1>2, Zenon DEF AfterStep
  <2>2. d = t \/ d = Defer(t, 0) OBVIOUS
  <2> HIDE DEF d, u, kept
  <2>3. Sound(d) /\ d.line = t.line /\ d.queue = t.queue /\ d.stopped = t.stopped
    <3>1. Sound(Defer(t, 0)) /\ Only({"deferred", "ctl"}, t, Defer(t, 0)) BY DeferSound
    <3>2. /\ Defer(t, 0).line = t.line /\ Defer(t, 0).queue = t.queue
          /\ Defer(t, 0).stopped = t.stopped
      BY <3>1, Untouched
    <3> QED BY <2>2, <3>1, <3>2
  <2>4. /\ Landed(d, u, c) /\ u.pc \in {"wait", "off"} /\ u.queue = d.queue /\ u.line = d.line
    BY <2>1, <2>3, EndPassLands
  <2>5. Keeps(t, u, c) BY <2>3, <2>4, Zenon DEF Keeps, Has
  <2> QED BY <2>3, <2>4, <2>5 DEF Landed, u
<1> QED BY <1>1, <1>2

\* Proceed takes a record that is due to the next await.
LEMMA ProceedLands ==
    ASSUME NEW t, NEW c, NEW owed, Due(t, c, owed), NEW u,
           u = IF t.result = "none" THEN t ELSE AfterStep(t, c)
    PROVE  Landed(t, u, c) /\ ((u.pc = "run" /\ ~u.prio) => Owed(c) \subseteq owed)
<1>1. CASE t.result = "none"
  <2>1. u = t BY <1>1
  <2>2. ~Outcome(t) BY <1>1 DEF Outcome
  <2>3. Keeps(t, t, c) BY DEF Keeps
  <2> QED BY <1>1, <2>1, <2>2, <2>3 DEF Due, Landed
<1>2. CASE t.result # "none"
  <2>1. u = AfterStep(t, c) BY <1>2
  <2>2. Sound(t) /\ Outcome(t) /\ (t.result = "PROGRESS" => Waits(t, c)) BY <1>2 DEF Due
  <2>3. Landed(t, u, c) /\ u.pc \in {"loop", "wait", "off"} BY <2>1, <2>2, AfterStepLands
  <2> QED BY <2>3
<1> QED BY <1>1, <1>2

-----------------------------------------------------------------------------
(* A pass *)

LEMMA OpenKept ==
    ASSUME NEW t, NEW u, NEW c, Frozen(t, u), u.deferred \in {t.deferred, 0}
    PROVE  (Open(t) => Open(u)) /\ (Waits(t, c) => Waits(u, c))
<1>1. Open(t) => Open(u) BY DEF Open, Frozen
<1> QED BY <1>1, Zenon DEF Waits, Frozen

\* What each kind of step relies on.
Chose(k, c, owed) ==
    /\ k.kind \in {"step", "prio", "hk"}
    /\ k.kind = "step" => Open(k) /\ Owed(c) \subseteq owed
    /\ k.kind = "prio" => k.held \/ OwesWrites(c)
    /\ k.kind = "hk" => Waits(k, c)

LEMMA ChoseWaits ==
    ASSUME NEW k, NEW c, NEW owed, Chose(k, c, owed)
    PROVE  Waits(k, c)
BY Zenon DEF Chose, Waits

LEMMA SteppedDue ==
    ASSUME NEW k, NEW u, NEW c, NEW owed, Chose(k, c, owed), Stepped(k, u, c)
    PROVE  Due(u, c, owed)
<1>1. Sound(u) /\ Frozen(k, u) BY DEF Stepped
<1>2. CASE Outcome(u)
  <2>1. ASSUME u.result = "PROGRESS" PROVE Waits(u, c)
    <3>1. u.deferred \in {k.deferred, 0} BY <2>1 DEF Stepped
    <3> QED BY <1>1, <3>1, ChoseWaits, OpenKept
  <2> QED BY <1>1, <1>2, <2>1 DEF Due
<1>3. CASE Launched(u)
  <2>1. u.result = "none" /\ u.pc \in {"run", "local"} BY <1>3 DEF Launched
  <2>2. u.deferred \in {k.deferred, 0} BY <2>1 DEF Stepped
  <2>3. (Open(k) => Open(u)) /\ Waits(u, c) BY <1>1, <2>2, ChoseWaits, OpenKept
  <2>4. u.kind = k.kind /\ u.held = k.held BY <1>1 DEF Frozen
  <2>5. u.kind = "prio" => u.held \/ OwesWrites(c) BY <2>4, Zenon DEF Chose
  <2>6. u.kind = "step" => Open(u) /\ Owed(c) \subseteq owed BY <2>3, <2>4 DEF Chose
  <2>7. u.pc \notin {"next", "page", "ctlpage", "loop", "gate", "retry"} /\ u.pc \notin Reads
    BY <2>1 DEF Reads
  <2>8. u.kind \in {"step", "prio", "hk"} BY <2>4 DEF Chose
  <2>9. /\ u.pc = "run" => u.kind \in {"step", "prio"} /\ (u.prio <=> u.kind = "prio")
        /\ u.pc = "run" /\ ~u.prio => Placed(u)
        /\ u.pc = "local" => u.kind \in {"step", "hk"} /\ u.local \notin Msgs
    BY <1>3, <2>8 DEF Launched
  <2>10. Awaiting(u, c) BY <2>3, <2>5, <2>6, <2>7, <2>9 DEF Awaiting
  <2>11. (u.pc = "run" /\ ~u.prio) => Owed(c) \subseteq owed BY <2>6, <2>9
  <2> QED BY <1>1, <2>1, <2>7, <2>10, <2>11 DEF Due
<1> QED BY <1>2, <1>3 DEF Stepped

LEMMA AskedDue ==
    ASSUME NEW k, NEW u, NEW c, NEW owed, Chose(k, c, owed), Asked(k, u, c),
           k.kind = "step" => Owed(c) = {}
    PROVE  Due(u, c, owed)
<1>1. Sound(u) /\ Frozen(k, u) /\ u.deferred \in {k.deferred, 0} /\ Asking(u) BY DEF Asked
<1>2. Open(k) => Open(u) BY <1>1, OpenKept
<1>3. u.kind = k.kind /\ u.held = k.held BY <1>1 DEF Frozen
<1>4. /\ u.result = "none" /\ u.late = {} /\ u.answer = Unread
      /\ u.pc \in {"page", "next", "ctlpage"}
      /\ u.kind = IF u.pc = "ctlpage" THEN "prio" ELSE "step"
  BY <1>1 DEF Asking
<1>5. u.kind = "prio" => u.held \/ OwesWrites(c) BY <1>3, Zenon DEF Chose
<1>6. u.kind = "step" => Open(u) /\ Owed(c) = {} BY <1>2, <1>3 DEF Chose
<1>7. u.pc \notin {"run", "local", "loop", "gate", "retry"} BY <1>4
<1>8. u.pc \in {"next", "page"} => u.kind = "step" BY <1>4
<1>9. u.pc = "ctlpage" => u.kind = "prio" BY <1>4
<1>10. Awaiting(u, c) BY <1>4, <1>5, <1>6, <1>7, <1>8, <1>9 DEF Awaiting
<1> QED BY <1>1, <1>4, <1>7, <1>10 DEF Due

LEMMA FirstKept ==
    ASSUME NEW S, NEW q \in Seq(S), NEW kept, First(q, kept) # 0
    PROVE  First(q, kept) \in kept
<1> DEFINE at == {i \in DOMAIN q : q[i] \in kept}
<1>1. at # {} /\ First(q, kept) = q[CHOOSE i \in at : \A j \in at : i <= j] BY DEF First
<1>2. at \in SUBSET Nat BY LenProperties
<1>3. \A i \in at : q[i] \in kept OBVIOUS
<1> HIDE DEF at
<1>4. \E i \in at : \A j \in at : i <= j BY <1>1, <1>2, LeastNatural
<1>5. (CHOOSE i \in at : \A j \in at : i <= j) \in at BY <1>4
<1> QED BY <1>1, <1>3, <1>5

\* The record once its step has been chosen.
LEMMA KindKeeps ==
    ASSUME NEW t, NEW c, Sound(t), NEW kind, NEW k, k = [t EXCEPT !.kind = kind]
    PROVE  /\ Sound(k) /\ k.kind = kind /\ k.line = t.line /\ k.queue = t.queue
           /\ k.stopped = t.stopped /\ k.held = t.held /\ k.closing = t.closing
           /\ Open(t) => Open(k)
           /\ Waits(t, c) => Waits(k, c)
<1>1. Sound(k) /\ k.kind = kind /\ Only({"kind"}, t, k) BY KindFields
<1>2. /\ k.line = t.line /\ k.queue = t.queue /\ k.stopped = t.stopped /\ k.held = t.held
      /\ k.closing = t.closing /\ k.arg = t.arg /\ k.relieved = t.relieved
      /\ k.deferred = t.deferred
  BY <1>1, Untouched
<1>3. Open(t) => Open(k) BY <1>2 DEF Open
<1>4. Waits(t, c) => Waits(k, c) BY <1>2, <1>3, Zenon DEF Waits, Requested
<1> QED BY <1>1, <1>2, <1>3, <1>4

\* A record that is due, from the record t.
Follows(t, u, c, owed) == Due(u, c, owed) /\ Keeps(t, u, c) /\ u.stopped = t.stopped

\* take_step: ordinary work is reached only when no write is owed and it need not wait.
LEMMA TakeStepFollows ==
    ASSUME config \in Scenarios, NEW t, NEW c, Sound(t), Waits(t, c), ~t.closing,
           t.arg \/ ~Requested(t)
    PROVE  Follows(t, TakeStep(t, c), c, {})
<1> DEFINE gated == OwesWrites(c) \/ (t.held /\ t.deferred # 0)
           local == IF gated \/ t.stopped THEN Housekeeping(t) ELSE 0
           u == TakeStep(t, c)
<1>1. ASSUME NEW kind, NEW k, k = [t EXCEPT !.kind = kind], Chose(k, c, {}),
             \/ Stepped(k, u, c)
             \/ Asked(k, u, c) /\ (kind = "step" => Owed(c) = {})
      PROVE  Follows(t, u, c, {})
  <2>1. /\ k.kind = kind /\ k.line = t.line /\ k.queue = t.queue /\ k.stopped = t.stopped
    BY <1>1, KindKeeps
  <2> HIDE DEF u
  <2>2. Due(u, c, {}) BY <1>1, <2>1, SteppedDue, AskedDue
  <2>3. Keeps(k, u, c) /\ u.stopped = k.stopped BY <1>1 DEF Stepped, Asked, Frozen
  <2>4. Keeps(t, u, c) BY <2>1, <2>3, Zenon DEF Keeps, Has
  <2> QED BY <2>1, <2>2, <2>3, <2>4 DEF Follows
<1>2. CASE local # 0
  <2> DEFINE k == [t EXCEPT !.kind = "hk"]
  <2>0. k = [t EXCEPT !.kind = "hk"] OBVIOUS
  <2>1. u = StartLocal(k, c, local) BY <1>2, Zenon DEF TakeStep
  <2>2. local \in Rosters
    <3>1. t.line \in Seq(Events) BY DEF Sound
    <3>2. local = First(t.line, Rosters) BY <1>2 DEF Housekeeping
    <3> HIDE DEF local
    <3> QED BY <1>2, <3>1, <3>2, FirstKept
  <2>3. local \notin Msgs BY <2>2, ScenarioFacts
  <2>4. Sound(k) /\ k.kind = "hk" /\ Waits(k, c) BY KindKeeps
  <2> HIDE DEF k, local, u
  <2>5. Stepped(k, u, c) BY <2>1, <2>3, <2>4, StartLocalSteps
  <2>6. Chose(k, c, {}) BY <2>4 DEF Chose
  <2> QED BY <1>1, <2>0, <2>5, <2>6 DEF u
<1>3. CASE local = 0 /\ t.stopped
  <2> DEFINE k == [t EXCEPT !.kind = "hk"]
  <2>0. k = [t EXCEPT !.kind = "hk"] OBVIOUS
  <2>1. u = Return(k, "STOPPED") BY <1>3, Zenon DEF TakeStep
  <2>2. Sound(k) /\ k.kind = "hk" /\ Waits(k, c) /\ k.stopped = t.stopped BY KindKeeps
  <2> HIDE DEF k, local, u
  <2>3. Stepped(k, u, c) BY <1>3, <2>1, <2>2, ReturnSteps
  <2>4. Chose(k, c, {}) BY <2>2 DEF Chose
  <2> QED BY <1>1, <2>0, <2>3, <2>4 DEF u
<1>4. CASE local = 0 /\ ~t.stopped /\ gated
  <2> DEFINE k == [t EXCEPT !.kind = "prio"]
  <2>0. k = [t EXCEPT !.kind = "prio"] OBVIOUS
  <2>1. u = PriorityStep(t, c) BY <1>4, Zenon DEF TakeStep
  <2>2. Sound(k) /\ k.kind = "prio" /\ k.held = t.held BY KindKeeps
  <2>3. k.held \/ OwesWrites(c) BY <1>4, <2>2
  <2>4. Stepped(k, PriorityStep(t, c), c) \/ Asked(k, PriorityStep(t, c), c)
    BY PriorityStepSteps
  <2> HIDE DEF k, local, u
  <2>5. Chose(k, c, {}) BY <2>2, <2>3 DEF Chose
  <2> QED BY <1>1, <2>0, <2>1, <2>4, <2>5 DEF u
<1>5. CASE local = 0 /\ ~t.stopped /\ ~gated
  <2> DEFINE k == [t EXCEPT !.kind = "step"]
  <2>0. k = [t EXCEPT !.kind = "step"] OBVIOUS
  <2>1. u = Step(t, c) BY <1>5, Zenon DEF TakeStep
  <2>2. Open(t) BY <1>5 DEF Waits, Open
  <2>3. Owed(c) = {} BY <1>5 DEF OwesWrites
  <2>4. Sound(k) /\ k.kind = "step" /\ Open(k) BY <2>2, KindKeeps
  <2>5. Stepped(k, Step(t, c), c) \/ Asked(k, Step(t, c), c) BY StepSteps
  <2> HIDE DEF k, local, u
  <2>6. Chose(k, c, {}) BY <2>3, <2>4 DEF Chose
  <2> QED BY <1>1, <2>0, <2>1, <2>3, <2>5, <2>6 DEF u
<1> QED BY <1>2, <1>3, <1>4, <1>5

\* A record at the end of a pass is due.
LEMMA EndPassFollows ==
    ASSUME NEW t, NEW c, NEW owed, Sound(t)
    PROVE  Follows(t, EndPass(t), c, owed)
<1>1. Landed(t, EndPass(t), c) /\ EndPass(t).pc \in {"wait", "off"} BY EndPassLands
<1>2. EndPass(t).pc # "run" BY <1>1
<1> QED BY <1>1, <1>2, Zenon DEF Landed, Follows, Due

LEMMA LoopFollows ==
    ASSUME config \in Scenarios, NEW t, NEW c, Sound(t), Waits(t, c)
    PROVE  Follows(t, Loop(t, c), c, {})
<1>1. CASE t.closing \/ (~t.arg /\ (Requested(t) \/ t.due))
  <2>1. Loop(t, c) = EndPass(t) BY <1>1, Zenon DEF Loop
  <2> QED BY <2>1, EndPassFollows
<1>2. CASE ~(t.closing \/ (~t.arg /\ (Requested(t) \/ t.due)))
  <2>1. Loop(t, c) = TakeStep(t, c) BY <1>2, Zenon DEF Loop
  <2>2. ~t.closing /\ (t.arg \/ ~Requested(t)) BY <1>2
  <2> QED BY <2>1, <2>2, TakeStepFollows
<1> QED BY <1>1, <1>2

-----------------------------------------------------------------------------
(* The start of a pass *)

\* What ProceedPass hands to Proceed.
Passed(t, c) == IF t.result = "BEGIN" THEN Loop(Return(t, "none"), c) ELSE t

LEMMA BeginFollows ==
    ASSUME config \in Scenarios, NEW t, NEW c, Sound(t), Waits(t, c)
    PROVE  Follows(t, Passed(Return(t, "BEGIN"), c), c, {})
<1> DEFINE b == Return(t, "BEGIN")
           w == Return(b, "none")
           p == Passed(b, c)
<1>1. DOMAIN t = Fields BY DEF Sound
<1>2. Only({"result"}, t, b) /\ b.result = "BEGIN" BY <1>1, ReturnFields
<1>3. DOMAIN b = Fields BY <1>2 DEF Only
<1>4. p = Loop(w, c) BY <1>2 DEF Passed
<1> HIDE DEF b
<1>5. Only({"result"}, b, w) BY <1>3, ReturnFields
<1> HIDE DEF w, p
<1>6. Only({"result"}, t, w)
  <2>1. Only({"result"} \cup {"result"}, t, w) BY <1>2, <1>5, OnlyJoins
  <2> QED BY <2>1 DEF Only
<1>7. /\ w.queue = t.queue /\ w.line = t.line /\ w.ctlPage = t.ctlPage /\ w.gate = t.gate
      /\ w.stopped = t.stopped /\ w.closing = t.closing /\ w.held = t.held
      /\ w.arg = t.arg /\ w.relieved = t.relieved /\ w.deferred = t.deferred
  BY <1>6, Untouched
<1>8. DOMAIN w = Fields BY <1>6 DEF Only
<1>9. Sound(w) BY <1>7, <1>8, Zenon DEF Sound
<1>10. Waits(w, c)
  <2>1. Open(t) => Open(w) BY <1>7 DEF Open
  <2> QED BY <1>7, <2>1, Zenon DEF Waits, Requested
<1>11. Follows(w, p, c, {}) BY <1>4, <1>9, <1>10, LoopFollows
<1>12. Keeps(t, p, c) BY <1>7, <1>11, Zenon DEF Follows, Keeps, Has
<1>13. Follows(t, p, c, {}) BY <1>7, <1>11, <1>12 DEF Follows
<1> QED BY <1>13 DEF p, b

\* retry_settlements: while it awaits a write, or when the pass begins.
LEMMA SettlementsFollow ==
    ASSUME config \in Scenarios, NEW t, NEW c, Sound(t), t.result = "none",
           NEW todo \in SUBSET Owed(c)
    PROVE  Follows(t, Passed(Settlements(t, c, todo), c), c, {})
<1>0. DOMAIN t = Fields BY DEF Sound
<1>1. CASE todo = {} \/ t.stopped
  <2> DEFINE held == t.deferred # 0 /\ ~t.arg
             h == [t EXCEPT !.todo = {}, !.held = held]
  <2>1. Settlements(t, c, todo) = Return(h, "BEGIN") BY <1>1, Zenon DEF Settlements
  <2>2. held \/ Open(t) BY DEF Open
  <2> HIDE DEF held
  <2>3. Only({"todo", "held"}, t, h) /\ h.held = held BY <1>0, FieldsListed, Zenon DEF Only
  <2> HIDE DEF h
  <2>4. /\ h.queue = t.queue /\ h.line = t.line /\ h.ctlPage = t.ctlPage /\ h.gate = t.gate
        /\ h.stopped = t.stopped /\ h.arg = t.arg /\ h.relieved = t.relieved
        /\ h.deferred = t.deferred
    BY <2>3, Untouched
  <2>5. DOMAIN h = Fields BY <2>3 DEF Only
  <2>6. Sound(h) BY <2>4, <2>5, Zenon DEF Sound
  <2>7. Waits(h, c)
    <3>1. Open(t) => Open(h) BY <2>4 DEF Open
    <3> QED BY <2>2, <2>3, <3>1, Zenon DEF Waits
  <2> DEFINE p == Passed(Return(h, "BEGIN"), c)
  <2>8. Follows(h, p, c, {}) BY <2>6, <2>7, BeginFollows
  <2> HIDE DEF p
  <2>9. Keeps(t, p, c) BY <2>4, <2>8, Zenon DEF Follows, Keeps, Has
  <2>10. Follows(t, p, c, {}) BY <2>4, <2>8, <2>9 DEF Follows
  <2> QED BY <2>1, <2>10 DEF p
<1>2. CASE ~(todo = {} \/ t.stopped)
  <2> DEFINE u == [t EXCEPT !.pc = "retry", !.todo = todo]
  <2>1. Settlements(t, c, todo) = u BY <1>2, Zenon DEF Settlements
  <2>2. Only({"pc", "todo"}, t, u) /\ u.pc = "retry" /\ u.todo = todo
    BY <1>0, FieldsListed, Zenon DEF Only
  <2> HIDE DEF u
  <2>3. /\ u.queue = t.queue /\ u.line = t.line /\ u.ctlPage = t.ctlPage /\ u.gate = t.gate
        /\ u.stopped = t.stopped /\ u.result = "none"
    BY <2>2, Untouched
  <2>4. Passed(Settlements(t, c, todo), c) = u BY <2>1, <2>3 DEF Passed
  <2>5. DOMAIN u = Fields BY <2>2 DEF Only
  <2>6. Sound(u) BY <2>3, <2>5, Zenon DEF Sound
  <2>7. Keeps(t, u, c) BY <2>3, Zenon DEF Keeps, Has
  <2>8. Awaiting(u, c) BY <2>2 DEF Awaiting, Reads
  <2>9. u.pc # "run" /\ u.pc # "gate" BY <2>2
  <2>10. Due(u, c, {}) BY <2>3, <2>6, <2>8, <2>9 DEF Due
  <2> QED BY <2>3, <2>4, <2>7, <2>10 DEF Follows
<1> QED BY <1>1, <1>2

\* run_pass up to its first await.
LEMMA BeginPassFollows ==
    ASSUME config \in Scenarios, NEW t, NEW c, Sound(t), NEW recovery
    PROVE  Follows(t, Passed(BeginPass(t, c, recovery), c), c, {})
<1> DEFINE d == Idle(t)
           i == [d EXCEPT !.arg = recovery, !.recovery = recovery]
           a == Absorb(i)
           p == Passed(BeginPass(t, c, recovery), c)
<1>0. DOMAIN t = Fields BY DEF Sound
<1>1. /\ Only(PassFields, t, d) /\ d.result = "none" /\ d.gate = 0 /\ d.ctlPage = Unread
  BY <1>0, IdleFields
<1>2. BeginPass(t, c, recovery) = IF a.stopped /\ recovery THEN Await(a, "gate")
                                  ELSE Settlements(a, c, Owed(c))
  BY DEF BeginPass
<1>3. DOMAIN d = Fields BY <1>1 DEF Only
<1> HIDE DEF d
<1>4. Only({"arg", "recovery"}, d, i) BY <1>3, FieldsListed, Zenon DEF Only
<1> HIDE DEF i
<1>5. i.result = "none" /\ i.gate = 0 /\ i.ctlPage = Unread BY <1>1, <1>4, Untouched
<1>6. Only(PassFields \cup {"arg", "recovery"}, t, i) BY <1>1, <1>4, OnlyJoins
<1>7. i.queue = t.queue /\ i.line = t.line /\ i.stopped = t.stopped
  BY <1>6, Untouched DEF PassFields
<1>8. Sound(i)
  <2>1. DOMAIN i = Fields /\ i.gate \in Msgs \cup {0} BY <1>4, <1>5 DEF Only
  <2> QED BY <1>5, <1>7, <2>1, Zenon DEF Sound
<1>9. Quiet(i, a, c) BY <1>8, AbsorbQuiet
<1> HIDE DEF a
<1>10. Sound(a) /\ Keeps(i, a, c) /\ a.stopped = i.stopped /\ a.result = "none"
  BY <1>5, <1>9 DEF Quiet, Frozen
<1>11. SUFFICES Follows(a, p, c, {})
  <2> HIDE DEF p
  <2>1. Keeps(t, p, c) BY <1>7, <1>10, <1>11, Zenon DEF Follows, Keeps, Has
  <2>2. Follows(t, p, c, {}) BY <1>7, <1>10, <1>11, <2>1 DEF Follows
  <2> QED BY <2>2 DEF p
<1>12. CASE a.stopped /\ recovery
  <2> DEFINE u == Await(a, "gate")
  <2>1. DOMAIN a = Fields BY <1>10 DEF Sound
  <2>2. /\ Only(Resting \cup {"pc", "sel"}, a, u) /\ u.kind = a.kind /\ u.pc = "gate"
        /\ u.result = "none" /\ u.answer = Unread
    BY <2>1, AwaitFields
  <2>3. BeginPass(t, c, recovery) = u BY <1>2, <1>12
  <2> HIDE DEF u
  <2>4. p = u BY <2>2, <2>3 DEF Passed
  <2>5. Sound(u) /\ Keeps(a, u, c) /\ Frozen(a, u) BY <1>10, <2>2, RestSteps
  <2>6. Awaiting(u, c) BY <2>2 DEF Awaiting
  <2>7. Due(u, c, {}) BY <2>2, <2>5, <2>6 DEF Due
  <2> QED BY <2>4, <2>5, <2>7 DEF Follows, Frozen
<1>13. CASE ~(a.stopped /\ recovery)
  <2>1. BeginPass(t, c, recovery) = Settlements(a, c, Owed(c)) BY <1>2, <1>13, Zenon
  <2> QED BY <1>10, <2>1, SettlementsFollow
<1> QED BY <1>12, <1>13

-----------------------------------------------------------------------------
(* From records to states *)

LEMMA OwedClaimed ==
    ASSUME NEW c \in [Msgs -> ClaimStates], NEW u
    PROVE  /\ ClaimedBy(c, u) \in [Msgs -> ClaimStates] /\ Owed(ClaimedBy(c, u)) = Owed(c)
           /\ \A m \in Msgs : ClaimedBy(c, u)[m] \in Unsettled <=> c[m] \in Unsettled
<1> DEFINE taken(m) == u.pc = "run" /\ Contains(u.members, m) /\ c[m] = "free"
           d == ClaimedBy(c, u)
<1>1. d = [m \in Msgs |-> IF taken(m) THEN "mine" ELSE c[m]] BY DEF ClaimedBy
<1>2. \A m \in Msgs : taken(m) => c[m] = "free" OBVIOUS
<1> HIDE DEF taken, d
<1>3. \A m \in Msgs : d[m] = c[m] \/ (d[m] = "mine" /\ c[m] = "free") BY <1>1, <1>2
<1>4. d \in [Msgs -> ClaimStates] BY <1>1 DEF ClaimStates
<1>5. Owed(d) = Owed(c) BY <1>3 DEF Owed
<1>6. \A m \in Msgs : d[m] \in Unsettled <=> c[m] \in Unsettled BY <1>3 DEF Unsettled
<1> QED BY <1>4, <1>5, <1>6 DEF d

LEMMA AwaitingOwed ==
    ASSUME NEW u, NEW c, NEW d, Owed(d) = Owed(c), Awaiting(u, c)
    PROVE  Awaiting(u, d)
<1>1. OwesWrites(d) <=> OwesWrites(c) BY DEF OwesWrites
<1>2. Waits(u, c) => Waits(u, d) BY <1>1, Zenon DEF Waits
<1> QED BY <1>1, <1>2, Zenon DEF Awaiting

\* The invariant's record parts in the next state.
LEMMA SoundNext ==
    ASSUME NEW u, s' = u, config' = config, Sound(u)
    PROVE  Sound(s)'
<1>1. /\ Msgs' = Msgs /\ Rosters' = Rosters /\ Hubs' = Hubs
  BY DEF Msgs, Rosters, Hubs
<1>2. Locals' = Locals /\ Events' = Events BY <1>1 DEF Locals, Events
<1> QED BY <1>1, <1>2, Zenon DEF Sound, Single, Unread, Fields, Fresh, IdlePass, Batching

LEMMA AwaitingNext ==
    ASSUME NEW u, NEW d, s' = u, claim' = d, config' = config, Awaiting(u, d)
    PROVE  Awaiting(s, claim)'
<1>1. Msgs' = Msgs /\ Rosters' = Rosters /\ Hubs' = Hubs BY DEF Msgs, Rosters, Hubs
<1>2. Locals' = Locals BY <1>1 DEF Locals
<1>3. Owed(claim)' = Owed(d) BY <1>1 DEF Owed
<1>4. OwesWrites(claim)' = OwesWrites(d) BY <1>3 DEF OwesWrites
<1>5. Placed(s)' = Placed(u) BY <1>2 DEF Placed
<1>6. Waits(s, claim)' = Waits(u, d) /\ Open(s)' = Open(u)
  BY <1>4, Zenon DEF Waits, Open, Requested
<1> QED BY <1>1, <1>3, <1>4, <1>5, <1>6, Zenon DEF Awaiting, Unread, Reads

LEMMA EntrustedMsgs ==
    ASSUME config' = config
    PROVE  /\ Entrusted \subseteq Msgs /\ Entrusted' \subseteq Msgs
           /\ (sent' = sent /\ absent \subseteq absent') => Entrusted' \subseteq Entrusted
BY DEF Entrusted, Msgs

LEMMA InvNext ==
    ASSUME SchedulerInv, NEW u, NEW d, s' = u, claim' = d, config' = config,
           posted' \subseteq Msgs, Sound(u), u.result = "none", d \in [Msgs -> ClaimStates],
           Awaiting(u, d),
           u.pc # "off" => \A m \in Entrusted' : d[m] \in Unsettled => Has(u, m),
           (u.pc = "gate" /\ u.answer # Unread /\ ~u.stale /\ u.stopped) => probed'
    PROVE  SchedulerInv'
<1>1. Msgs' = Msgs BY DEF Msgs
<1>2. config' \in Scenarios BY DEF SchedulerInv
<1>3. Sound(s)' /\ Awaiting(s, claim)' BY SoundNext, AwaitingNext
<1>4. NeverDropsRunnable' BY <1>1 DEF NeverDropsRunnable, Has, Unsettled
<1>5. GateFits' BY DEF GateFits, Unread
<1> QED BY <1>1, <1>2, <1>3, <1>4, <1>5 DEF SchedulerInv

\* The coroutine resumes with record t and claims c, and runs to its next await.
LEMMA Resumes ==
    ASSUME SchedulerInv, s.pc # "off", NEW t, NEW c \in [Msgs -> ClaimStates], NEW owed,
           Due(t, c, owed), t.stopped \/ ~s.stopped \/ probed,
           \A m \in Entrusted' :
              c[m] \in Unsettled => claim[m] \in Unsettled /\ (Has(s, m) => Has(t, m)),
           Proceed(t, c), UNCHANGED <<config, posted, sent>>, absent \subseteq absent'
    PROVE  /\ SchedulerInv' /\ (s.stopped /\ ~s'.stopped => probed)
           /\ (s'.pc = "run" /\ ~s'.prio) =>
                /\ Owed(claim)' \subseteq owed
                /\ s'.arg \/ s'.deferred = 0 \/ s'.relieved
<1> DEFINE u == IF t.result = "none" THEN t ELSE AfterStep(t, c)
           d == ClaimedBy(c, u)
<1>1. s' = u /\ claim' = d BY DEF Proceed
<1>2. Landed(t, u, c) /\ ((u.pc = "run" /\ ~u.prio) => Owed(c) \subseteq owed)
  BY ProceedLands
<1>3. /\ d \in [Msgs -> ClaimStates] /\ Owed(d) = Owed(c)
      /\ \A m \in Msgs : d[m] \in Unsettled <=> c[m] \in Unsettled
  BY OwedClaimed
<1> HIDE DEF u, d
<1>4. /\ Sound(u) /\ Keeps(t, u, c) /\ u.stopped = t.stopped /\ u.result = "none"
      /\ Awaiting(u, c) /\ (u.pc = "gate" => u.answer = Unread)
  BY <1>2 DEF Landed
<1>5. Awaiting(u, d) BY <1>3, <1>4, AwaitingOwed
<1>6. \A m \in Entrusted' : d[m] \in Unsettled => Has(u, m)
  <2>1. Entrusted' \subseteq Entrusted /\ Entrusted' \subseteq Msgs BY EntrustedMsgs
  <2>2. \A m \in Entrusted : claim[m] \in Unsettled => Has(s, m)
    BY DEF SchedulerInv, NeverDropsRunnable, Has, Unsettled
  <2> QED BY <1>3, <1>4, <2>1, <2>2 DEF Keeps
<1>7. config' = config /\ posted' \subseteq Msgs BY DEF SchedulerInv
<1>8. SchedulerInv' BY <1>1, <1>3, <1>4, <1>5, <1>6, <1>7, InvNext
<1>9. s.stopped /\ ~s'.stopped => probed BY <1>1, <1>4
<1>10. ASSUME s'.pc = "run" /\ ~s'.prio
       PROVE  /\ Owed(claim)' \subseteq owed
              /\ s'.arg \/ s'.deferred = 0 \/ s'.relieved
  <2>1. Owed(claim)' = Owed(d) BY <1>1, <1>7 DEF Owed, Msgs
  <2>2. Owed(c) \subseteq owed BY <1>1, <1>2, <1>10
  <2>3. Open(u)
    <3>1. u.kind \in {"step", "prio"} /\ (u.prio <=> u.kind = "prio")
      BY <1>1, <1>4, <1>10 DEF Awaiting
    <3>2. u.kind = "step" BY <1>1, <1>10, <3>1
    <3> QED BY <1>1, <1>4, <1>10, <3>2 DEF Awaiting
  <2> QED BY <1>1, <1>3, <2>1, <2>2, <2>3 DEF Open
<1> QED BY <1>8, <1>9, <1>10

-----------------------------------------------------------------------------
(* The coroutine's actions *)

\* What every step of the system does: it keeps the invariant, lifts a stop only for a
\* reason, and dispatches ordinary input only when that need not wait.
Fits ==
    /\ SchedulerInv'
    /\ (s.stopped /\ ~s'.stopped) => (probed \/ signals' # signals)
    /\ DispatchesOrdinary => /\ Owed(claim') \subseteq s.late
                             /\ s'.arg \/ s'.deferred = 0 \/ s'.relieved

LEMMA ReleasesFit ==
    ASSUME SchedulerInv, s.pc # "off", NEW t, NEW c \in [Msgs -> ClaimStates], NEW owed,
           s.pc = "run" \/ owed \subseteq s.late,
           Due(t, c, owed), t.stopped \/ ~s.stopped \/ probed,
           \A m \in Entrusted' :
              c[m] \in Unsettled => claim[m] \in Unsettled /\ (Has(s, m) => Has(t, m)),
           Proceed(t, c), UNCHANGED <<config, posted, sent>>, absent \subseteq absent'
    PROVE  Fits
<1>1. /\ SchedulerInv' /\ (s.stopped /\ ~s'.stopped => probed)
      /\ (s'.pc = "run" /\ ~s'.prio) =>
           /\ Owed(claim)' \subseteq owed
           /\ s'.arg \/ s'.deferred = 0 \/ s'.relieved
  BY Resumes
<1>2. Owed(claim') = Owed(claim)' BY DEF Owed, Msgs
<1> QED BY <1>1, <1>2 DEF Fits, DispatchesOrdinary, Dispatches

LEMMA ResumesFit ==
    ASSUME SchedulerInv, s.pc # "off", NEW t, NEW c \in [Msgs -> ClaimStates], NEW owed,
           s.pc = "run" \/ owed \subseteq s.late,
           Due(t, c, owed), t.stopped \/ ~s.stopped \/ probed,
           \A m \in Msgs :
              c[m] \in Unsettled => claim[m] \in Unsettled /\ (Has(s, m) => Has(t, m)),
           Proceed(t, c), UNCHANGED platform
    PROVE  Fits
<1>1. UNCHANGED <<config, posted, sent>> /\ absent \subseteq absent' BY DEF platform
<1>2. Entrusted' \subseteq Msgs BY <1>1, EntrustedMsgs
<1> QED BY <1>1, <1>2, ReleasesFit

\* The step goes on from the record q, which holds what s holds.
LEMMA FollowsFit ==
    ASSUME SchedulerInv, s.pc # "off", NEW q, NEW t, NEW c \in [Msgs -> ClaimStates],
           Follows(q, t, c, {}), q.stopped \/ ~s.stopped \/ probed,
           \A m \in Msgs : c[m] \in Unsettled => claim[m] \in Unsettled,
           \A m \in Msgs : (c[m] \in Unsettled /\ Has(s, m)) => Has(q, m),
           Proceed(t, c), UNCHANGED platform
    PROVE  Fits
<1>1. Due(t, c, {}) /\ Keeps(q, t, c) /\ t.stopped = q.stopped BY DEF Follows
<1>2. \A m \in Msgs : c[m] \in Unsettled => claim[m] \in Unsettled /\ (Has(s, m) => Has(t, m))
  BY <1>1, Zenon DEF Keeps
<1>3. {} \subseteq s.late OBVIOUS
<1>4. t.stopped \/ ~s.stopped \/ probed BY <1>1
<1> QED BY <1>1, <1>2, <1>3, <1>4, ResumesFit

LEMMA PassIsProceed ==
    ASSUME NEW t, NEW c, ProceedPass(t, c)
    PROVE  Proceed(Passed(t, c), c)
BY DEF ProceedPass, Passed

LEMMA InvFacts ==
    ASSUME SchedulerInv
    PROVE  /\ config \in Scenarios /\ Sound(s) /\ s.result = "none" /\ DOMAIN s = Fields
           /\ claim \in [Msgs -> ClaimStates] /\ Awaiting(s, claim)
BY DEF SchedulerInv, Sound

\* The record with another queue.
Requeued(t, queue) == [t EXCEPT !.queue = queue]

LEMMA QueueFields ==
    ASSUME NEW t, Sound(t), NEW queue \in Seq(Events \cup {Resync}), NEW u,
           u = Requeued(t, queue)
    PROVE  /\ Sound(u) /\ Only({"queue"}, t, u) /\ u.queue = queue /\ u.line = t.line
           /\ u.stopped = t.stopped
<1>1. DOMAIN t = Fields BY DEF Sound
<1>2. Only({"queue"}, t, u) /\ u.queue = queue
  BY <1>1, FieldsListed, Zenon DEF Only, Requeued
<1>3. u.line = t.line /\ u.stopped = t.stopped /\ u.gate = t.gate /\ u.ctlPage = t.ctlPage
  BY <1>2, Untouched
<1>4. DOMAIN u = Fields BY <1>2 DEF Only
<1>5. Sound(u) BY <1>2, <1>3, <1>4, Zenon DEF Sound
<1> QED BY <1>2, <1>3, <1>5

LEMMA WakeFits ==
    ASSUME SchedulerInv, Boot \/ WakeDue
    PROVE  Fits
<1> DEFINE q == [s EXCEPT !.queue = Queued(s)]
           t == Passed(BeginPass(q, claim, TRUE), claim)
<1>1. /\ config \in Scenarios /\ Sound(s) /\ claim \in [Msgs -> ClaimStates] BY InvFacts
<1>2. Queued(s) \in Seq(Events) /\ ToSet(Queued(s)) = ToSet(s.queue) \ {Resync}
  BY <1>1, QueuedEvents
<1>3. Queued(s) \in Seq(Events \cup {Resync}) BY <1>2, SeqMonotonic
<1>4. Sound(q) /\ q.queue = Queued(s) /\ q.line = s.line /\ q.stopped = s.stopped
  <2> DEFINE queue == Queued(s)
  <2>1. q = Requeued(s, queue) /\ queue \in Seq(Events \cup {Resync}) /\ Sound(s)
    BY <1>1, <1>3, Zenon DEF Requeued
  <2> HIDE DEF q, queue
  <2>2. Sound(q) /\ q.queue = queue /\ q.line = s.line /\ q.stopped = s.stopped
    BY <2>1, QueueFields, Zenon
  <2> QED BY <2>2 DEF queue
<1>5. Proceed(t, claim) /\ s.pc # "off" /\ UNCHANGED platform
  <2> DEFINE b == BeginPass(q, claim, TRUE)
  <2>1. /\ s.pc \in {"boot", "wait"} /\ ProceedPass(b, claim)
        /\ UNCHANGED <<platform, faults, signals>>
    BY Zenon DEF Boot, WakeDue
  <2> HIDE DEF b, q
  <2>2. Proceed(Passed(b, claim), claim) BY <2>1, PassIsProceed
  <2> QED BY <2>1, <2>2 DEF b
<1> HIDE DEF q
<1>6. Follows(q, t, claim, {}) BY <1>1, <1>4, BeginPassFollows
<1> HIDE DEF t
<1>7. ASSUME NEW m \in Msgs, Has(s, m) PROVE Has(q, m)
  <2>1. CASE Contains(s.line, m) BY <1>4, <2>1 DEF Has
  <2>2. CASE Contains(s.queue, m)
    <3>1. m \in ToSet(s.queue) BY <1>1, <2>2, ContainsSet DEF Sound
    <3>2. m \in ToSet(Queued(s)) BY <1>1, <1>2, <3>1, ScenarioFacts
    <3>3. Contains(q.queue, m) BY <1>2, <1>4, <3>2, ContainsSet
    <3> QED BY <3>3 DEF Has
  <2> QED BY <1>7, <2>1, <2>2 DEF Has
<1> QED BY <1>1, <1>4, <1>5, <1>6, <1>7, FollowsFit

\* The record once it received an event.
LEMMA ReceiveFields ==
    ASSUME NEW t, Sound(t), NEW e \in Events
    PROVE  /\ Sound(Receive(t, e)) /\ Receive(t, e).queue = t.queue
           /\ Receive(t, e).stopped = t.stopped
           /\ ToSet(Receive(t, e).line) = ToSet(t.line) \cup {e}
<1> DEFINE line == Add(t.line, e)
           first == IF e \notin Rosters /\ t.first = 0 /\ ~t.sync THEN e ELSE t.first
           u == Receive(t, e)
<1>1. DOMAIN t = Fields /\ t.line \in Seq(Events) /\ Single(t.line) BY DEF Sound
<1>2. u = [t EXCEPT !.line = line, !.first = first] BY DEF Receive
<1>3. line \in Seq(Events) /\ Single(line) /\ ToSet(line) = ToSet(t.line) \cup {e}
  BY <1>1, AddKeeps
<1> HIDE DEF line, first, u
<1>4. Only({"line", "first"}, t, u) /\ u.line = line BY <1>1, <1>2, FieldsListed, Zenon DEF Only
<1>5. u.queue = t.queue /\ u.stopped = t.stopped /\ u.gate = t.gate /\ u.ctlPage = t.ctlPage
  BY <1>4, Untouched
<1>6. DOMAIN u = Fields BY <1>4 DEF Only
<1>7. Sound(u) BY <1>3, <1>4, <1>5, <1>6, Zenon DEF Sound
<1> QED BY <1>3, <1>4, <1>5, <1>7 DEF u

LEMMA WakeQueueFits ==
    ASSUME SchedulerInv, WakeQueue
    PROVE  Fits
<1> DEFINE event == Head(s.queue)
           b == [s EXCEPT !.queue = Tail(s.queue)]
           q == IF event = Resync THEN b ELSE Receive(b, event)
           t == Passed(BeginPass(q, claim, event = Resync), claim)
<1>1. /\ config \in Scenarios /\ Sound(s) /\ claim \in [Msgs -> ClaimStates] BY InvFacts
<1>2. s.queue \in Seq(Events \cup {Resync}) /\ s.queue # <<>> BY <1>1 DEF Sound, WakeQueue
<1>3. /\ event \in Events \cup {Resync} /\ Tail(s.queue) \in Seq(Events \cup {Resync})
      /\ Len(Tail(s.queue)) = Len(s.queue) - 1
      /\ \A i \in 1..Len(Tail(s.queue)) : Tail(s.queue)[i] = s.queue[i + 1]
      /\ event = s.queue[1]
  BY <1>2, HeadTailProperties
<1>5. Proceed(t, claim) /\ s.pc # "off" /\ UNCHANGED platform
  BY PassIsProceed DEF WakeQueue
<1>10. b = [s EXCEPT !.queue = Tail(s.queue)] OBVIOUS
<1> HIDE DEF b, event
<1>4. Sound(b) /\ b.queue = Tail(s.queue) /\ b.line = s.line /\ b.stopped = s.stopped
  <2> DEFINE tail == Tail(s.queue)
  <2>1. tail \in Seq(Events \cup {Resync}) /\ b = Requeued(s, tail)
    BY <1>3, <1>10 DEF Requeued
  <2> HIDE DEF tail
  <2>2. Sound(b) /\ b.queue = tail /\ b.line = s.line /\ b.stopped = s.stopped
    BY <1>1, <2>1, QueueFields
  <2> QED BY <2>2 DEF tail
<1>6. event # Resync =>
        /\ Sound(Receive(b, event)) /\ Receive(b, event).queue = b.queue
        /\ Receive(b, event).stopped = b.stopped
        /\ ToSet(Receive(b, event).line) = ToSet(b.line) \cup {event}
  BY <1>3, <1>4, ReceiveFields
<1>7. /\ Sound(q) /\ q.queue = b.queue /\ q.stopped = b.stopped
      /\ ToSet(b.line) \subseteq ToSet(q.line)
      /\ event # Resync => event \in ToSet(q.line)
  BY <1>4, <1>6
<1> HIDE DEF q
<1>8. Follows(q, t, claim, {}) BY <1>1, <1>7, BeginPassFollows
<1> HIDE DEF t
<1>9. ASSUME NEW m \in Msgs, Has(s, m) PROVE Has(q, m)
  <2>1. q.line \in Seq(Events) /\ s.line \in Seq(Events) BY <1>1, <1>7 DEF Sound
  <2>2. CASE Contains(s.line, m)
    <3>1. m \in ToSet(q.line) BY <1>4, <1>7, <2>1, <2>2, ContainsSet
    <3> QED BY <2>1, <3>1, ContainsSet DEF Has
  <2>3. CASE Contains(s.queue, m)
    <3>1. PICK i \in 1..Len(s.queue) : s.queue[i] = m BY <2>3 DEF Contains
    <3>2. CASE i = 1
      <4>1. event = m /\ event # Resync BY <1>1, <1>3, <3>1, <3>2, ScenarioFacts
      <4> QED BY <1>7, <2>1, <4>1, ContainsSet DEF Has
    <3>3. CASE i # 1
      <4>1. Len(s.queue) \in Nat BY <1>2, LenProperties
      <4>2. i - 1 \in 1..Len(Tail(s.queue)) /\ i - 1 + 1 = i BY <1>3, <3>3, <4>1
      <4>3. Tail(s.queue)[i - 1] = m BY <1>3, <3>1, <4>2
      <4>4. Contains(q.queue, m) BY <1>4, <1>7, <4>2, <4>3 DEF Contains
      <4> QED BY <4>4 DEF Has
    <3> QED BY <3>2, <3>3
  <2> QED BY <1>9, <2>2, <2>3 DEF Has
<1> QED BY <1>1, <1>4, <1>5, <1>7, <1>8, <1>9, FollowsFit

LEMMA NextStepFits ==
    ASSUME SchedulerInv, NextStep
    PROVE  Fits
<1> DEFINE t == Passed(Return(s, "BEGIN"), claim)
<1>1. /\ config \in Scenarios /\ Sound(s) /\ claim \in [Msgs -> ClaimStates]
      /\ Awaiting(s, claim)
  BY InvFacts
<1>2. s.pc = "loop" /\ Proceed(t, claim) /\ UNCHANGED platform BY PassIsProceed DEF NextStep
<1>3. Waits(s, claim) BY <1>1, <1>2 DEF Awaiting
<1>4. Follows(s, t, claim, {}) BY <1>1, <1>3, BeginFollows
<1> HIDE DEF t
<1> QED BY <1>1, <1>2, <1>4, FollowsFit


-----------------------------------------------------------------------------
(* The returns of a read *)

\* What the coroutine holds when it resumes from a read.
LEMMA AbsorbFacts ==
    ASSUME SchedulerInv, NEW t, t = Absorb(s)
    PROVE  /\ Quiet(s, t, claim) /\ Sound(t) /\ t.result = "none" /\ t.stopped = s.stopped
           /\ t.closing = s.closing /\ t.kind = s.kind /\ t.held = s.held
           /\ Keeps(s, t, claim) /\ DOMAIN t = Fields
           /\ Open(s) => Open(t)
<1>1. Sound(s) /\ s.result = "none" /\ config \in Scenarios BY InvFacts
<1>2. Quiet(s, t, claim) BY <1>1, AbsorbQuiet
<1>3. /\ Sound(t) /\ Keeps(s, t, claim) /\ Frozen(s, t) /\ t.deferred \in {s.deferred, 0}
      /\ t.result = s.result
  BY <1>2 DEF Quiet
<1>4. Open(s) => Open(t) BY <1>3, OpenKept
<1>5. DOMAIN t = Fields BY <1>3 DEF Sound
<1>6. t.stopped = s.stopped /\ t.closing = s.closing /\ t.kind = s.kind /\ t.held = s.held
  BY <1>3 DEF Frozen
<1> QED BY <1>1, <1>2, <1>3, <1>4, <1>5, <1>6

\* The rest of a step that awaited.
LEMMA StepEnds ==
    ASSUME SchedulerInv, s.pc # "off", NEW t, NEW u, Quiet(s, t, claim),
           Chose(t, claim, s.late), Stepped(t, u, claim), Proceed(u, claim), UNCHANGED platform
    PROVE  Fits
<1>1. claim \in [Msgs -> ClaimStates] BY InvFacts
<1>2. Stepped(s, u, claim) BY QuietSteps
<1>3. Due(u, claim, s.late) BY SteppedDue
<1>4. Keeps(s, u, claim) /\ u.stopped = s.stopped BY <1>2 DEF Stepped, Frozen
<1>5. \A m \in Msgs :
        claim[m] \in Unsettled => claim[m] \in Unsettled /\ (Has(s, m) => Has(u, m))
  BY <1>4, Zenon DEF Keeps
<1>6. u.stopped \/ ~s.stopped \/ probed BY <1>4
<1>7. s.late \subseteq s.late OBVIOUS
<1> QED BY <1>1, <1>3, <1>5, <1>6, <1>7, ResumesFit

LEMMA NextEndsFits ==
    ASSUME SchedulerInv, NextEnds
    PROVE  Fits
<1> DEFINE t == Absorb(s)
           row == IF s.answer.rows = <<>> THEN 0 ELSE s.answer.rows[1]
           u == IF s.stale THEN Return(t, "PROGRESS") ELSE AfterNext(t, claim, row)
<1>1. config \in Scenarios /\ Awaiting(s, claim) BY InvFacts
<1>2. s.pc = "next" /\ s.answer # Unread /\ Proceed(u, claim) /\ UNCHANGED platform
  BY DEF NextEnds, Answered
<1>3. t = Absorb(s) OBVIOUS
<1> HIDE DEF t
<1>4. Quiet(s, t, claim) /\ Sound(t) /\ t.kind = s.kind /\ (Open(s) => Open(t))
  BY <1>3, AbsorbFacts
<1>5. s.kind = "step" /\ Open(s) /\ Owed(claim) \subseteq s.late /\ s.answer.rows \in Seq(Msgs)
  BY <1>1, <1>2 DEF Awaiting, Reads
<1>6. Chose(t, claim, s.late) BY <1>4, <1>5 DEF Chose
<1>7. row \in Msgs \cup {0}
  <2>1. CASE s.answer.rows = <<>> BY <2>1
  <2>2. CASE s.answer.rows # <<>>
    <3>1. Head(s.answer.rows) = s.answer.rows[1] /\ Head(s.answer.rows) \in Msgs
      BY <1>5, <2>2, HeadTailProperties
    <3> QED BY <2>2, <3>1
  <2> QED BY <2>1, <2>2
<1> HIDE DEF row
<1>8. Stepped(t, AfterNext(t, claim, row), claim) BY <1>1, <1>4, <1>5, <1>7, AfterNextSteps
<1>9. Stepped(t, Return(t, "PROGRESS"), claim) BY <1>4, ReturnSteps
<1>10. Stepped(t, u, claim) BY <1>8, <1>9
<1> HIDE DEF u
<1> QED BY <1>2, <1>4, <1>6, <1>10, StepEnds

LEMMA PageEndsFits ==
    ASSUME SchedulerInv, PageEnds
    PROVE  Fits
<1> DEFINE t == Absorb(s)
           last == s.answer.next = 0
           u == IF s.stale THEN Return(t, "PROGRESS")
                ELSE AfterRead(t, claim, s.answer, last)
<1>1. config \in Scenarios /\ Awaiting(s, claim) BY InvFacts
<1>2. s.pc = "page" /\ s.answer # Unread /\ Proceed(u, claim) /\ UNCHANGED platform
  BY DEF PageEnds, Answered
<1>3. t = Absorb(s) OBVIOUS
<1> HIDE DEF t, last
<1>4. Quiet(s, t, claim) /\ Sound(t) /\ t.kind = s.kind /\ (Open(s) => Open(t))
  BY <1>3, AbsorbFacts
<1>5. s.kind = "step" /\ Open(s) /\ Owed(claim) \subseteq s.late /\ s.answer.rows \in Seq(Msgs)
  BY <1>1, <1>2 DEF Awaiting, Reads
<1>6. Chose(t, claim, s.late) BY <1>4, <1>5 DEF Chose
<1>8. Stepped(t, AfterRead(t, claim, s.answer, last), claim)
  BY <1>1, <1>4, <1>5, AfterReadSteps
<1>9. Stepped(t, Return(t, "PROGRESS"), claim) BY <1>4, ReturnSteps
<1>10. Stepped(t, u, claim) BY <1>8, <1>9
<1> HIDE DEF u
<1> QED BY <1>2, <1>4, <1>6, <1>10, StepEnds

LEMMA ControlPageEndsFits ==
    ASSUME SchedulerInv, ControlPageEnds
    PROVE  Fits
<1> DEFINE t == Absorb(s)
           page == s.answer
           cs == Candidates(t, claim, s.answer.rows)
           y == [t EXCEPT !.ctlPage = page, !.ctl = page.next]
<1>1. config \in Scenarios /\ Awaiting(s, claim) BY InvFacts
<1>2. /\ s.pc = "ctlpage" /\ s.answer # Unread /\ UNCHANGED platform
      /\ \/ s.stopped /\ Proceed(Return(t, "STOPPED"), claim)
         \/ Proceed(Return(t, "PROGRESS"), claim)
         \/ Proceed(PriorityScan(y, claim, cs), claim)
  BY Zenon DEF ControlPageEnds, Answered
<1>3. t = Absorb(s) /\ y = [t EXCEPT !.ctlPage = page, !.ctl = page.next] OBVIOUS
<1>4. s.kind = "prio" /\ (s.held \/ OwesWrites(claim)) /\ page.rows \in Seq(Msgs)
  BY <1>1, <1>2 DEF Awaiting, Reads
<1>5. cs \in Seq(Judged(claim)) BY <1>1, <1>4, CandidatesJudged
<1> HIDE DEF t, y, page, cs
<1>6. /\ Quiet(s, t, claim) /\ Sound(t) /\ t.kind = s.kind /\ t.held = s.held
      /\ t.stopped = s.stopped /\ DOMAIN t = Fields
  BY <1>3, AbsorbFacts
<1>7. Chose(t, claim, s.late) BY <1>4, <1>6 DEF Chose
<1>8. CASE s.stopped /\ Proceed(Return(t, "STOPPED"), claim)
  <2>1. Stepped(t, Return(t, "STOPPED"), claim) BY <1>6, <1>8, ReturnSteps
  <2> QED BY <1>2, <1>6, <1>7, <1>8, <2>1, StepEnds
<1>9. CASE Proceed(Return(t, "PROGRESS"), claim)
  <2>1. Stepped(t, Return(t, "PROGRESS"), claim) BY <1>6, ReturnSteps
  <2> QED BY <1>2, <1>6, <1>7, <1>9, <2>1, StepEnds
<1>10. CASE Proceed(PriorityScan(y, claim, cs), claim)
  <2>1. Only({"ctlPage", "ctl"}, t, y) /\ y.ctlPage = page
    BY <1>3, <1>6, FieldsListed, Zenon DEF Only
  <2>2. /\ y.queue = t.queue /\ y.line = t.line /\ y.deferred = t.deferred
        /\ y.stopped = t.stopped /\ y.closing = t.closing /\ y.arg = t.arg /\ y.held = t.held
        /\ y.relieved = t.relieved /\ y.gate = t.gate /\ y.kind = t.kind
        /\ y.result = t.result
    BY <2>1, Untouched
  <2>3. DOMAIN y = Fields BY <2>1 DEF Only
  <2>4. y.ctlPage.rows \in Seq(Msgs) BY <1>4, <2>1
  <2>5. Sound(y) BY <1>6, <2>2, <2>3, <2>4, Zenon DEF Sound
  <2>6. Keeps(t, y, claim) BY <2>2, Zenon DEF Keeps, Has
  <2>7. Frozen(t, y) BY <2>2, Zenon DEF Frozen, Requested
  <2>8. Quiet(t, y, claim) BY <2>2, <2>5, <2>6, <2>7, Zenon DEF Quiet
  <2>9. Quiet(s, y, claim) BY <1>6, <2>8, QuietJoins
  <2>10. Chose(y, claim, s.late) BY <1>4, <1>6, <2>2 DEF Chose
  <2>11. y.kind = "prio" BY <1>4, <1>6, <2>2
  <2>12. Stepped(y, PriorityScan(y, claim, cs), claim)
    BY <1>1, <1>5, <2>5, <2>11, PriorityScanSteps
  <2> QED BY <1>2, <1>10, <2>9, <2>10, <2>12, StepEnds
<1> QED BY <1>2, <1>8, <1>9, <1>10

\* The record once a missed PLAY resumed the room.
LEMMA ResumedSound ==
    ASSUME NEW t, Sound(t), NEW row \in Msgs, NEW x,
           x = [Bump(t) EXCEPT !.stopped = FALSE, !.gate = row]
    PROVE  Sound(x) /\ x.result = t.result /\ x.line = t.line /\ x.queue = t.queue
<1> DEFINE b == Bump(t)
           fs == {"stale", "declined", "bounds", "sel", "stopped", "gate"}
<1>1. DOMAIN t = Fields BY DEF Sound
<1>2. Only({"stale", "declined", "bounds", "sel"}, t, b)
  BY <1>1, FieldsListed, Zenon DEF Only, Bump
<1>3. x = [b EXCEPT !.stopped = FALSE, !.gate = row] /\ DOMAIN b = Fields
  BY <1>2 DEF Only
<1> HIDE DEF b
<1>4. Only({"stopped", "gate"}, b, x) /\ x.gate = row
  BY <1>3, FieldsListed, Zenon DEF Only
<1>5. Only({"stale", "declined", "bounds", "sel"} \cup {"stopped", "gate"}, t, x)
  BY <1>2, <1>4, OnlyJoins
<1>6. Only(fs, t, x) BY <1>5 DEF Only
<1> SUFFICES ASSUME NEW v, Only(fs, t, v), v.gate = row
             PROVE  Sound(v) /\ v.result = t.result /\ v.line = t.line /\ v.queue = t.queue
  <2> HIDE DEF fs
  <2> QED BY <1>4, <1>6
<1>7. /\ v.queue = t.queue /\ v.line = t.line /\ v.ctlPage = t.ctlPage
      /\ v.result = t.result
  BY Untouched
<1>8. DOMAIN v = Fields BY DEF Only
<1>9. v.gate \in Msgs \cup {0} OBVIOUS
<1>10. Sound(v) BY <1>7, <1>8, <1>9, Zenon DEF Sound
<1> QED BY <1>7, <1>10

LEMMA GateEndsFits ==
    ASSUME SchedulerInv, GateEnds
    PROVE  Fits
<1> DEFINE t == Absorb(s)
           row == IF s.answer.rows = <<>> THEN 0 ELSE s.answer.rows[1]
           x == [Bump(t) EXCEPT !.stopped = FALSE, !.gate = row]
           over == EndPass(t)
           go(z) == Passed(Settlements(z, claim, Owed(claim)), claim)
<1>1. /\ config \in Scenarios /\ Awaiting(s, claim) /\ claim \in [Msgs -> ClaimStates]
  BY InvFacts
<1>2. /\ s.pc = "gate" /\ s.answer # Unread /\ UNCHANGED platform
      /\ \/ Proceed(over, claim)
         \/ Proceed(go(t), claim)
         \/ row # 0 /\ ~s.stale /\ Proceed(go(x), claim)
  BY PassIsProceed DEF GateEnds, Answered
<1>3. t = Absorb(s) /\ x = [Bump(t) EXCEPT !.stopped = FALSE, !.gate = row] OBVIOUS
<1>4. s.answer.rows \in Seq(Msgs) BY <1>1, <1>2 DEF Awaiting, Reads
<1>5. row # 0 => row \in Msgs
  <2>1. CASE s.answer.rows = <<>> BY <2>1
  <2>2. CASE s.answer.rows # <<>>
    <3>1. Head(s.answer.rows) = s.answer.rows[1] /\ Head(s.answer.rows) \in Msgs
      BY <1>4, <2>2, HeadTailProperties
    <3> QED BY <2>2, <3>1
  <2> QED BY <2>1, <2>2
<1> HIDE DEF t, x, row
<1>6. Sound(t) /\ t.result = "none" /\ t.stopped = s.stopped /\ Keeps(s, t, claim)
  BY <1>3, AbsorbFacts
<1>7. \A m \in Msgs : (claim[m] \in Unsettled /\ Has(s, m)) => Has(t, m)
  BY <1>6, Zenon DEF Keeps
<1>8. Owed(claim) \in SUBSET Owed(claim) OBVIOUS
<1>9. CASE Proceed(over, claim)
  <2>1. Follows(t, over, claim, {}) BY <1>6, EndPassFollows
  <2> HIDE DEF over
  <2> QED BY <1>1, <1>2, <1>6, <1>7, <1>9, <2>1, FollowsFit
<1>10. CASE Proceed(go(t), claim)
  <2>1. Follows(t, go(t), claim, {}) BY <1>1, <1>6, <1>8, SettlementsFollow
  <2> HIDE DEF go
  <2> QED BY <1>1, <1>2, <1>6, <1>7, <1>10, <2>1, FollowsFit
<1>11. CASE row # 0 /\ ~s.stale /\ Proceed(go(x), claim)
  <2>1. Sound(x) /\ x.result = t.result /\ x.line = t.line /\ x.queue = t.queue
    <3>1. row \in Msgs /\ Sound(t) BY <1>5, <1>6, <1>11
    <3>2. x = [Bump(t) EXCEPT !.stopped = FALSE, !.gate = row] BY <1>3
    <3> QED BY <3>1, <3>2, ResumedSound, Zenon
  <2>2. Follows(x, go(x), claim, {}) BY <1>1, <1>6, <1>8, <2>1, SettlementsFollow
  <2>3. \A m \in Msgs : (claim[m] \in Unsettled /\ Has(s, m)) => Has(x, m)
    BY <1>7, <2>1, Zenon DEF Has
  <2>4. x.stopped \/ ~s.stopped \/ probed
    BY <1>2, <1>11 DEF SchedulerInv, GateFits
  <2> HIDE DEF go
  <2> QED BY <1>1, <1>2, <1>11, <2>2, <2>3, <2>4, FollowsFit
<1> QED BY <1>2, <1>9, <1>10, <1>11

-----------------------------------------------------------------------------
(* The ends of writes, runs and local events *)

LEMMA SettlementEndsFits ==
    ASSUME SchedulerInv, NEW m \in Msgs, SettlementEnds(m)
    PROVE  Fits
<1>1. /\ config \in Scenarios /\ Sound(s) /\ s.result = "none" /\ DOMAIN s = Fields
      /\ claim \in [Msgs -> ClaimStates] /\ Awaiting(s, claim)
  BY InvFacts
<1>2. PICK left \in Settled(claim[m]) \cup {claim[m]} :
        LET c == [claim EXCEPT ![m] = left]
            resumed == IF KeepsOriginal(claim, m) /\ ~KeepsOriginal(c, m) THEN {m} ELSE {}
        IN  ProceedPass(Settlements([s EXCEPT !.resumed = @ \cup resumed], c,
                                    (s.todo \ {m}) \cap Owed(c)), c)
  BY Zenon DEF SettlementEnds
<1> DEFINE c == [claim EXCEPT ![m] = left]
           resumed == s.resumed \cup
                      (IF KeepsOriginal(claim, m) /\ ~KeepsOriginal(c, m) THEN {m} ELSE {})
           x == [s EXCEPT !.resumed = resumed]
           todo == (s.todo \ {m}) \cap Owed(c)
           t == Passed(Settlements(x, c, todo), c)
<1>3. s.pc = "retry" /\ m \in s.todo /\ UNCHANGED platform BY DEF SettlementEnds
<1>4. Proceed(t, c) BY <1>2, PassIsProceed
<1>5. claim[m] \in {"final", "retry"} BY <1>1, <1>3 DEF Awaiting, Owed
<1>6. left \in ClaimStates /\ (left \in Unsettled => claim[m] = "retry")
  BY <1>5 DEF Settled, ClaimStates, Unsettled
<1>7. c \in [Msgs -> ClaimStates] BY <1>1, <1>6
<1>8. \A k \in Msgs : c[k] \in Unsettled => claim[k] \in Unsettled
  <2>1. \A k \in Msgs : c[k] = IF k = m THEN left ELSE claim[k] BY <1>1
  <2> HIDE DEF c
  <2> QED BY <1>6, <2>1 DEF Unsettled
<1>9. todo \in SUBSET Owed(c) OBVIOUS
<1>10. x = [s EXCEPT !.resumed = resumed] OBVIOUS
<1> HIDE DEF c, resumed, x, todo
<1>11. Only({"resumed"}, s, x) BY <1>1, <1>10, FieldsListed, Zenon DEF Only
<1>12. Quiet(s, x, c) BY <1>1, <1>11, InertQuiet DEF Inert
<1>13. Sound(x) /\ x.result = "none" /\ Keeps(s, x, c) /\ x.stopped = s.stopped
  BY <1>1, <1>12 DEF Quiet, Frozen
<1>14. Follows(x, t, c, {}) BY <1>1, <1>9, <1>13, SettlementsFollow
<1>15. \A k \in Msgs : (c[k] \in Unsettled /\ Has(s, k)) => Has(x, k)
  BY <1>13, Zenon DEF Keeps
<1> HIDE DEF t
<1> QED BY <1>3, <1>4, <1>7, <1>8, <1>13, <1>14, <1>15, FollowsFit

\* The coroutine resumes with an outcome of its step.
LEMMA OutcomeFits ==
    ASSUME SchedulerInv, s.pc # "off", NEW w, NEW c \in [Msgs -> ClaimStates],
           Sound(w), Keeps(s, w, c), w.stopped = s.stopped, Outcome(w),
           w.result = "PROGRESS" => Waits(w, c),
           \A m \in Msgs : c[m] \in Unsettled => claim[m] \in Unsettled,
           Proceed(w, c), UNCHANGED platform
    PROVE  Fits
<1>1. Due(w, c, {}) BY DEF Due
<1>2. \A m \in Msgs : c[m] \in Unsettled => claim[m] \in Unsettled /\ (Has(s, m) => Has(w, m))
  BY Zenon DEF Keeps
<1>3. {} \subseteq s.late OBVIOUS
<1>4. w.stopped \/ ~s.stopped \/ probed OBVIOUS
<1> QED BY <1>1, <1>2, <1>3, <1>4, ResumesFit

\* after_delivery of a turn that did not consume its input.
LEMMA TurnFails ==
    ASSUME NEW t, NEW c, Sound(t), NEW ids, NEW outcome,
           outcome \notin {"advanced", "absent"},
           NEW u, u = AfterDelivery(t, c, outcome, ids)
    PROVE  /\ Sound(u) /\ Keeps(t, u, c) /\ Frozen(t, u) /\ Outcome(u)
           /\ u.result \in {"STOPPED", "BLOCKED", "RETRY"}
<1> DEFINE defers == IF t.prio \/ ids = <<>> THEN t ELSE Defer(t, ids[1])
           base == IF t.control THEN t ELSE defers
           lost == [base EXCEPT !.invalid = TRUE]
<1>1. DOMAIN t = Fields BY DEF Sound
<1>2. \/ u = Return(t, "STOPPED") /\ (t.stopped \/ t.closing)
      \/ u = Return(lost, "BLOCKED")
      \/ u = Return(defers, "RETRY") \/ u = Return(defers, "BLOCKED")
      \/ u = Return(t, "BLOCKED")
  BY Zenon DEF AfterDelivery
<1>3. Keeps(t, t, c) /\ Frozen(t, t) BY Zenon DEF Keeps, Frozen
<1>4. Sound(defers) /\ Keeps(t, defers, c) /\ Frozen(t, defers)
  BY <1>3, DeferSound
<1> HIDE DEF defers
<1>5. Sound(base) /\ Keeps(t, base, c) /\ Frozen(t, base)
  BY <1>3, <1>4
<1>6. lost = [base EXCEPT !.invalid = TRUE] OBVIOUS
<1> HIDE DEF base, lost
<1>7. DOMAIN base = Fields BY <1>5 DEF Sound
<1>8. Only({"invalid"}, base, lost) BY <1>6, <1>7, FieldsListed, Zenon DEF Only
<1>9. Quiet(base, lost, c) BY <1>5, <1>8, InertQuiet DEF Inert
<1>10. Sound(lost) /\ Keeps(t, lost, c) /\ Frozen(t, lost)
  BY <1>5, <1>9, Zenon DEF Quiet, Keeps, Frozen
<1>11. ASSUME NEW v, Sound(v), Keeps(t, v, c), Frozen(t, v),
              NEW r \in {"STOPPED", "BLOCKED", "RETRY"},
              r = "STOPPED" => v.stopped \/ v.closing, u = Return(v, r)
       PROVE  /\ Sound(u) /\ Keeps(t, u, c) /\ Frozen(t, u) /\ Outcome(u)
              /\ u.result \in {"STOPPED", "BLOCKED", "RETRY"}
  <2>1. Stepped(v, u, c) BY <1>11, ReturnSteps
  <2>2. DOMAIN v = Fields BY <1>11 DEF Sound
  <2>3. u.result = r BY <1>11, <2>2, ReturnFields
  <2>4. Sound(u) /\ Keeps(v, u, c) /\ Frozen(v, u) /\ (Outcome(u) \/ Launched(u))
    BY <2>1 DEF Stepped
  <2>5. Keeps(t, u, c) BY <1>11, <2>4, Zenon DEF Keeps
  <2>6. Frozen(t, u) BY <1>11, <2>4, Zenon DEF Frozen
  <2>7. Outcome(u) BY <2>3, <2>4 DEF Launched
  <2> QED BY <2>3, <2>4, <2>5, <2>6, <2>7
<1>12. CASE u = Return(t, "STOPPED") /\ (t.stopped \/ t.closing) BY <1>3, <1>11, <1>12
<1>13. CASE u = Return(lost, "BLOCKED") BY <1>10, <1>11, <1>13
<1>14. CASE u = Return(defers, "RETRY") BY <1>4, <1>11, <1>14
<1>15. CASE u = Return(defers, "BLOCKED") BY <1>4, <1>11, <1>15
<1>16. CASE u = Return(t, "BLOCKED") BY <1>3, <1>11, <1>16
<1> QED BY <1>2, <1>12, <1>13, <1>14, <1>15, <1>16

\* after_delivery of a turn whose input is over for the room.
LEMMA TurnAdvances ==
    ASSUME NEW t, NEW c, Sound(t), NEW ids,
           \A m \in Msgs : m \in ToSet(ids) => c[m] \notin {"free", "mine", "held"},
           NEW outcome \in {"advanced", "absent"}, NEW u, u = AfterDelivery(t, c, outcome, ids)
    PROVE  /\ Sound(u) /\ Keeps(t, u, c) /\ Frozen(t, u) /\ u.result = "PROGRESS"
           /\ u.deferred \in {t.deferred, 0} /\ Outcome(u) /\ DOMAIN u = Fields
<1> DEFINE undefer == IF t.deferred \in ToSet(ids) THEN Defer(t, 0) ELSE t
           v == Release(undefer, c, ToSet(ids))
<1>1. u = Return(v, "PROGRESS") BY Zenon DEF AfterDelivery
<1>2. Quiet(t, undefer, c)
  <2>1. Quiet(t, t, c) BY Zenon DEF Quiet, Keeps, Frozen
  <2> QED BY <2>1, UndeferQuiet
<1>3. Sound(undefer) BY <1>2 DEF Quiet
<1> HIDE DEF undefer
<1>4. Quiet(undefer, v, c) BY <1>3, ReleaseQuiet
<1>5. Sound(v) BY <1>4 DEF Quiet
<1>6. DOMAIN v = Fields BY <1>5 DEF Sound
<1> HIDE DEF v
<1>7. Stepped(v, u, c) BY <1>1, <1>5, ReturnSteps
<1>8. Quiet(t, v, c) BY <1>2, <1>4, QuietJoins
<1>9. Stepped(t, u, c) BY <1>7, <1>8, QuietSteps
<1>10. u.result = "PROGRESS" BY <1>1, <1>6, ReturnFields
<1>11. /\ Sound(u) /\ Keeps(t, u, c) /\ Frozen(t, u) /\ u.deferred \in {t.deferred, 0}
       /\ Outcome(u) \/ Launched(u)
  BY <1>9, <1>10 DEF Stepped
<1>12. Outcome(u) BY <1>10, <1>11 DEF Launched
<1>13. DOMAIN u = Fields BY <1>11 DEF Sound
<1> QED BY <1>10, <1>11, <1>12, <1>13

\* A turn that did not consume its input: only a control's leaves the pass going.
LEMMA ConcludeFails ==
    ASSUME NEW t, NEW c, Sound(t), NEW outcome, outcome \notin {"advanced", "absent"},
           NEW w, w = Conclude(t, c, outcome)
    PROVE  /\ Sound(w) /\ Keeps(t, w, c) /\ Frozen(t, w) /\ Outcome(w)
           /\ w.result = "PROGRESS" => t.prio
<1> DEFINE u == AfterDelivery(t, c, outcome, t.members)
           r == IF u.result = "STOPPED" THEN "STOPPED" ELSE "PROGRESS"
<1>1. (t.prio /\ w = Return(u, r)) \/ w = u BY Zenon DEF Conclude
<1>2. u = AfterDelivery(t, c, outcome, t.members) OBVIOUS
<1> HIDE DEF u
<1>3. /\ Sound(u) /\ Keeps(t, u, c) /\ Frozen(t, u) /\ Outcome(u)
      /\ u.result \in {"STOPPED", "BLOCKED", "RETRY"}
  BY <1>2, TurnFails
<1>4. CASE w = u BY <1>3, <1>4
<1>5. CASE t.prio /\ w = Return(u, r)
  <2>1. /\ r \in {"PROGRESS", "EMPTY", "BLOCKED", "STOPPED", "RETRY"} /\ r # "none"
        /\ r = "STOPPED" => u.stopped \/ u.closing
    BY <1>3 DEF Outcome
  <2>2. DOMAIN u = Fields BY <1>3 DEF Sound
  <2> HIDE DEF r
  <2>3. Stepped(u, w, c) BY <1>3, <1>5, <2>1, ReturnSteps
  <2>4. w.result = r BY <1>5, <2>2, ReturnFields
  <2>5. Sound(w) /\ Keeps(u, w, c) /\ Frozen(u, w) /\ (Outcome(w) \/ Launched(w))
    BY <2>3 DEF Stepped
  <2>6. Keeps(t, w, c) BY <1>3, <2>5, Zenon DEF Keeps
  <2>7. Frozen(t, w) BY <1>3, <2>5, Zenon DEF Frozen
  <2>8. Outcome(w) BY <2>1, <2>4, <2>5 DEF Launched
  <2> QED BY <1>5, <2>5, <2>6, <2>7, <2>8
<1> QED BY <1>1, <1>4, <1>5

\* A turn whose input is over: ordinary input need not wait after a control that ran.
LEMMA ConcludeAdvances ==
    ASSUME NEW t, NEW c, Sound(t), t.prio \/ Open(t),
           \A m \in Msgs : m \in ToSet(t.members) => c[m] \notin {"free", "mine", "held"},
           NEW outcome \in {"advanced", "absent"},
           outcome = "absent" /\ t.prio => t.held \/ OwesWrites(c),
           NEW w, w = Conclude(t, c, outcome)
    PROVE  /\ Sound(w) /\ Keeps(t, w, c) /\ w.stopped = t.stopped /\ Outcome(w) /\ Waits(w, c)
<1> DEFINE u == AfterDelivery(t, c, outcome, t.members)
           found == u.first \in ToSet(u.members)
           sel == {k \in u.sel : k.prio}
           first == IF found THEN 0 ELSE u.first
           relief == [u EXCEPT !.held = FALSE, !.relieved = TRUE, !.sel = sel]
           sync == u.sync \/ found
           recovery == u.recovery /\ ~(found /\ ~u.started)
           onward == [u EXCEPT !.fallback = FALSE, !.scan = 0, !.sync = sync,
                               !.first = first, !.recovery = recovery]
           r == IF u.result = "STOPPED" THEN "STOPPED" ELSE "PROGRESS"
<1>1. \/ t.prio /\ (w = relief \/ (outcome = "absent" /\ w = Return(u, r)))
      \/ ~t.prio /\ (w = onward \/ w = u)
  BY Zenon DEF Conclude
<1>2. u = AfterDelivery(t, c, outcome, t.members) OBVIOUS
<1> HIDE DEF found, sel, first, sync, recovery
<1>3. /\ relief = [u EXCEPT !.held = FALSE, !.relieved = TRUE, !.sel = sel]
      /\ onward = [u EXCEPT !.fallback = FALSE, !.scan = 0, !.sync = sync,
                            !.first = first, !.recovery = recovery]
  OBVIOUS
<1> HIDE DEF u, relief, onward
<1>4. /\ Sound(u) /\ Keeps(t, u, c) /\ Frozen(t, u) /\ u.result = "PROGRESS"
      /\ u.deferred \in {t.deferred, 0} /\ Outcome(u) /\ DOMAIN u = Fields
  BY <1>2, TurnAdvances
<1>5. Open(t) => Open(u) BY <1>4, OpenKept
<1>6. u.stopped = t.stopped BY <1>4 DEF Frozen
<1>7. CASE ~t.prio /\ w = u
  BY <1>4, <1>5, <1>6, <1>7 DEF Waits
<1>8. CASE ~t.prio /\ w = onward
  <2>1. Only({"fallback", "scan", "sync", "first", "recovery"}, u, onward)
    BY <1>3, <1>4, FieldsListed, Zenon DEF Only
  <2>2. Quiet(u, onward, c) BY <1>4, <2>1, InertQuiet DEF Inert
  <2>3. /\ Sound(onward) /\ Keeps(u, onward, c) /\ Frozen(u, onward)
        /\ onward.deferred \in {u.deferred, 0} /\ onward.result = u.result
    BY <2>2 DEF Quiet
  <2>4. Open(onward) BY <1>5, <1>8, <2>3, OpenKept
  <2>5. Keeps(t, onward, c) BY <1>4, <2>3, Zenon DEF Keeps
  <2>6. onward.stopped = t.stopped BY <1>6, <2>3 DEF Frozen
  <2>7. Outcome(onward) BY <1>4, <2>3 DEF Outcome
  <2> QED BY <1>8, <2>3, <2>4, <2>5, <2>6, <2>7 DEF Waits
<1>9. CASE t.prio /\ w = relief
  <2>1. Only({"held", "relieved", "sel"}, u, relief) /\ relief.relieved = TRUE
    BY <1>3, <1>4, FieldsListed, Zenon DEF Only
  <2>2. /\ relief.queue = u.queue /\ relief.line = u.line /\ relief.ctlPage = u.ctlPage
        /\ relief.gate = u.gate /\ relief.stopped = u.stopped /\ relief.result = u.result
    BY <2>1, Untouched
  <2>3. DOMAIN relief = Fields BY <2>1 DEF Only
  <2>4. Sound(relief) BY <1>4, <2>2, <2>3, Zenon DEF Sound
  <2>5. Keeps(t, relief, c) BY <1>4, <2>2, Zenon DEF Keeps, Has
  <2>6. Outcome(relief) BY <1>4, <2>2 DEF Outcome
  <2>7. Waits(relief, c) BY <2>1 DEF Waits, Open
  <2> QED BY <1>6, <1>9, <2>2, <2>4, <2>5, <2>6, <2>7
<1>10. CASE t.prio /\ outcome = "absent" /\ w = Return(u, r)
  <2>1. w = Return(u, "PROGRESS") BY <1>4, <1>10
  <2>2. Stepped(u, w, c) /\ w.result = "PROGRESS" BY <1>4, <2>1, ReturnSteps, ReturnFields
  <2>3. Sound(w) /\ Keeps(u, w, c) /\ Frozen(u, w) /\ (Outcome(w) \/ Launched(w))
    BY <2>2 DEF Stepped
  <2>4. Keeps(t, w, c) BY <1>4, <2>3, Zenon DEF Keeps
  <2>5. Outcome(w) BY <2>2, <2>3 DEF Launched
  <2>6. w.stopped = t.stopped /\ w.held = t.held BY <1>4, <2>3 DEF Frozen
  <2>7. Waits(w, c) BY <1>10, <2>6 DEF Waits
  <2> QED BY <2>3, <2>4, <2>5, <2>6, <2>7
<1> QED BY <1>1, <1>7, <1>8, <1>9, <1>10

LEMMA RunAdvancesFits ==
    ASSUME SchedulerInv, RunAdvances
    PROVE  Fits
<1>1. Sound(s) /\ claim \in [Msgs -> ClaimStates] /\ Awaiting(s, claim) BY InvFacts
<1>2. PICK left \in [Members -> {"done", "failed", "parkedFinal", "parkedRetry"}] :
        LET c == After(left, {"mine", "final", "retry"}) IN
        /\ \A m \in Members : left[m] = "parkedRetry" => ~Batching /\ claim[m] # "final"
        /\ Proceed(Conclude(s, c, "advanced"), c)
  BY Zenon DEF RunAdvances
<1>3. /\ s.pc = "run" /\ UNCHANGED platform
      /\ \A m \in Members : claim[m] \notin {"held", "free"}
  BY DEF RunAdvances
<1> DEFINE c == After(left, {"mine", "final", "retry"})
           w == Conclude(s, c, "advanced")
           left2(m) == m \in Members /\ claim[m] \in {"mine", "final", "retry"}
<1>4. c = [m \in Msgs |-> IF left2(m) THEN left[m] ELSE claim[m]] BY DEF After
<1>5. \A m \in Msgs : left2(m) <=> m \in Members /\ claim[m] \in {"mine", "final", "retry"}
  OBVIOUS
<1>6. Proceed(w, c) /\ w = Conclude(s, c, "advanced") BY <1>2
<1> HIDE DEF left2, c
<1>7. \A m \in Msgs : c[m] = IF left2(m) THEN left[m] ELSE claim[m] BY <1>4
<1>8. c \in [Msgs -> ClaimStates] BY <1>1, <1>2, <1>4, <1>5 DEF ClaimStates
<1>9. \A m \in Msgs : c[m] \in Unsettled => claim[m] \in Unsettled
  BY <1>2, <1>5, <1>7 DEF Unsettled
<1>10. \A m \in Msgs : m \in ToSet(s.members) => c[m] \notin {"free", "mine", "held"}
  BY <1>2, <1>3, <1>5, <1>7 DEF Members
<1>11. s.prio \/ Open(s) BY <1>1, <1>3 DEF Awaiting
<1> HIDE DEF w
<1>12. /\ Sound(w) /\ Keeps(s, w, c) /\ w.stopped = s.stopped /\ Outcome(w) /\ Waits(w, c)
  BY <1>1, <1>6, <1>10, <1>11, ConcludeAdvances
<1> QED BY <1>3, <1>6, <1>8, <1>9, <1>12, OutcomeFits

\* A run that did not consume its input leaves the claims c.
LEMMA RunFailsFits ==
    ASSUME SchedulerInv, s.pc = "run", NEW t, NEW c \in [Msgs -> ClaimStates],
           NEW outcome, outcome \notin {"advanced", "absent"},
           Sound(t), Keeps(s, t, c), Frozen(s, t), t.prio = s.prio,
           Owed(claim) \subseteq Owed(c),
           \A m \in Msgs : c[m] \in Unsettled => claim[m] \in Unsettled,
           Proceed(Conclude(t, c, outcome), c), UNCHANGED platform
    PROVE  Fits
<1> DEFINE w == Conclude(t, c, outcome)
<1>1. w = Conclude(t, c, outcome) /\ Proceed(w, c) OBVIOUS
<1> HIDE DEF w
<1>2. /\ Sound(w) /\ Keeps(t, w, c) /\ Frozen(t, w) /\ Outcome(w)
      /\ w.result = "PROGRESS" => t.prio
  BY <1>1, ConcludeFails
<1>3. Awaiting(s, claim) BY InvFacts
<1>4. Keeps(s, w, c) BY <1>2, Zenon DEF Keeps
<1>5. w.stopped = s.stopped /\ w.held = s.held BY <1>2 DEF Frozen
<1>6. w.result = "PROGRESS" => Waits(w, c)
  <2>1. s.prio => s.held \/ OwesWrites(claim) BY <1>3 DEF Awaiting
  <2>2. OwesWrites(claim) => OwesWrites(c) BY DEF OwesWrites
  <2> QED BY <1>2, <1>5, <2>1, <2>2 DEF Waits
<1> QED BY <1>1, <1>2, <1>4, <1>5, <1>6, OutcomeFits

LEMMA FreedFacts ==
    ASSUME SchedulerInv
    PROVE  /\ Freed \in [Msgs -> ClaimStates] /\ Owed(Freed) = Owed(claim)
           /\ \A m \in Msgs : Freed[m] \in Unsettled => claim[m] \in Unsettled
<1>1. claim \in [Msgs -> ClaimStates] BY InvFacts
<1>2. \A m \in Msgs : Freed[m] = IF claim[m] = "mine" THEN "free" ELSE claim[m] BY DEF Freed
<1>3. Freed \in [Msgs -> ClaimStates] BY <1>1 DEF Freed, ClaimStates
<1>4. Owed(Freed) = Owed(claim) BY <1>2 DEF Owed
<1> QED BY <1>2, <1>3, <1>4 DEF Unsettled

LEMMA SelfKept ==
    ASSUME NEW t, NEW c
    PROVE  Keeps(t, t, c) /\ Frozen(t, t)
BY Zenon DEF Keeps, Frozen

LEMMA RunRetriesLaterFits ==
    ASSUME SchedulerInv, RunRetriesLater
    PROVE  Fits
<1>1. Sound(s) /\ claim \in [Msgs -> ClaimStates] BY InvFacts
<1>2. PICK left \in Unconfirmed :
        LET c == After(left, {"mine"}) IN Proceed(Conclude(s, c, "retry_later"), c)
  BY Zenon DEF RunRetriesLater
<1> DEFINE c == After(left, {"mine"})
<1>3. s.pc = "run" /\ UNCHANGED platform BY DEF RunRetriesLater
<1>4. Proceed(Conclude(s, c, "retry_later"), c) BY <1>2
<1>5. \A m \in Members : left[m] \in ClaimStates BY <1>2 DEF Unconfirmed, ClaimStates
<1>6. c = [m \in Msgs |-> IF m \in Members /\ claim[m] = "mine" THEN left[m] ELSE claim[m]]
  BY DEF After
<1> HIDE DEF c
<1>7. c \in [Msgs -> ClaimStates] BY <1>1, <1>5, <1>6
<1>8. \A m \in Msgs : c[m] = IF m \in Members /\ claim[m] = "mine" THEN left[m] ELSE claim[m]
  BY <1>6
<1>9. Owed(claim) \subseteq Owed(c) BY <1>8 DEF Owed
<1>10. \A m \in Msgs : c[m] \in Unsettled => claim[m] \in Unsettled BY <1>8 DEF Unsettled
<1>11. Keeps(s, s, c) /\ Frozen(s, s) BY SelfKept
<1> QED BY <1>1, <1>3, <1>4, <1>7, <1>9, <1>10, <1>11, RunFailsFits

\* For the claims that release consults, a message misread as deleted is over.
LEMMA RunAbsentFits ==
    ASSUME SchedulerInv, RunAbsent
    PROVE  Fits
<1> DEFINE d == [m \in Msgs |-> IF m \in Members THEN "done" ELSE Freed[m]]
           w == Conclude(s, Freed, "absent")
<1>1. Sound(s) /\ claim \in [Msgs -> ClaimStates] /\ Awaiting(s, claim) BY InvFacts
<1>2. /\ s.pc = "run" /\ Proceed(w, Freed) /\ absent' = absent \cup Members
      /\ \A m \in Members : claim[m] = "mine"
      /\ UNCHANGED <<config, posted, sent>>
  BY Zenon DEF RunAbsent
<1>3. Freed \in [Msgs -> ClaimStates] /\ Owed(Freed) = Owed(claim)
      /\ \A m \in Msgs : Freed[m] \in Unsettled => claim[m] \in Unsettled
  BY FreedFacts
<1>4. \A m \in Msgs : d[m] = IF m \in Members THEN "done" ELSE Freed[m] OBVIOUS
<1>5. \A m \in Msgs : m \in Members => Freed[m] = "free" BY <1>2 DEF Freed
<1> HIDE DEF d
<1>6. Owed(d) = Owed(Freed) BY <1>4, <1>5 DEF Owed
<1>7. \A e : HoldsRetry(Freed, e) <=> HoldsRetry(d, e)
  BY <1>4, <1>5 DEF HoldsRetry, KeepsOriginal, Ordinary
<1>8. w = Conclude(s, d, "absent")
  <2>1. ASSUME NEW t, NEW ids PROVE Release(t, Freed, ids) = Release(t, d, ids)
    <3>1. {e \in ToSet(t.line) : e \notin ids \/ HoldsRetry(Freed, e)}
          = {e \in ToSet(t.line) : e \notin ids \/ HoldsRetry(d, e)}
      BY <1>7
    <3> QED BY <3>1 DEF Release
  <2>2. AfterDelivery(s, Freed, "absent", s.members) = AfterDelivery(s, d, "absent", s.members)
    BY <2>1 DEF AfterDelivery
  <2> QED BY <2>2 DEF Conclude
<1> HIDE DEF w
<1>9. \A m \in Msgs : m \in ToSet(s.members) => d[m] \notin {"free", "mine", "held"}
  BY <1>4 DEF Members
<1>10. s.prio \/ Open(s) BY <1>1, <1>2 DEF Awaiting
<1>11. s.prio => s.held \/ OwesWrites(d) BY <1>1, <1>2, <1>3, <1>6 DEF Awaiting, OwesWrites
<1>12. /\ Sound(w) /\ Keeps(s, w, d) /\ w.stopped = s.stopped /\ Outcome(w) /\ Waits(w, d)
  BY <1>1, <1>8, <1>9, <1>10, <1>11, ConcludeAdvances
<1>13. Waits(w, Freed) BY <1>6, <1>12 DEF Waits, OwesWrites
<1>14. Due(w, Freed, {}) BY <1>12, <1>13 DEF Due
<1>15. ASSUME NEW m \in Entrusted', Freed[m] \in Unsettled
       PROVE  claim[m] \in Unsettled /\ (Has(s, m) => Has(w, m))
  <2>1. m \in Msgs /\ m \notin Members
    <3>1. m \in Msgs BY <1>2, <1>15, EntrustedMsgs
    <3>2. m \notin absent' BY <1>15 DEF Entrusted
    <3> QED BY <1>2, <3>1, <3>2
  <2>2. d[m] \in Unsettled BY <1>4, <1>15, <2>1
  <2> QED BY <1>3, <1>12, <1>15, <2>1, <2>2 DEF Keeps
<1>16. absent \subseteq absent' BY <1>2
<1>17. s.pc # "off" /\ (w.stopped \/ ~s.stopped \/ probed) BY <1>2, <1>12
<1> QED BY <1>2, <1>3, <1>14, <1>15, <1>16, <1>17, ReleasesFit

LEMMA RunNotAcceptedFits ==
    ASSUME SchedulerInv, RunNotAccepted
    PROVE  Fits
<1> DEFINE t == Defer(s, s.members[1])
<1>1. Sound(s) BY InvFacts
<1>2. s.pc = "run" /\ UNCHANGED platform /\ Proceed(Conclude(t, Freed, "not_accepted"), Freed)
  BY DEF RunNotAccepted
<1>3. /\ Sound(t) /\ Keeps(s, t, Freed) /\ Frozen(s, t)
      /\ Only({"deferred", "ctl"}, s, t)
  BY <1>1, DeferSound
<1> HIDE DEF t
<1>4. t.prio = s.prio BY <1>3, Untouched
<1>5. /\ Freed \in [Msgs -> ClaimStates] /\ Owed(claim) \subseteq Owed(Freed)
      /\ \A m \in Msgs : Freed[m] \in Unsettled => claim[m] \in Unsettled
  BY FreedFacts
<1> QED BY <1>2, <1>3, <1>4, <1>5, RunFailsFits

LEMMA RunPausedFits ==
    ASSUME SchedulerInv, RunPaused
    PROVE  Fits
<1>1. Sound(s) BY InvFacts
<1>2. s.pc = "run" /\ UNCHANGED platform /\ Proceed(Conclude(s, Freed, "paused"), Freed)
  BY DEF RunPaused
<1>3. Keeps(s, s, Freed) /\ Frozen(s, s) BY SelfKept
<1>4. /\ Freed \in [Msgs -> ClaimStates] /\ Owed(claim) \subseteq Owed(Freed)
      /\ \A m \in Msgs : Freed[m] \in Unsettled => claim[m] \in Unsettled
  BY FreedFacts
<1> QED BY <1>1, <1>2, <1>3, <1>4, RunFailsFits

LEMMA RunDeclinedFits ==
    ASSUME SchedulerInv, RunDeclined
    PROVE  Fits
<1> DEFINE declined == IF s.stale THEN s.declined ELSE s.declined \cup Members
           dead == s.stale
           t == [s EXCEPT !.declined = declined]
           w == [t EXCEPT !.control = FALSE, !.dead = dead]
<1>1. Sound(s) /\ s.result = "none" /\ DOMAIN s = Fields /\ Awaiting(s, claim) BY InvFacts
<1>2. /\ s.pc = "run" /\ UNCHANGED platform
      /\ IF s.prio THEN Proceed(Return(t, "PROGRESS"), Freed) ELSE Proceed(w, Freed)
  BY Zenon DEF RunDeclined
<1>3. /\ t = [s EXCEPT !.declined = declined]
      /\ w = [t EXCEPT !.control = FALSE, !.dead = dead]
  OBVIOUS
<1>4. /\ Freed \in [Msgs -> ClaimStates] /\ Owed(Freed) = Owed(claim)
      /\ \A m \in Msgs : Freed[m] \in Unsettled => claim[m] \in Unsettled
  BY FreedFacts
<1> HIDE DEF declined, dead, t, w
<1>5. Only({"declined"}, s, t) BY <1>1, <1>3, FieldsListed, Zenon DEF Only
<1>6. DOMAIN t = Fields BY <1>5 DEF Only
<1>7. Quiet(s, t, Freed) BY <1>1, <1>5, InertQuiet DEF Inert
<1>8. Sound(t) /\ Keeps(s, t, Freed) /\ t.stopped = s.stopped /\ t.held = s.held
  BY <1>7 DEF Quiet, Frozen
<1>9. CASE s.prio
  <2> DEFINE r == Return(t, "PROGRESS")
  <2>1. Stepped(t, r, Freed) /\ r.result = "PROGRESS" BY <1>6, <1>8, ReturnSteps, ReturnFields
  <2>2. Proceed(r, Freed) BY <1>2, <1>9
  <2> HIDE DEF r
  <2>3. Sound(r) /\ Keeps(t, r, Freed) /\ Frozen(t, r) /\ (Outcome(r) \/ Launched(r))
    BY <2>1 DEF Stepped
  <2>4. Outcome(r) BY <2>1, <2>3 DEF Launched
  <2>5. Keeps(s, r, Freed) BY <1>8, <2>3, Zenon DEF Keeps
  <2>6. r.stopped = s.stopped /\ r.held = s.held BY <1>8, <2>3 DEF Frozen
  <2>7. Waits(r, Freed)
    <3>1. s.held \/ OwesWrites(claim) BY <1>1, <1>2, <1>9 DEF Awaiting
    <3> QED BY <1>4, <2>6, <3>1 DEF Waits, OwesWrites
  <2> QED BY <1>2, <1>4, <2>2, <2>3, <2>4, <2>5, <2>6, <2>7, OutcomeFits
<1>10. CASE ~s.prio
  <2>1. Only({"control", "dead"}, t, w) BY <1>3, <1>6, FieldsListed, Zenon DEF Only
  <2>2. Only({"declined"} \cup {"control", "dead"}, s, w) BY <1>5, <2>1, OnlyJoins
  <2>3. Only({"declined", "control", "dead"}, s, w) BY <2>2 DEF Only
  <2>4. Quiet(s, w, Freed) BY <1>1, <2>3, InertQuiet DEF Inert
  <2>5. Sound(w) /\ Keeps(s, w, Freed) /\ w.stopped = s.stopped /\ w.result = "none"
    BY <1>1, <2>4 DEF Quiet, Frozen
  <2>6. /\ w.pc = "run" /\ w.kind = s.kind /\ w.prio = s.prio /\ w.line = s.line
        /\ w.members = s.members /\ w.arg = s.arg /\ w.deferred = s.deferred
        /\ w.relieved = s.relieved
    BY <1>2, <2>3, Untouched
  <2>7. /\ s.kind \in {"step", "prio"} /\ (s.prio <=> s.kind = "prio") /\ Placed(s)
        /\ s.kind = "step" => Open(s)
    BY <1>1, <1>2, <1>10 DEF Awaiting
  <2>8. Placed(w) BY <2>6, <2>7, Zenon DEF Placed
  <2>9. w.kind = "step" /\ Open(w) BY <1>10, <2>6, <2>7 DEF Open
  <2>10. Awaiting(w, Freed) BY <1>10, <2>6, <2>8, <2>9 DEF Awaiting, Reads
  <2>11. Due(w, Freed, Owed(Freed)) BY <2>5, <2>6, <2>10 DEF Due
  <2>12. \A m \in Msgs :
           Freed[m] \in Unsettled => claim[m] \in Unsettled /\ (Has(s, m) => Has(w, m))
    BY <1>4, <2>5, Zenon DEF Keeps
  <2>13. w.stopped \/ ~s.stopped \/ probed BY <2>5
  <2>14. Proceed(w, Freed) BY <1>2, <1>10
  <2> QED BY <1>2, <1>4, <2>11, <2>12, <2>13, <2>14, ResumesFit
<1> QED BY <1>9, <1>10

\* The record once its local event ran.
LEMMA LocalTaken ==
    ASSUME config \in Scenarios, NEW t, NEW c, Sound(t), t.local \notin Msgs, NEW u,
           u = [t EXCEPT !.line = Keep(t.line, ToSet(t.line) \ {t.local}), !.scan = 0]
    PROVE  Quiet(t, u, c)
<1> DEFINE line == Keep(t.line, ToSet(t.line) \ {t.local})
<1>1. DOMAIN t = Fields /\ t.line \in Seq(Events) /\ Single(t.line) BY DEF Sound
<1>2. line \in Seq(Events) /\ ToSet(line) = ToSet(t.line) \cap (ToSet(t.line) \ {t.local})
  BY <1>1, KeepContents
<1>3. Single(line) BY <1>1, KeepSingle
<1>4. u = [t EXCEPT !.line = line, !.scan = 0] OBVIOUS
<1> HIDE DEF line
<1>5. Only({"line", "scan"}, t, u) /\ u.line = line
  BY <1>1, <1>4, FieldsListed, Zenon DEF Only
<1> SUFFICES ASSUME NEW v, Only({"line", "scan"}, t, v), v.line = line
             PROVE  Quiet(t, v, c)
  BY <1>5
<1>6. /\ v.queue = t.queue /\ v.deferred = t.deferred
      /\ v.stopped = t.stopped /\ v.closing = t.closing /\ v.arg = t.arg /\ v.held = t.held
      /\ v.relieved = t.relieved /\ v.ctlPage = t.ctlPage /\ v.gate = t.gate
      /\ v.kind = t.kind /\ v.result = t.result
  BY Untouched
<1>7. DOMAIN v = Fields BY DEF Only
<1>8. v.line \in Seq(Events) /\ Single(v.line) BY <1>2, <1>3
<1>9. Sound(v) BY <1>6, <1>7, <1>8, Zenon DEF Sound
<1>10. ASSUME NEW m \in Msgs, Has(t, m) PROVE Has(v, m)
  <2>1. CASE Contains(t.queue, m) BY <1>6, <2>1 DEF Has
  <2>2. CASE Contains(t.line, m)
    <3>1. m \in ToSet(t.line) BY <1>1, <2>2, ContainsSet
    <3>2. m \in ToSet(v.line) BY <1>2, <3>1
    <3> QED BY <1>8, <3>2, ContainsSet DEF Has
  <2> QED BY <1>10, <2>1, <2>2 DEF Has
<1>11. Keeps(t, v, c) BY <1>10 DEF Keeps
<1>12. Frozen(t, v) BY <1>6, Zenon DEF Frozen, Requested
<1> QED BY <1>6, <1>9, <1>11, <1>12, Zenon DEF Quiet

LEMMA LocalEndsFits ==
    ASSUME SchedulerInv, NEW outcome \in LocalTurns, LocalEnds(outcome)
    PROVE  Fits
<1> DEFINE ids == IF s.local \in Hubs THEN <<s.local>> ELSE <<>>
           taken == [s EXCEPT !.line = Keep(s.line, ToSet(s.line) \ {s.local}), !.scan = 0]
           t == IF outcome = "advanced" THEN taken ELSE s
           y == [t EXCEPT !.prio = FALSE, !.control = FALSE]
<1>1. /\ config \in Scenarios /\ Sound(s) /\ s.result = "none" /\ DOMAIN s = Fields
      /\ claim \in [Msgs -> ClaimStates] /\ Awaiting(s, claim)
  BY InvFacts
<1>2. /\ s.pc = "local" /\ UNCHANGED platform
      /\ \/ outcome # "advanced" /\ Proceed(Return(t, "RETRY"), claim)
         \/ Proceed(AfterDelivery(y, claim, outcome, ids), claim)
  BY Zenon DEF LocalEnds, LocalTurns
<1>3. s.local \notin Msgs /\ Waits(s, claim) BY <1>1, <1>2 DEF Awaiting
<1>4. \A m \in Msgs : m \notin ToSet(ids)
  <2>1. \A e \in ToSet(ids) : e = s.local BY DEF ToSet
  <2> QED BY <1>3, <2>1
<1>5. Quiet(s, s, claim) BY <1>1, Zenon DEF Quiet, Keeps, Frozen
<1>6. taken = [s EXCEPT !.line = Keep(s.line, ToSet(s.line) \ {s.local}), !.scan = 0]
  OBVIOUS
<1> HIDE DEF taken, ids
<1>7. Quiet(s, taken, claim) BY <1>1, <1>3, <1>6, LocalTaken
<1>8. Quiet(s, t, claim) BY <1>5, <1>7
<1>9. y = [t EXCEPT !.prio = FALSE, !.control = FALSE] OBVIOUS
<1> HIDE DEF t, y
<1>10. Sound(t) BY <1>8 DEF Quiet
<1>11. DOMAIN t = Fields BY <1>10 DEF Sound
<1>12. Only({"prio", "control"}, t, y) BY <1>9, <1>11, FieldsListed, Zenon DEF Only
<1>13. Quiet(t, y, claim) BY <1>10, <1>12, InertQuiet DEF Inert
<1>14. Quiet(s, y, claim) BY <1>8, <1>13, QuietJoins
<1>15. Sound(y) /\ Keeps(s, y, claim) /\ Frozen(s, y) /\ y.deferred \in {s.deferred, 0}
  BY <1>14 DEF Quiet
<1>16. CASE outcome # "advanced" /\ Proceed(Return(t, "RETRY"), claim)
  <2> DEFINE r == Return(t, "RETRY")
  <2>1. Stepped(t, r, claim) /\ r.result = "RETRY" BY <1>10, <1>11, ReturnSteps, ReturnFields
  <2>2. Stepped(s, r, claim) BY <1>8, <2>1, QuietSteps
  <2>3. Proceed(r, claim) BY <1>16
  <2> HIDE DEF r
  <2>4. /\ Sound(r) /\ Keeps(s, r, claim) /\ Frozen(s, r) /\ (Outcome(r) \/ Launched(r))
    BY <2>2 DEF Stepped
  <2>5. Outcome(r) /\ r.stopped = s.stopped BY <2>1, <2>4 DEF Launched, Frozen
  <2> QED BY <1>1, <1>2, <2>1, <2>3, <2>4, <2>5, OutcomeFits
<1>17. CASE Proceed(AfterDelivery(y, claim, outcome, ids), claim)
  <2> DEFINE u == AfterDelivery(y, claim, outcome, ids)
  <2>1. Proceed(u, claim) /\ u = AfterDelivery(y, claim, outcome, ids) BY <1>17
  <2> HIDE DEF u
  <2>2. CASE outcome = "advanced"
    <3>1. u = AfterDelivery(y, claim, "advanced", ids) BY <2>1, <2>2
    <3>2. \A m \in Msgs : m \in ToSet(ids) => claim[m] \notin {"free", "mine", "held"}
      BY <1>4
    <3>3. /\ Sound(u) /\ Keeps(y, u, claim) /\ Frozen(y, u)
          /\ u.deferred \in {y.deferred, 0} /\ Outcome(u)
      BY <1>15, <3>1, <3>2, TurnAdvances
    <3>4. Keeps(s, u, claim) BY <1>15, <3>3, Zenon DEF Keeps
    <3>5. u.stopped = s.stopped BY <1>15, <3>3 DEF Frozen
    <3>6. Waits(y, claim) BY <1>3, <1>15, OpenKept
    <3>7. Waits(u, claim) BY <3>3, <3>6, OpenKept
    <3> QED BY <1>1, <1>2, <2>1, <3>3, <3>4, <3>5, <3>7, OutcomeFits
  <2>3. CASE outcome # "advanced"
    <3> outcome \notin {"advanced", "absent"} BY <2>3 DEF LocalTurns
    <3>1. /\ Sound(u) /\ Keeps(y, u, claim) /\ Frozen(y, u) /\ Outcome(u)
          /\ u.result \in {"STOPPED", "BLOCKED", "RETRY"}
      BY <1>15, <2>1, <2>3, TurnFails
    <3>2. Keeps(s, u, claim) BY <1>15, <3>1, Zenon DEF Keeps
    <3>3. u.stopped = s.stopped BY <1>15, <3>1 DEF Frozen
    <3>4. u.result # "PROGRESS" BY <3>1
    <3> QED BY <1>1, <1>2, <2>1, <3>1, <3>2, <3>3, <3>4, OutcomeFits
  <2> QED BY <2>2, <2>3
<1> QED BY <1>2, <1>16, <1>17

LEMMA ReadFailsFits ==
    ASSUME SchedulerInv, ReadFails
    PROVE  Fits
<1> DEFINE t == EndPass(s)
<1>1. Sound(s) /\ claim \in [Msgs -> ClaimStates] BY InvFacts
<1>2. s.pc # "off" /\ Proceed(t, claim) /\ UNCHANGED platform BY DEF ReadFails, Reads
<1>3. Follows(s, t, claim, {}) BY <1>1, EndPassFollows
<1> HIDE DEF t
<1> QED BY <1>1, <1>2, <1>3, FollowsFit

-----------------------------------------------------------------------------
(* The platform, the control plane and the other execution *)

\* What the coroutine's surroundings may change of its record.
Outer == {"queue", "stale", "declined", "bounds", "sel", "stopped", "late", "due", "closing"}

\* u is t after a step of its surroundings: nothing it holds or was asked is lost.
Grown(t, u) ==
    /\ Only(Outer, t, u) /\ Sound(u)
    /\ \A m \in Msgs : Has(t, m) => Has(u, m)
    /\ Requested(t) => Requested(u)
    /\ t.closing => u.closing

LEMMA GrownJoins ==
    ASSUME NEW t, NEW u, NEW v, Grown(t, u), Grown(u, v)
    PROVE  Grown(t, v)
<1>1. Only(Outer, t, v) BY DEF Grown, Only
<1> QED BY <1>1, Zenon DEF Grown

\* A flag changes.
LEMMA FlagGrown ==
    ASSUME NEW t, Sound(t), NEW fs, fs \subseteq Outer \ {"queue"}, NEW u, Only(fs, t, u),
           t.closing => u.closing
    PROVE  Grown(t, u)
<1>1. "queue" \notin fs /\ "line" \notin fs /\ "gate" \notin fs /\ "ctlPage" \notin fs
  BY DEF Outer
<1>2. u.queue = t.queue /\ u.line = t.line /\ u.gate = t.gate /\ u.ctlPage = t.ctlPage
  BY <1>1, Untouched
<1>3. DOMAIN u = Fields BY DEF Only
<1>4. Sound(u) BY <1>2, <1>3, Zenon DEF Sound
<1>5. Only(Outer, t, u) BY DEF Only
<1> QED BY <1>2, <1>4, <1>5, Zenon DEF Grown, Has, Requested

\* An event or a recovery request is queued.
LEMMA QueueGrown ==
    ASSUME NEW t, Sound(t), NEW e \in Events \cup {Resync}, NEW u,
           u = [t EXCEPT !.queue = Append(t.queue, e)]
    PROVE  /\ Grown(t, u) /\ Only({"queue"}, t, u) /\ Contains(u.queue, e)
<1> DEFINE queue == Append(t.queue, e)
           n == Len(t.queue)
<1>1. t.queue \in Seq(Events \cup {Resync}) BY DEF Sound
<1>2. n \in Nat BY <1>1, LenProperties
<1>3. /\ queue \in Seq(Events \cup {Resync}) /\ Len(queue) = n + 1 /\ queue[n + 1] = e
      /\ \A i \in 1..n : queue[i] = t.queue[i]
  BY <1>1, AppendProperties
<1>4. u = [t EXCEPT !.queue = queue] OBVIOUS
<1>5. n + 1 \in 1..(n + 1) /\ \A i \in 1..n : i \in 1..(n + 1) BY <1>2
<1> HIDE DEF queue
<1>6. Contains(queue, e) /\ \A m : Contains(t.queue, m) => Contains(queue, m)
  BY <1>3, <1>5 DEF Contains
<1>12. DOMAIN t = Fields BY DEF Sound
<1>7. Only({"queue"}, t, u) /\ u.queue = queue
  BY <1>4, <1>12, FieldsListed, Zenon DEF Only
<1> SUFFICES ASSUME NEW v, Only({"queue"}, t, v), v.queue = queue
             PROVE  Grown(t, v) /\ Contains(v.queue, e)
  BY <1>7
<1>8. v.closing = t.closing /\ v.line = t.line /\ v.gate = t.gate /\ v.ctlPage = t.ctlPage
  BY Untouched
<1>13. DOMAIN v = Fields BY DEF Only
<1>14. v.queue \in Seq(Events \cup {Resync}) BY <1>3
<1>15. Sound(v) BY <1>8, <1>13, <1>14, Zenon DEF Sound
<1>9. Only(Outer, t, v) BY DEF Only, Outer
<1>10. \A m \in Msgs : Has(t, m) => Has(v, m) BY <1>6, <1>8, Zenon DEF Has
<1>11. Requested(t) => Requested(v) BY <1>6 DEF Requested
<1> QED BY <1>6, <1>8, <1>9, <1>10, <1>11, <1>15 DEF Grown

LEMMA RequestGrown ==
    ASSUME NEW t, Sound(t)
    PROVE  /\ Grown(t, Request(t)) /\ Requested(Request(t)) /\ Only({"queue"}, t, Request(t))
<1>1. DOMAIN t = Fields BY DEF Sound
<1>2. CASE Requested(t)
  <2>1. Request(t) = t BY <1>2 DEF Request
  <2>2. Only({"queue"}, t, t) BY <1>1, OnlySelf
  <2>3. Only(Outer, t, t) BY <1>1, OnlySelf
  <2> QED BY <1>2, <2>1, <2>2, <2>3 DEF Grown
<1>3. CASE ~Requested(t)
  <2> DEFINE u == Request(t)
  <2>1. u = [t EXCEPT !.queue = Append(t.queue, Resync)] BY <1>3 DEF Request
  <2>2. Resync \in Events \cup {Resync} OBVIOUS
  <2> HIDE DEF u
  <2>3. Grown(t, u) /\ Only({"queue"}, t, u) /\ Contains(u.queue, Resync)
    BY <2>1, <2>2, QueueGrown
  <2> QED BY <2>3 DEF Requested, u
<1> QED BY <1>2, <1>3

Bumps == {"stale", "declined", "bounds", "sel"}

LEMMA BumpGrown ==
    ASSUME NEW t, Sound(t)
    PROVE  /\ Grown(t, Bump(t)) /\ Only(Bumps, t, Bump(t))
           /\ Bump(t).stale <=> t.pc \in Reads \cup {"run", "local"}
<1> DEFINE u == Bump(t)
           stale == t.pc \in Reads \cup {"run", "local"}
<1>1. DOMAIN t = Fields BY DEF Sound
<1>2. u = [t EXCEPT !.stale = stale, !.declined = {}, !.bounds = {}, !.sel = {}] BY DEF Bump
<1> HIDE DEF u, stale
<1>3. Only(Bumps, t, u) /\ u.stale = stale
  BY <1>1, <1>2, FieldsListed, Zenon DEF Only, Bumps
<1>4. u.closing = t.closing BY <1>3, Untouched DEF Bumps
<1>5. Bumps \subseteq Outer \ {"queue"} BY DEF Bumps, Outer
<1>6. Grown(t, u) BY <1>3, <1>4, <1>5, FlagGrown
<1> QED BY <1>3, <1>6 DEF u, stale

\* A step of the surroundings: the record becomes u and the claims d.
LEMMA OuterFits ==
    ASSUME SchedulerInv, NEW u, NEW d \in [Msgs -> ClaimStates], s' = u, claim' = d,
           config' = config, posted' \subseteq Msgs, Grown(s, u),
           s.stopped => u.stopped \/ Requested(u),
           (s.stopped /\ ~u.stopped) => signals' # signals,
           Owed(claim) \subseteq Owed(d),
           u.pc \in {"next", "page"} => Owed(d) \subseteq s.late \cup u.late,
           s.late \subseteq u.late,
           \A m \in Msgs : d[m] \in Unsettled => claim[m] \in Unsettled,
           u.pc # "off" => \A m \in Entrusted' : m \in Entrusted \/ Has(u, m),
           (u.pc = "gate" /\ u.answer # Unread /\ ~u.stale /\ u.stopped) => probed'
    PROVE  Fits
<1>1. /\ Sound(s) /\ s.result = "none" /\ Awaiting(s, claim)
      /\ claim \in [Msgs -> ClaimStates]
  BY InvFacts
<1>2. /\ Only(Outer, s, u) /\ Sound(u) /\ (Requested(s) => Requested(u))
      /\ (s.closing => u.closing) /\ \A m \in Msgs : Has(s, m) => Has(u, m)
  BY DEF Grown
<1>3. /\ u.pc = s.pc /\ u.line = s.line /\ u.deferred = s.deferred /\ u.arg = s.arg
      /\ u.held = s.held /\ u.relieved = s.relieved /\ u.kind = s.kind
      /\ u.members = s.members /\ u.prio = s.prio /\ u.local = s.local
      /\ u.answer = s.answer /\ u.result = s.result /\ u.todo = s.todo
  BY <1>2, Untouched DEF Outer
<1>4. OwesWrites(claim) => OwesWrites(d) BY DEF OwesWrites
<1>5. Open(s) => Open(u) BY <1>3 DEF Open
<1>6. Waits(s, claim) => Waits(u, d) BY <1>2, <1>3, <1>4, <1>5 DEF Waits
<1>7. Placed(s) => Placed(u) BY <1>3, Zenon DEF Placed
<1>8. Awaiting(u, d)
  <2>1. u.pc \in {"next", "page"} => u.kind = "step" /\ Open(u) /\ Owed(d) \subseteq u.late
    BY <1>1, <1>3, <1>5 DEF Awaiting
  <2>2. u.pc = "retry" => u.todo \subseteq Owed(d) BY <1>1, <1>3 DEF Awaiting
  <2> QED BY <1>1, <1>3, <1>4, <1>5, <1>6, <1>7, <2>1, <2>2, Zenon DEF Awaiting
<1>9. u.pc # "off" => \A m \in Entrusted' : d[m] \in Unsettled => Has(u, m)
  <2>1. s.pc # "off" => \A m \in Entrusted : claim[m] \in Unsettled => Has(s, m)
    BY DEF SchedulerInv, NeverDropsRunnable, Has, Unsettled
  <2>2. Entrusted' \subseteq Msgs BY EntrustedMsgs
  <2> QED BY <1>2, <1>3, <2>1, <2>2
<1>10. u.result = "none" BY <1>1, <1>3
<1>11. SchedulerInv' BY <1>2, <1>8, <1>9, <1>10, InvNext
<1>12. ~DispatchesOrdinary BY <1>3 DEF DispatchesOrdinary, Dispatches
<1> QED BY <1>11, <1>12 DEF Fits

\* What holds where the surroundings leave the claims alone.
LEMMA OuterQuiet ==
    ASSUME SchedulerInv, NEW u, s' = u, UNCHANGED <<claim, config>>, posted' \subseteq Msgs,
           Grown(s, u), s.stopped => u.stopped \/ Requested(u),
           (s.stopped /\ ~u.stopped) => signals' # signals, u.late = s.late,
           u.pc # "off" => \A m \in Entrusted' : m \in Entrusted \/ Has(u, m),
           (u.pc = "gate" /\ u.answer # Unread /\ ~u.stale /\ u.stopped) => probed'
    PROVE  Fits
<1>1. claim \in [Msgs -> ClaimStates] /\ Awaiting(s, claim) BY InvFacts
<1>2. u.pc = s.pc BY Untouched DEF Grown, Outer
<1>3. u.pc \in {"next", "page"} => Owed(claim) \subseteq s.late \cup u.late
  BY <1>1, <1>2 DEF Awaiting
<1> QED BY <1>1, <1>3, OuterFits

LEMMA PostFits ==
    ASSUME SchedulerInv, NEW m \in Msgs, Post(m)
    PROVE  Fits
<1>1. Sound(s) /\ DOMAIN s = Fields BY InvFacts
<1>2. /\ s' = s /\ UNCHANGED <<claim, config>> /\ posted' \subseteq Msgs /\ sent' = sent
      /\ probed' = probed /\ absent' = absent
  BY DEF Post, SchedulerInv
<1>3. Only({}, s, s) BY <1>1, OnlySelf
<1>4. Grown(s, s) BY <1>1, <1>3, FlagGrown
<1>5. (s.pc = "gate" /\ s.answer # Unread /\ ~s.stale /\ s.stopped) => probed'
  BY <1>2 DEF SchedulerInv, GateFits
<1>6. Entrusted' \subseteq Entrusted BY <1>2, EntrustedMsgs
<1> QED BY <1>2, <1>4, <1>5, <1>6, OuterQuiet

LEMMA RecognitionFits ==
    ASSUME SchedulerInv, NEW m, RecognitionChanges(m)
    PROVE  Fits
<1>1. Sound(s) /\ DOMAIN s = Fields BY InvFacts
<1>2. /\ s' = s /\ UNCHANGED <<claim, config>> /\ posted' \subseteq Msgs /\ sent' = sent
      /\ probed' = probed /\ absent' = absent
  BY DEF RecognitionChanges, SchedulerInv
<1>3. Only({}, s, s) BY <1>1, OnlySelf
<1>4. Grown(s, s) BY <1>1, <1>3, FlagGrown
<1>5. (s.pc = "gate" /\ s.answer # Unread /\ ~s.stale /\ s.stopped) => probed'
  BY <1>2 DEF SchedulerInv, GateFits
<1>6. Entrusted' \subseteq Entrusted BY <1>2, EntrustedMsgs
<1> QED BY <1>2, <1>4, <1>5, <1>6, OuterQuiet

\* An event joins the queue.
LEMMA EnqueueFits ==
    ASSUME SchedulerInv, NEW e \in Events, s' = [s EXCEPT !.queue = Append(s.queue, e)],
           UNCHANGED <<claim, config, posted, probed>>, sent' \subseteq sent \cup {e},
           absent \ {e} \subseteq absent'
    PROVE  Fits
<1> DEFINE u == [s EXCEPT !.queue = Append(s.queue, e)]
<1>1. Sound(s) BY InvFacts
<1>2. s' = u /\ u = [s EXCEPT !.queue = Append(s.queue, e)] OBVIOUS
<1> HIDE DEF u
<1>3. e \in Events \cup {Resync} OBVIOUS
<1>4. Grown(s, u) /\ Only({"queue"}, s, u) /\ Contains(u.queue, e)
  BY <1>1, <1>2, <1>3, QueueGrown, Zenon
<1> SUFFICES ASSUME NEW v, s' = v, Grown(s, v), Only({"queue"}, s, v), Contains(v.queue, e)
             PROVE  Fits
  BY <1>2, <1>4
<1>5. /\ v.pc = s.pc /\ v.stopped = s.stopped /\ v.late = s.late /\ v.stale = s.stale
      /\ v.answer = s.answer
  BY Untouched
<1>6. \A m \in Entrusted' : m \in Entrusted \/ Has(v, m)
  <2>1. \A m \in Entrusted' : m \in Entrusted \/ m = e BY DEF Entrusted, Msgs
  <2> QED BY <2>1, Zenon DEF Has
<1>7. (v.pc = "gate" /\ v.answer # Unread /\ ~v.stale /\ v.stopped) => probed'
  BY <1>5 DEF SchedulerInv, GateFits
<1>8. posted' \subseteq Msgs BY DEF SchedulerInv
<1> QED BY <1>5, <1>6, <1>7, <1>8, OuterQuiet

LEMMA DeliverFits ==
    ASSUME SchedulerInv, NEW e \in Events, Deliver(e)
    PROVE  Fits
<1>1. /\ s' = [s EXCEPT !.queue = Append(s.queue, e)] /\ sent' \subseteq sent \cup {e}
      /\ UNCHANGED <<claim, config, posted, probed>> /\ absent \ {e} \subseteq absent'
  BY Zenon DEF Deliver
<1> QED BY <1>1, EnqueueFits, Zenon

LEMMA RedeliverFits ==
    ASSUME SchedulerInv, NEW m \in Msgs, Redeliver(m)
    PROVE  Fits
<1>1. /\ s' = [s EXCEPT !.queue = Append(s.queue, m)] /\ sent' \subseteq sent \cup {m}
      /\ UNCHANGED <<claim, config, posted, probed>> /\ absent \ {m} \subseteq absent'
  BY Zenon DEF Redeliver
<1>2. m \in Events BY DEF Events
<1> QED BY <1>1, <1>2, EnqueueFits, Zenon

\* A flag of the record changes, and the room is not resumed.
LEMMA FlagFits ==
    ASSUME SchedulerInv, NEW u, s' = u, UNCHANGED <<claim, config, posted, sent, absent>>,
           Grown(s, u), s.stopped => u.stopped, u.late = s.late,
           (u.pc = "gate" /\ u.answer # Unread /\ ~u.stale /\ u.stopped) => probed'
    PROVE  Fits
<1>1. posted' \subseteq Msgs BY DEF SchedulerInv
<1>2. Entrusted' \subseteq Entrusted BY EntrustedMsgs
<1> QED BY <1>1, <1>2, OuterQuiet

LEMMA InterruptFits ==
    ASSUME SchedulerInv, Interrupt
    PROVE  Fits
<1> DEFINE u == Bump(s)
<1>1. Sound(s) BY InvFacts
<1>2. s' = u /\ UNCHANGED <<claim, config, posted, sent, probed, absent>> BY DEF Interrupt, platform
<1>3. /\ Grown(s, u) /\ Only(Bumps, s, u)
      /\ u.stale <=> s.pc \in Reads \cup {"run", "local"}
  BY <1>1, BumpGrown
<1> HIDE DEF u
<1>4. u.pc = s.pc /\ u.stopped = s.stopped /\ u.late = s.late BY <1>3, Untouched DEF Bumps
<1>5. ~(u.pc = "gate" /\ ~u.stale) BY <1>3, <1>4 DEF Reads
<1> QED BY <1>2, <1>3, <1>4, <1>5, FlagFits

LEMMA StopRoomFits ==
    ASSUME SchedulerInv, StopRoom
    PROVE  Fits
<1> DEFINE b == Bump(s)
           u == [b EXCEPT !.stopped = TRUE]
<1>1. Sound(s) BY InvFacts
<1>2. s' = u /\ UNCHANGED <<claim, config, posted, sent, absent>> BY DEF StopRoom
<1>3. /\ Grown(s, b) /\ Only(Bumps, s, b)
      /\ b.stale <=> s.pc \in Reads \cup {"run", "local"}
  BY <1>1, BumpGrown
<1>4. u = [b EXCEPT !.stopped = TRUE] OBVIOUS
<1> HIDE DEF u, b
<1>5. Sound(b) BY <1>3 DEF Grown
<1>6. DOMAIN b = Fields BY <1>5 DEF Sound
<1>7. Only({"stopped"}, b, u) /\ u.stopped = TRUE BY <1>4, <1>6, FieldsListed, Zenon DEF Only
<1>8. /\ b.pc = s.pc /\ b.late = s.late BY <1>3, Untouched DEF Bumps
<1>9. /\ u.pc = b.pc /\ u.late = b.late /\ u.stale = b.stale /\ u.closing = b.closing
  BY <1>7, Untouched
<1>10. Grown(b, u) BY <1>5, <1>7, <1>9, FlagGrown DEF Outer
<1>11. Grown(s, u) BY <1>3, <1>10, GrownJoins
<1>12. ~(u.pc = "gate" /\ ~u.stale) BY <1>3, <1>8, <1>9 DEF Reads
<1> QED BY <1>2, <1>7, <1>8, <1>9, <1>11, <1>12, FlagFits

LEMMA ResumeRoomFits ==
    ASSUME SchedulerInv, ResumeRoom, signals \in Nat
    PROVE  Fits
<1> DEFINE b == Bump(s)
           x == [b EXCEPT !.stopped = FALSE]
           u == Request(x)
<1>1. Sound(s) BY InvFacts
<1>2. /\ s' = u /\ UNCHANGED <<claim, config, posted, sent, absent>> /\ signals' = signals + 1
  BY DEF ResumeRoom, Signal, platform
<1>3. /\ Grown(s, b) /\ Only(Bumps, s, b)
      /\ b.stale <=> s.pc \in Reads \cup {"run", "local"}
  BY <1>1, BumpGrown
<1>4. x = [b EXCEPT !.stopped = FALSE] OBVIOUS
<1> HIDE DEF x, b
<1>5. Sound(b) BY <1>3 DEF Grown
<1>6. DOMAIN b = Fields BY <1>5 DEF Sound
<1>7. Only({"stopped"}, b, x) BY <1>4, <1>6, FieldsListed, Zenon DEF Only
<1>8. b.pc = s.pc /\ b.late = s.late BY <1>3, Untouched DEF Bumps
<1>9. /\ x.pc = b.pc /\ x.late = b.late /\ x.stale = b.stale /\ x.closing = b.closing
  BY <1>7, Untouched
<1>10. Grown(b, x) BY <1>5, <1>7, <1>9, FlagGrown DEF Outer
<1>11. Sound(x) BY <1>10 DEF Grown
<1>12. Grown(x, u) /\ Requested(u) /\ Only({"queue"}, x, u) BY <1>11, RequestGrown
<1> HIDE DEF u
<1>13. u.pc = x.pc /\ u.late = x.late /\ u.stale = x.stale BY <1>12, Untouched
<1>14. Grown(s, u) BY <1>3, <1>10, <1>12, GrownJoins
<1>15. ~(u.pc = "gate" /\ ~u.stale) BY <1>3, <1>8, <1>9, <1>13 DEF Reads
<1>16. signals' # signals BY <1>2
<1>17. posted' \subseteq Msgs BY <1>2 DEF SchedulerInv
<1>18. Entrusted' \subseteq Entrusted BY <1>2, EntrustedMsgs
<1> QED BY <1>2, <1>8, <1>9, <1>12, <1>13, <1>14, <1>15, <1>16, <1>17, <1>18, OuterQuiet

LEMMA RecoveryRequestedFits ==
    ASSUME SchedulerInv, RecoveryRequested
    PROVE  Fits
<1> DEFINE u == Request(s)
<1>1. Sound(s) BY InvFacts
<1>2. s' = u /\ UNCHANGED <<claim, config, posted, sent, probed, absent>>
  BY DEF RecoveryRequested, platform
<1>3. Grown(s, u) /\ Only({"queue"}, s, u) BY <1>1, RequestGrown
<1> HIDE DEF u
<1>4. /\ u.pc = s.pc /\ u.stopped = s.stopped /\ u.late = s.late /\ u.stale = s.stale
      /\ u.answer = s.answer
  BY <1>3, Untouched
<1>5. (u.pc = "gate" /\ u.answer # Unread /\ ~u.stale /\ u.stopped) => probed'
  BY <1>2, <1>4 DEF SchedulerInv, GateFits
<1> QED BY <1>2, <1>3, <1>4, <1>5, FlagFits

LEMMA TimerFits ==
    ASSUME SchedulerInv, TimerDue \/ Close
    PROVE  Fits
<1>1. Sound(s) /\ DOMAIN s = Fields BY InvFacts
<1>2. UNCHANGED <<claim, config, posted, sent, probed, absent>> BY DEF TimerDue, Close, platform
<1>3. s' = [s EXCEPT !.due = TRUE] \/ s' = [s EXCEPT !.closing = TRUE]
  BY DEF TimerDue, Close
<1>4. Only({"due", "closing"}, s, s') /\ (s.closing => s'.closing)
  BY <1>1, <1>3, FieldsListed, Zenon DEF Only
<1> SUFFICES ASSUME NEW u, s' = u, Only({"due", "closing"}, s, u), s.closing => u.closing
             PROVE  Fits
  BY <1>4
<1>5. Grown(s, u) BY <1>1, FlagGrown DEF Outer
<1>6. /\ u.pc = s.pc /\ u.stopped = s.stopped /\ u.late = s.late /\ u.stale = s.stale
      /\ u.answer = s.answer
  BY Untouched
<1>7. (u.pc = "gate" /\ u.answer # Unread /\ ~u.stale /\ u.stopped) => probed'
  BY <1>2, <1>6 DEF SchedulerInv, GateFits
<1> QED BY <1>2, <1>5, <1>6, <1>7, FlagFits

\* The writes another actor makes owed are recorded while a step awaits its page.
LEMMA LateGrown ==
    ASSUME NEW t, Sound(t), NEW ms, NEW u, u = Late(t, ms)
    PROVE  /\ Grown(t, u) /\ Only({"late"}, t, u) /\ t.late \subseteq u.late
           /\ t.pc \in {"next", "page"} => ms \subseteq u.late
<1>1. DOMAIN t = Fields BY DEF Sound
<1>2. /\ Only({"late"}, t, u) /\ t.late \subseteq u.late
      /\ t.pc \in {"next", "page"} => ms \subseteq u.late
  <2>1. CASE t.pc \in {"next", "page"}
    <3> DEFINE late == t.late \cup ms
    <3>1. u = [t EXCEPT !.late = late] BY <2>1 DEF Late
    <3> HIDE DEF late
    <3>2. Only({"late"}, t, u) /\ u.late = late
      BY <1>1, <3>1, FieldsListed, Zenon DEF Only
    <3>3. t.late \subseteq late /\ ms \subseteq late BY DEF late
    <3> QED BY <3>2, <3>3
  <2>2. CASE t.pc \notin {"next", "page"}
    <3>1. u = t BY <2>2 DEF Late
    <3> QED BY <1>1, <2>2, <3>1, OnlySelf
  <2> QED BY <2>1, <2>2
<1>3. u.closing = t.closing BY <1>2, Untouched
<1>4. Grown(t, u) BY <1>2, <1>3, FlagGrown DEF Outer
<1> QED BY <1>2, <1>4

\* Another actor made the writes ms owed.
LEMMA LateFits ==
    ASSUME SchedulerInv, NEW t, Grown(s, t), Only({"queue"}, s, t), NEW ms, NEW u,
           u = Late(t, ms), s' = u, NEW d \in [Msgs -> ClaimStates], claim' = d,
           Owed(claim) \subseteq Owed(d), Owed(d) \subseteq Owed(claim) \cup ms,
           \A m \in Msgs : d[m] \in Unsettled => claim[m] \in Unsettled,
           UNCHANGED platform
    PROVE  Fits
<1>1. Awaiting(s, claim) BY InvFacts
<1>2. Sound(t) BY DEF Grown
<1>3. /\ Grown(t, u) /\ Only({"late"}, t, u) /\ t.late \subseteq u.late
      /\ t.pc \in {"next", "page"} => ms \subseteq u.late
  BY <1>2, LateGrown
<1>4. Grown(s, u) BY <1>3, GrownJoins
<1>5. /\ t.pc = s.pc /\ t.late = s.late /\ t.stopped = s.stopped /\ t.stale = s.stale
      /\ t.answer = s.answer
  BY Untouched
<1>6. u.pc = t.pc /\ u.stopped = t.stopped /\ u.stale = t.stale /\ u.answer = t.answer
  BY <1>3, Untouched
<1>7. u.pc \in {"next", "page"} => Owed(d) \subseteq s.late \cup u.late
  BY <1>1, <1>3, <1>5, <1>6 DEF Awaiting
<1>8. /\ config' = config /\ posted' \subseteq Msgs /\ probed' = probed /\ sent' = sent
      /\ absent' = absent
  BY DEF platform, SchedulerInv
<1>9. (u.pc = "gate" /\ u.answer # Unread /\ ~u.stale /\ u.stopped) => probed'
  BY <1>5, <1>6, <1>8 DEF SchedulerInv, GateFits
<1>10. s.late \subseteq u.late BY <1>3, <1>5
<1>11. Entrusted' \subseteq Entrusted BY <1>8, EntrustedMsgs
<1>12. u.stopped = s.stopped BY <1>5, <1>6
<1> QED BY <1>4, <1>7, <1>8, <1>9, <1>10, <1>11, <1>12, OuterFits

LEMMA ReconnectedFits ==
    ASSUME SchedulerInv, Reconnected
    PROVE  Fits
<1> DEFINE ms == {m \in Msgs : claim[m] \in {"parkedFinal", "parkedRetry"}}
           t == Request(s)
           u == Late(t, ms)
           d == [m \in Msgs |-> CASE claim[m] = "parkedFinal" -> "final"
                                  [] claim[m] = "parkedRetry" -> "retry"
                                  [] OTHER -> claim[m]]
<1>1. Sound(s) /\ claim \in [Msgs -> ClaimStates] BY InvFacts
<1>2. s' = u /\ claim' = d /\ UNCHANGED platform BY DEF Reconnected
<1>3. Grown(s, t) /\ Only({"queue"}, s, t) BY <1>1, RequestGrown
<1>4. \A m \in Msgs : d[m] = CASE claim[m] = "parkedFinal" -> "final"
                               [] claim[m] = "parkedRetry" -> "retry"
                               [] OTHER -> claim[m]
  OBVIOUS
<1>5. d \in [Msgs -> ClaimStates] BY <1>1 DEF ClaimStates
<1>6. \A m \in Msgs : m \in ms <=> claim[m] \in {"parkedFinal", "parkedRetry"} OBVIOUS
<1> HIDE DEF d, ms, t
<1>7. \A m \in Msgs :
        \/ claim[m] = "parkedFinal" /\ d[m] = "final"
        \/ claim[m] = "parkedRetry" /\ d[m] = "retry"
        \/ claim[m] \notin {"parkedFinal", "parkedRetry"} /\ d[m] = claim[m]
  BY <1>4
<1>8. Owed(claim) \subseteq Owed(d) /\ Owed(d) \subseteq Owed(claim) \cup ms
  BY <1>6, <1>7 DEF Owed
<1>9. \A m \in Msgs : d[m] \in Unsettled => claim[m] \in Unsettled BY <1>7 DEF Unsettled
<1> HIDE DEF u
<1>10. u = Late(t, ms) BY DEF u
<1> QED BY <1>2, <1>3, <1>5, <1>8, <1>9, <1>10, LateFits

LEMMA OtherReleasesFits ==
    ASSUME SchedulerInv, NEW m \in Msgs, OtherReleases(m)
    PROVE  Fits
<1>1. Sound(s) /\ DOMAIN s = Fields /\ claim \in [Msgs -> ClaimStates] BY InvFacts
<1>2. PICK left \in {"free", "done", "final"} :
        /\ claim' = [claim EXCEPT ![m] = left]
        /\ s' = IF left = "final" THEN Late(s, {m}) ELSE s
  BY DEF OtherReleases
<1>3. claim[m] = "held" /\ UNCHANGED platform BY DEF OtherReleases
<1> DEFINE d == [claim EXCEPT ![m] = left]
<1>4. \A k \in Msgs : d[k] = IF k = m THEN left ELSE claim[k] BY <1>1
<1>5. d \in [Msgs -> ClaimStates] BY <1>1 DEF ClaimStates
<1>6. claim' = d BY <1>2
<1> HIDE DEF d
<1>7. Only({"queue"}, s, s) /\ Only({}, s, s) BY <1>1, OnlySelf
<1>8. Grown(s, s) BY <1>1, <1>7, FlagGrown
<1>9. Owed(claim) \subseteq Owed(d) BY <1>3, <1>4 DEF Owed
<1>10. \A k \in Msgs : d[k] \in Unsettled => claim[k] \in Unsettled
  BY <1>3, <1>4 DEF Unsettled
<1>11. CASE left = "final"
  <2> DEFINE ms == {m}
             u == Late(s, ms)
  <2>1. s' = u /\ u = Late(s, ms) BY <1>2, <1>11
  <2>2. Owed(d) \subseteq Owed(claim) \cup ms BY <1>4 DEF Owed
  <2> HIDE DEF u, ms
  <2> QED BY <1>3, <1>5, <1>6, <1>7, <1>8, <1>9, <1>10, <2>1, <2>2, LateFits
<1>12. CASE left # "final"
  <2>1. s' = s BY <1>2, <1>12
  <2>2. Owed(d) = Owed(claim) BY <1>3, <1>4, <1>12 DEF Owed
  <2>3. Awaiting(s, claim) BY InvFacts
  <2>4. s.pc \in {"next", "page"} => Owed(d) \subseteq s.late \cup s.late
    BY <2>2, <2>3 DEF Awaiting
  <2>5. config' = config /\ posted' \subseteq Msgs /\ probed' = probed /\ sent' = sent
      /\ absent' = absent
    BY <1>3 DEF platform, SchedulerInv
  <2>6. (s.pc = "gate" /\ s.answer # Unread /\ ~s.stale /\ s.stopped) => probed'
    BY <2>5 DEF SchedulerInv, GateFits
  <2>7. Entrusted' \subseteq Entrusted BY <2>5, EntrustedMsgs
  <2> QED BY <1>5, <1>6, <1>8, <1>9, <1>10, <2>1, <2>4, <2>5, <2>6, <2>7, OuterFits
<1> QED BY <1>11, <1>12

-----------------------------------------------------------------------------
(* Reads, and the end of the room *)

LEMMA PageRows ==
    ASSUME SchedulerInv, NEW cursor
    PROVE  Page(cursor).rows \in Seq(Msgs)
<1> DEFINE S == {m \in posted \ Hidden : m > cursor /\ claim[m] # "done"}
           all == InOrder(S)
           k == IF Len(all) < PageSize THEN Len(all) ELSE PageSize
<1>1. config \in Scenarios /\ posted \subseteq Msgs BY DEF SchedulerInv
<1>2. Msgs = 1..config.n /\ config.n \in Nat /\ Msgs \subseteq Nat BY <1>1, ScenarioFacts
<1>3. S \subseteq Msgs BY <1>1
<1>4. Page(cursor).rows = SubSeq(all, 1, k) BY DEF Page, ListedFrom
<1>5. PageSize \in Nat \ {0} BY <1>1, ScenariosAssumption DEF PageSize
<1> HIDE DEF S
<1>6. IsFiniteSet(Msgs) BY <1>2, FS_Interval
<1>7. IsFiniteSet(S) BY <1>3, <1>6, FS_Subset
<1>8. S \in SUBSET Nat BY <1>2, <1>3
<1>9. Cardinality(S) \in Nat /\ all \in [1..Cardinality(S) -> S]
  BY <1>7, <1>8, InOrderLists
<1> HIDE DEF all
<1>10. all \in [1..Cardinality(S) -> Msgs] BY <1>3, <1>9
<1>11. all \in Seq(Msgs) /\ Len(all) = Cardinality(S) BY <1>9, <1>10, SeqDef, LenProperties
<1>12. k \in Nat /\ k <= Len(all) BY <1>5, <1>9, <1>11
<1> HIDE DEF k
<1>13. SubSeq(all, 1, k) \in Seq(Msgs)
  <2>1. \A i \in 1..k : all[i] \in Msgs
    <3>1. \A i \in 1..k : i \in 1..Len(all) BY <1>9, <1>11, <1>12
    <3> QED BY <1>11, <3>1, ElementOfSeq
  <2> QED BY <1>12, <2>1, SubSeqProperties
<1> QED BY <1>4, <1>13

LEMMA PlatformAnswersFits ==
    ASSUME SchedulerInv, PlatformAnswers
    PROVE  Fits
<1>1. /\ Sound(s) /\ s.result = "none" /\ DOMAIN s = Fields
      /\ claim \in [Msgs -> ClaimStates] /\ Awaiting(s, claim)
  BY InvFacts
<1>2. /\ s.pc \in Reads /\ probed' = (s.stopped /\ (probed \/ s.pc = "gate"))
      /\ UNCHANGED <<config, claim, posted, sent, absent>>
  BY DEF PlatformAnswers
<1>3. PICK a : s' = [s EXCEPT !.answer = a] /\ a.rows \in Seq(Msgs)
  <2> DEFINE p == Page(0)
             k == IF p.rows = <<>> THEN 0 ELSE 1
             head == [p EXCEPT !.rows = SubSeq(p.rows, 1, k), !.next = 0]
             at == IF s.pc = "page" THEN s.scan ELSE s.ctl
  <2>1. \/ s' = [s EXCEPT !.answer = head]
        \/ s' = [s EXCEPT !.answer = NoRows]
        \/ s' = [s EXCEPT !.answer = Page(at)]
    BY Zenon DEF PlatformAnswers
  <2>2. NoRows.rows \in Seq(Msgs) BY EmptySeq DEF NoRows
  <2>3. Page(at).rows \in Seq(Msgs) BY PageRows
  <2>4. head.rows \in Seq(Msgs)
    <3>1. p.rows \in Seq(Msgs) BY PageRows
    <3>2. "rows" \in DOMAIN p BY DEF Page
    <3>3. head.rows = SubSeq(p.rows, 1, k)
      <4> HIDE DEF k
      <4> QED BY <3>2, Zenon
    <3> HIDE DEF p
    <3>4. k \in Nat /\ \A i \in 1..k : p.rows[i] \in Msgs
      <4>1. CASE p.rows = <<>> BY <4>1
      <4>2. CASE p.rows # <<>>
        <5>1. Head(p.rows) = p.rows[1] /\ Head(p.rows) \in Msgs
          BY <3>1, <4>2, HeadTailProperties
        <5> QED BY <4>2, <5>1
      <4> QED BY <4>1, <4>2
    <3>5. k <= Len(p.rows)
      <4>1. Len(p.rows) \in Nat BY <3>1, LenProperties
      <4>2. CASE p.rows = <<>> BY <4>1, <4>2
      <4>3. CASE p.rows # <<>>
        <5>1. Len(p.rows) # 0 BY <3>1, <4>3, EmptySeq
        <5> QED BY <4>1, <4>3, <5>1
      <4> QED BY <4>2, <4>3
    <3> HIDE DEF k
    <3>6. SubSeq(p.rows, 1, k) \in Seq(Msgs) BY <3>1, <3>4, <3>5, SubSeqProperties
    <3> QED BY <3>3, <3>6
  <2> HIDE DEF head, at
  <2> QED BY <2>1, <2>2, <2>3, <2>4
<1> DEFINE w == [s EXCEPT !.answer = a]
<1>4. w = [s EXCEPT !.answer = a] /\ s' = w BY <1>3
<1> HIDE DEF w
<1>5. Only({"answer"}, s, w) /\ w.answer = a BY <1>1, <1>4, FieldsListed, Zenon DEF Only
<1> SUFFICES ASSUME NEW u, s' = u, Only({"answer"}, s, u), u.answer = a
             PROVE  Fits
  BY <1>4, <1>5
<1>6. /\ u.pc = s.pc /\ u.queue = s.queue /\ u.line = s.line /\ u.deferred = s.deferred
      /\ u.stopped = s.stopped /\ u.closing = s.closing /\ u.arg = s.arg /\ u.held = s.held
      /\ u.relieved = s.relieved /\ u.ctlPage = s.ctlPage /\ u.gate = s.gate
      /\ u.kind = s.kind /\ u.result = s.result /\ u.late = s.late
  BY Untouched
<1>7. DOMAIN u = Fields BY DEF Only
<1>8. Sound(u) BY <1>1, <1>6, <1>7, Zenon DEF Sound
<1>9. Open(s) => Open(u) BY <1>6 DEF Open
<1>10. Awaiting(u, claim)
  <2>1. s.pc \notin {"run", "local", "loop", "retry"} BY <1>2 DEF Reads
  <2> QED BY <1>1, <1>3, <1>6, <1>9, <2>1 DEF Awaiting
<1>11. u.pc # "off" => \A m \in Entrusted' : claim[m] \in Unsettled => Has(u, m)
  BY <1>2, <1>6, EntrustedMsgs DEF SchedulerInv, NeverDropsRunnable, Has, Unsettled
<1>12. (u.pc = "gate" /\ u.answer # Unread /\ ~u.stale /\ u.stopped) => probed'
  BY <1>2, <1>6
<1>13. posted' \subseteq Msgs /\ u.result = "none" /\ config' = config /\ claim' = claim
  BY <1>1, <1>2, <1>6 DEF SchedulerInv
<1>14. SchedulerInv' BY <1>1, <1>8, <1>10, <1>11, <1>12, <1>13, InvNext
<1>15. ~DispatchesOrdinary BY <1>2, <1>6 DEF DispatchesOrdinary, Dispatches, Reads
<1> QED BY <1>6, <1>14, <1>15 DEF Fits

LEMMA CancelledFits ==
    ASSUME SchedulerInv, Cancelled
    PROVE  Fits
<1> DEFINE i == Idle(s)
           u == [i EXCEPT !.pc = "off", !.scan = 0, !.fallback = FALSE]
           fs == PassFields \cup {"pc", "started", "due", "scan", "fallback"}
<1>1. Sound(s) /\ s.result = "none" /\ DOMAIN s = Fields BY InvFacts
<1>2. s' = u /\ claim' = Freed /\ UNCHANGED platform BY DEF Cancelled
<1>3. /\ Only(PassFields, s, i) /\ i.result = "none" /\ i.gate = 0 /\ i.ctlPage = Unread
  BY <1>1, IdleFields
<1>4. u = [i EXCEPT !.pc = "off", !.scan = 0, !.fallback = FALSE] OBVIOUS
<1> HIDE DEF i, u
<1>5. DOMAIN i = Fields BY <1>3 DEF Only
<1>6. /\ Only({"pc", "scan", "fallback"}, i, u) /\ u.pc = "off"
  BY <1>4, <1>5, FieldsListed, Zenon DEF Only
<1>7. u.result = i.result /\ u.gate = i.gate /\ u.ctlPage = i.ctlPage /\ u.stopped = i.stopped
  BY <1>6, Untouched
<1>8. Only(PassFields \cup {"pc", "scan", "fallback"}, s, u) BY <1>3, <1>6, OnlyJoins
<1>9. Only(fs, s, u) BY <1>8 DEF Only
<1>10. /\ u.result = "none" /\ u.gate = 0 /\ u.ctlPage = Unread /\ u.pc \in {"wait", "off"}
  BY <1>3, <1>6, <1>7
<1>11. fs = PassFields \cup {"pc", "started", "due", "scan", "fallback"} OBVIOUS
<1> HIDE DEF fs
<1>12. Landed(s, u, Freed) BY <1>1, <1>9, <1>10, <1>11, OverLands
<1>13. Sound(u) /\ Awaiting(u, Freed) /\ u.stopped = s.stopped BY <1>12 DEF Landed
<1>14. Freed \in [Msgs -> ClaimStates] BY FreedFacts
<1>15. config' = config /\ posted' \subseteq Msgs BY <1>2 DEF platform, SchedulerInv
<1>16. SchedulerInv' BY <1>2, <1>6, <1>10, <1>13, <1>14, <1>15, InvNext
<1>17. ~DispatchesOrdinary BY <1>2, <1>6 DEF DispatchesOrdinary, Dispatches
<1> QED BY <1>2, <1>13, <1>16, <1>17 DEF Fits

-----------------------------------------------------------------------------
(* The theorems *)

LEMMA InitInv ==
    ASSUME Init
    PROVE  SchedulerInv /\ signals \in Nat
<1>1. config \in Scenarios /\ s = InitScheduler /\ sent = {} /\ signals = 0
      /\ posted \subseteq Msgs
  BY DEF Init
<1>2. /\ DOMAIN s = Fields /\ s.pc = "boot" /\ s.line = <<>> /\ s.queue = <<>> /\ s.gate = 0
      /\ s.ctlPage = Unread /\ s.result = "none"
  <2>1. s = [f \in Fields |-> IF f \in DOMAIN Fresh THEN Fresh[f] ELSE IdlePass[f]]
    BY <1>1 DEF InitScheduler, Fields
  <2>2. DOMAIN s = Fields BY <2>1
  <2>3. /\ {"pc", "line", "queue", "gate", "ctlPage", "result"} \subseteq Fields
        /\ {"pc", "line", "queue"} \subseteq DOMAIN Fresh
        /\ "gate" \notin DOMAIN Fresh /\ "ctlPage" \notin DOMAIN Fresh
        /\ "result" \notin DOMAIN Fresh
    BY FieldsListed DEF Fresh
  <2>4. /\ Fresh.pc = "boot" /\ Fresh.line = <<>> /\ Fresh.queue = <<>>
        /\ IdlePass.gate = 0 /\ IdlePass.ctlPage = Unread /\ IdlePass.result = "none"
    BY DEF Fresh, IdlePass
  <2>5. \A f \in Fields : s[f] = IF f \in DOMAIN Fresh THEN Fresh[f] ELSE IdlePass[f]
    BY <2>1
  <2> QED BY <2>2, <2>3, <2>4, <2>5
<1>3. Sound(s)
  <2>1. s.line \in Seq(Events) /\ s.queue \in Seq(Events \cup {Resync})
    BY <1>2, EmptySeq
  <2>2. Single(s.line) BY <1>2 DEF Single
  <2> QED BY <1>2, <2>1, <2>2 DEF Sound
<1>4. claim \in [Msgs -> ClaimStates] BY DEF Init, ClaimStates
<1>5. Awaiting(s, claim) BY <1>2 DEF Awaiting, Reads
<1>6. NeverDropsRunnable BY <1>1 DEF NeverDropsRunnable, Entrusted
<1>7. GateFits BY <1>2 DEF GateFits
<1> QED BY <1>1, <1>2, <1>3, <1>4, <1>5, <1>6, <1>7 DEF SchedulerInv

\* Every step of the room's scheduler and of its surroundings fits.
LEMMA NextFits ==
    ASSUME SchedulerInv, signals \in Nat, Next
    PROVE  Fits
<1>1. CASE SchedulerNext
  <2>1. CASE Boot \/ WakeDue BY <2>1, WakeFits
  <2>2. CASE WakeQueue BY <2>2, WakeQueueFits
  <2>3. CASE GateEnds BY <2>3, GateEndsFits
  <2>4. CASE NextEnds BY <2>4, NextEndsFits
  <2>5. CASE PageEnds BY <2>5, PageEndsFits
  <2>6. CASE ControlPageEnds BY <2>6, ControlPageEndsFits
  <2>7. CASE NextStep BY <2>7, NextStepFits
  <2>8. CASE \E m \in Msgs : SettlementEnds(m) BY <2>8, SettlementEndsFits
  <2>9. CASE RunAdvances BY <2>9, RunAdvancesFits
  <2>10. CASE RunRetriesLater BY <2>10, RunRetriesLaterFits
  <2>11. CASE RunNotAccepted BY <2>11, RunNotAcceptedFits
  <2>12. CASE RunPaused BY <2>12, RunPausedFits
  <2>13. CASE RunDeclined BY <2>13, RunDeclinedFits
  <2>14. CASE \E outcome \in LocalTurns : LocalEnds(outcome)
    BY <2>14, LocalEndsFits
  <2>15. CASE RunAbsent BY <2>15, RunAbsentFits
  <2> QED BY <1>1, <2>1, <2>2, <2>3, <2>4, <2>5, <2>6, <2>7, <2>8, <2>9, <2>10, <2>11,
             <2>12, <2>13, <2>14, <2>15 DEF SchedulerNext
<1>2. CASE PlatformAnswers BY <1>2, PlatformAnswersFits
<1>3. CASE ReadFails BY <1>3, ReadFailsFits
<1>4. CASE Cancelled BY <1>4, CancelledFits
<1>5. CASE \E m \in Msgs : Post(m) \/ Redeliver(m) \/ OtherReleases(m)
  BY <1>5, PostFits, RedeliverFits, OtherReleasesFits
<1>6. CASE \E e \in Events : Deliver(e) BY <1>6, DeliverFits
<1>7. CASE Interrupt BY <1>7, InterruptFits
<1>8. CASE StopRoom BY <1>8, StopRoomFits
<1>9. CASE ResumeRoom BY <1>9, ResumeRoomFits
<1>10. CASE Reconnected BY <1>10, ReconnectedFits
<1>11. CASE RecoveryRequested BY <1>11, RecoveryRequestedFits
<1>12. CASE \E m \in Controls : RecognitionChanges(m) BY <1>12, RecognitionFits
<1>13. CASE TimerDue \/ Close BY <1>13, TimerFits
<1> QED BY <1>1, <1>2, <1>3, <1>4, <1>5, <1>6, <1>7, <1>8, <1>9, <1>10, <1>11, <1>12,
           <1>13 DEF Next

LEMMA SignalsCounted ==
    ASSUME signals \in Nat, Next
    PROVE  signals' \in Nat
<1>1. signals + 1 \in Nat OBVIOUS
<1>2. signals' = signals \/ signals' = signals + 1
  <2>1. CASE SchedulerNext
    BY <2>1, Zenon DEF SchedulerNext, Boot, WakeDue, WakeQueue, GateEnds, NextEnds, PageEnds,
       ControlPageEnds, NextStep, SettlementEnds, RunAdvances, RunRetriesLater,
       RunAbsent, RunNotAccepted, RunPaused, RunDeclined, LocalEnds
  <2>2. CASE PlatformAnswers \/ ReadFails \/ Cancelled
    BY <2>2, Zenon DEF PlatformAnswers, ReadFails, Cancelled
  <2>3. CASE \E m \in Msgs : Post(m) \/ Redeliver(m) \/ OtherReleases(m)
    BY <2>3, Zenon DEF Post, Redeliver, OtherReleases, Signal
  <2>4. CASE \E e \in Events : Deliver(e) BY <2>4, Zenon DEF Deliver
  <2>5. CASE \/ Interrupt \/ StopRoom \/ ResumeRoom \/ Reconnected \/ RecoveryRequested
             \/ (\E m \in Controls : RecognitionChanges(m)) \/ TimerDue \/ Close
    BY <2>5, Zenon DEF Interrupt, StopRoom, ResumeRoom, Reconnected, RecoveryRequested,
       RecognitionChanges, TimerDue, Close, Signal
  <2> QED BY <2>1, <2>2, <2>3, <2>4, <2>5 DEF Next
<1> QED BY <1>1, <1>2

LEMMA InvStutters ==
    ASSUME SchedulerInv, UNCHANGED vars
    PROVE  SchedulerInv'
<1>1. /\ s' = s /\ claim' = claim /\ config' = config /\ posted' = posted /\ sent' = sent
      /\ probed' = probed /\ absent' = absent
  BY DEF vars
<1>2. /\ Sound(s) /\ s.result = "none" /\ claim \in [Msgs -> ClaimStates]
      /\ Awaiting(s, claim) /\ posted' \subseteq Msgs
  BY <1>1 DEF SchedulerInv
<1>3. s.pc # "off" => \A m \in Entrusted' : claim[m] \in Unsettled => Has(s, m)
  BY <1>1, EntrustedMsgs DEF SchedulerInv, NeverDropsRunnable, Has, Unsettled
<1>4. (s.pc = "gate" /\ s.answer # Unread /\ ~s.stale /\ s.stopped) => probed'
  BY <1>1 DEF SchedulerInv, GateFits
<1> QED BY <1>1, <1>2, <1>3, <1>4, InvNext

\* The room's scheduler keeps its invariant: what it relies on when it resumes from an
\* await still holds, whatever control signals, deliveries, releases and answers came
\* in between (Scheduler.run, run_pass, take_step and every await below them).
THEOREM SchedulerKeeps == Spec => [](SchedulerInv /\ signals \in Nat)
<1>1. Init => SchedulerInv /\ signals \in Nat BY InitInv
<1>2. SchedulerInv /\ signals \in Nat /\ [Next]_vars => (SchedulerInv /\ signals \in Nat)'
  <2> SUFFICES ASSUME SchedulerInv, signals \in Nat, [Next]_vars
               PROVE  (SchedulerInv /\ signals \in Nat)'
    OBVIOUS
  <2>1. CASE Next BY <2>1, NextFits, SignalsCounted DEF Fits
  <2>2. CASE UNCHANGED vars
    <3>1. signals' \in Nat BY <2>2 DEF vars
    <3> QED BY <2>2, <3>1, InvStutters
  <2> QED BY <2>1, <2>2
<1> QED BY <1>1, <1>2, PTL DEF Spec

\* A message that reached the room behind a participant event or a contact-hub turn
\* never runs before it (RetainedEvents.local_predecessor, local_segment and
\* batch_candidates, with whatever page the platform lists).
THEOREM LocalOrderHolds == Spec => []LocalOrder
<1>1. SchedulerInv => LocalOrder
  <2> SUFFICES ASSUME SchedulerInv, OrdinaryRun
               PROVE  \A i, j \in DOMAIN s.line :
                        (i < j /\ s.line[j] \in Members) => s.line[i] \notin Locals
    BY DEF LocalOrder
  <2>1. Awaiting(s, claim) BY DEF SchedulerInv
  <2>2. Placed(s) BY <2>1 DEF Awaiting, OrdinaryRun
  <2> QED BY <2>2 DEF Placed, Members
<1> QED BY <1>1, SchedulerKeeps, PTL

\* A delivered original that the platform may never list again stays in the queue or the
\* line for as long as a turn may still run it (absorb, release and prune_skipped), but
\* for one that a run misread as deleted since its last delivery (TurnOutcome.ABSENT in
\* after_delivery, is_gone).
THEOREM DropsNoRunnable == Spec => []NeverDropsRunnable
<1>1. SchedulerInv => NeverDropsRunnable BY DEF SchedulerInv
<1> QED BY <1>1, SchedulerKeeps, PTL

\* A local stop is lifted only by a PLAY or by an answer the platform gave after it
\* (resume_from_gate against stop_room).
THEOREM StopStandsHolds == Spec => StopStands
<1>1. SchedulerInv /\ signals \in Nat /\ [Next]_vars
        => [(s.stopped /\ ~s'.stopped) => (probed \/ signals' # signals)]_vars
  <2> SUFFICES ASSUME SchedulerInv, signals \in Nat, Next
               PROVE  (s.stopped /\ ~s'.stopped) => (probed \/ signals' # signals)
    OBVIOUS
  <2> QED BY NextFits DEF Fits
<1> QED BY <1>1, SchedulerKeeps, PTL DEF Spec, StopStands

\* Ordinary input waits for every write the room owed before the step looked, and in a
\* live pass for deferred input until a control advanced (ordinary_gated in take_step).
THEOREM OrdinaryWaitsHolds == Spec => OrdinaryWaits
<1>1. SchedulerInv /\ signals \in Nat /\ [Next]_vars
        => [DispatchesOrdinary => /\ Owed(claim') \subseteq s.late
                                  /\ s'.arg \/ s'.deferred = 0 \/ s'.relieved]_vars
  <2> SUFFICES ASSUME SchedulerInv, signals \in Nat, Next, DispatchesOrdinary
               PROVE  /\ Owed(claim') \subseteq s.late
                      /\ s'.arg \/ s'.deferred = 0 \/ s'.relieved
    OBVIOUS
  <2> QED BY NextFits DEF Fits
<1> QED BY <1>1, SchedulerKeeps, PTL DEF Spec, OrdinaryWaits
=============================================================================
