----------------------------- MODULE MCScheduler -----------------------------
(***************************************************************************)
(* The scenarios of Scheduler.tla that TLC explores.                        *)
(***************************************************************************)
EXTENDS Scheduler

CONSTANTS Roster, Hub   \* a participant event and a contact-hub turn

\* Two messages in one room, one per turn and per page, nothing going wrong.
Plain ==
    [n |-> 2, hidden |-> {}, lost |-> {}, foreign |-> {}, controls |-> {}, rosters |-> {},
     hubs |-> {}, batching |-> FALSE, turn |-> 1, page |-> 1, handles |-> FALSE,
     flaky |-> FALSE, faults |-> 0, signals |-> 0]

\* A thread reply, a participant event and a message the previous execution holds.
Handover ==
    [Plain EXCEPT !.hidden = {2}, !.foreign = {1}, !.rosters = {Roster},
                  !.faults = 1, !.signals = 1]

\* A control behind a message, and a contact-hub turn.
ControlAndHub ==
    [Plain EXCEPT !.controls = {2}, !.hubs = {Hub}, !.handles = TRUE, !.signals = 1]

\* Turns of two messages, with a participant event among them.
Batches ==
    [Plain EXCEPT !.rosters = {Roster}, !.batching = TRUE, !.turn = 2, !.faults = 2]

SafetyScenarios == {Handover, ControlAndHub, Batches}

\* A participant event among messages, with and without a failure.
Among == [Plain EXCEPT !.rosters = {Roster}]
OneFault == [Plain EXCEPT !.faults = 1]
Both == [Plain EXCEPT !.n = 1, !.rosters = {Roster}, !.faults = 1]

\* One message of the previous execution, a failure and two control signals.
StopAndPlay == [Plain EXCEPT !.n = 1, !.foreign = {1}, !.faults = 1, !.signals = 2]

\* Every run and every write fails for ever, with a control behind a message whose
\* delivery was lost.
Failing ==
    [Plain EXCEPT !.lost = {1}, !.controls = {2}, !.handles = TRUE, !.flaky = TRUE]

\* A contact-hub turn among messages, a thread reply, and turns of two messages.
HubTurn == [Plain EXCEPT !.n = 1, !.hubs = {Hub}, !.signals = 1]
Reply == [Plain EXCEPT !.hidden = {2}, !.faults = 1]
Batch == [Plain EXCEPT !.batching = TRUE, !.turn = 2, !.faults = 1]

LiveScenarios == {Among, OneFault, Both, StopAndPlay, Failing, HubTurn, Reply, Batch}

=============================================================================
