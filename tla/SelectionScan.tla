---------------------------- MODULE SelectionScan ----------------------------
(***************************************************************************)
(* A scan of one room's backlog with the selection of Selection.tla: the    *)
(* list is read page by page, merged with the retained originals, and the   *)
(* first non-empty prefix is run.  The room does not change during the      *)
(* scan, so what a selection should respect is known: the messages in order *)
(* of their keys, of which the list omits the hidden ones.  Its names are   *)
(* its own, so that the scheduler's proof can use what is proved here.      *)
(***************************************************************************)
EXTENDS Selection, FiniteSets

CONSTANTS
    ScanSize,     \* bound: messages 1..ScanSize in key order
    ScanPageSize, \* ACTIONABLE_PAGE_SIZE
    ScanCap       \* max_queued_messages

ASSUME ScanAssumption == {ScanSize, ScanPageSize, ScanCap} \subseteq Nat \ {0}

VARIABLES
    scanHidden,      \* outstanding messages the list omits
    scanRetained,    \* messages the WebSocket delivered
    scanDisposition, \* what the room may do with each message
    scanCursor,      \* Scheduler.scan_cursor
    scanOutcome      \* "scanning", "empty", or the selection to run

scanVars == <<scanHidden, scanRetained, scanDisposition, scanCursor, scanOutcome>>

ScanMsgs == 1..ScanSize
Scanning == [members |-> <<>>, stop |-> "end", at |-> NoCandidate]

ScanInit ==
    /\ scanHidden \in SUBSET ScanMsgs
    /\ scanRetained \in SUBSET ScanMsgs
    /\ scanDisposition \in [ScanMsgs -> {"runnable", "skip", "held", "control"}]
    /\ scanCursor = 0
    /\ scanOutcome = [kind |-> "scanning", selection |-> Scanning]

\* get_actionable_page from the scan's cursor.
Rows == LET all == InOrder({m \in ScanMsgs \ scanHidden : m > scanCursor})
        IN  SubSeq(all, 1, IF Len(all) < ScanPageSize THEN Len(all) ELSE ScanPageSize)

NextCursor == IF \E m \in ScanMsgs \ scanHidden : m > scanCursor /\ \A r \in ToSet(Rows) : m > r
              THEN Last(Rows) ELSE 0

Select ==
    SelectPrefix(Merge({Candidate(m, scanDisposition[m], TRUE) : m \in ToSet(Rows)},
                       {Candidate(m, scanDisposition[m], FALSE) : m \in scanRetained}),
                 ToSet(Rows), ScanCap, IF Rows = <<>> THEN 0 ELSE Last(Rows),
                 NextCursor = 0, {})

\* One step of the scan: run what was selected, wait for a held message, or go on.
ScanPage ==
    /\ scanOutcome.kind = "scanning"
    /\ CASE Select.members # <<>> ->
                scanOutcome' = [kind |-> "run", selection |-> Select] /\ scanCursor' = scanCursor
         [] Select.members = <<>> /\ Select.stop = "held" ->
                scanOutcome' = [kind |-> "held", selection |-> Select] /\ scanCursor' = scanCursor
         [] Select.members = <<>> /\ Select.stop # "held" /\ NextCursor # 0 ->
                scanCursor' = NextCursor /\ scanOutcome' = scanOutcome
         [] OTHER -> scanOutcome' = [kind |-> "empty", selection |-> Select] /\ scanCursor' = 0
    /\ UNCHANGED <<scanHidden, scanRetained, scanDisposition>>

ScanNext == ScanPage

ScanSpec == ScanInit /\ [][ScanNext]_scanVars

-----------------------------------------------------------------------------

\* Messages the room can know of: listed by the platform, or delivered to it.
Known == {m \in ScanMsgs : m \notin scanHidden \/ m \in scanRetained}

Run == {c.key : c \in ToSet(scanOutcome.selection.members)}

\* The prefix overtakes nothing: whatever known message lies before a selected
\* one is selected with it or settled, although a page shows only part of the
\* list and the retained originals come without their place in it.  A turn of
\* several messages holds only listed ordinary ones, within the cap.
NothingOvertaken ==
    scanOutcome.kind = "run" =>
        /\ \A m \in Known, r \in Run :
              (m < r /\ scanDisposition[m] # "skip") => m \in Run
        /\ Cardinality(Run) <= ScanCap
        /\ Cardinality(Run) > 1 =>
              \A m \in Run : scanDisposition[m] = "runnable" /\ m \notin scanHidden

\* A scan that concludes with nothing to run has left nothing: every known
\* message is settled.
EmptyMeansSettled ==
    scanOutcome.kind = "empty" => \A m \in Known : scanDisposition[m] = "skip"

=============================================================================
