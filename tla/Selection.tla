------------------------------ MODULE Selection ------------------------------
(***************************************************************************)
(* The pure selection of the ordinary prefix one turn consumes             *)
(* (runtime/selection.py).  Two sources describe a room's outstanding      *)
(* messages: the pages of the platform's list, which omits some deliveries *)
(* (thread replies), and the originals the WebSocket delivered and the room *)
(* retained.                                                               *)
(*                                                                         *)
(* A message is identified with its chronological position, so MessageKey  *)
(* order is the order of the naturals and a key is never compared with an   *)
(* unequal key of the same message.                                        *)
(***************************************************************************)
EXTENDS Naturals, Sequences, FiniteSets, SequencesExt

\* The numbers of S in increasing order.
InOrder(S) ==
    [i \in 1..Cardinality(S) |->
        CHOOSE n \in S : Cardinality({k \in S : k < n}) = i - 1]

\* The elements of seq that are in kept, in their order.
Keep(seq, kept) ==
    LET at == InOrder({i \in DOMAIN seq : seq[i] \in kept})
    IN  [i \in DOMAIN at |-> seq[at[i]]]

Dispositions == {"runnable", "skip", "held", "boundary", "control"}
Stops == {"cap", "held", "boundary", "control", "frontier", "end"}

\* Candidate; observed says whether the list read supplied its metadata.
Candidate(key, disposition, observed) ==
    [key |-> key, disposition |-> disposition, observed |-> observed]

NoCandidate == Candidate(0, "skip", FALSE)

\* merge: each identity once, in key order.  The retained payload wins, and
\* with it everything the list observed of that message.
Merge(rest, retained) ==
    LET all == rest \cup {c \in retained : \A r \in rest : r.key # c.key}
        keys == InOrder({c.key : c \in all})
    IN  [i \in DOMAIN keys |-> CHOOSE c \in all : c.key = keys[i]]

\* Mutant of ReadReaches: a page that stops short is trusted all the same.
ReadReachesAlways(candidate, pageReaches, exhausted) ==
    exhausted \/ pageReaches # 0

\* Mutant of ReadReaches: a read that ended reaches no further than its last row.
ReadReachesRowsOnly(candidate, pageReaches, exhausted) ==
    pageReaches # 0 /\ pageReaches >= candidate.key

\* read_reaches; pageReaches is 0 for a page without rows.
ReadReaches(candidate, pageReaches, exhausted) ==
    exhausted \/ (pageReaches # 0 /\ pageReaches >= candidate.key)

\* One candidate of select_prefix's walk.  The walk is over once acc.stop is set.
Walk(listed, cap, pageReaches, exhausted, resumed, acc, c) ==
    LET unmatched == c.key \notin listed
        grown == Append(acc.members, c)
    IN
    CASE acc.stop # "end" -> acc
      [] acc.stop = "end" /\ unmatched /\ c.key \notin resumed
         /\ ~ReadReaches(c, pageReaches, exhausted) ->
            [acc EXCEPT !.stop = "frontier", !.at = c]
      [] OTHER ->
            CASE c.disposition = "skip" -> acc
              [] c.disposition = "held" -> [acc EXCEPT !.stop = "held", !.at = c]
              [] c.disposition \in {"control", "boundary"}
                 \/ (unmatched /\ c.disposition = "runnable") ->
                    [members |-> IF acc.members = <<>> THEN <<c>> ELSE acc.members,
                     stop |-> IF ~unmatched /\ c.disposition = "control"
                              THEN "control" ELSE "boundary",
                     at |-> c]
              [] OTHER ->
                    [acc EXCEPT !.members = grown,
                                !.stop = IF Len(grown) = cap THEN "cap" ELSE "end"]

\* select_prefix: the members to run, why the prefix ended, and the candidate
\* that ended it.
SelectPrefix(candidates, listed, cap, pageReaches, exhausted, resumed) ==
    LET walk[i \in 0..Len(candidates)] ==
            IF i = 0 THEN [members |-> <<>>, stop |-> "end", at |-> NoCandidate]
            ELSE Walk(listed, cap, pageReaches, exhausted, resumed, walk[i - 1],
                      candidates[i])
    IN  walk[Len(candidates)]

=============================================================================
