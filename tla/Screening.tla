------------------------------- MODULE Screening -------------------------------
(***************************************************************************)
(* The deterministic half of a checkpoint: reading the tail of a session's *)
(* transcript (traits/trajectory.rs), parsing its lines into tool calls    *)
(* and messages (checkpoint/trajectory.rs), and the two detectors over     *)
(* them, repetition and repeated failure (checkpoint/screen.rs).           *)
(*                                                                         *)
(* A line is one of                                                        *)
(*   [type |-> "turn", uses |-> <<u, ...>>]   an assistant message: its    *)
(*        tool uses, each [id, action, noise]; text blocks are left out    *)
(*   [type |-> "result", id, error]           the result of one tool use   *)
(*   [type |-> "torn"]                        a line that is not JSON      *)
(* `action` stands for the tool and the input fields that name its target, *)
(* `noise` for the volatile fields (ids, timestamps, the description).     *)
(***************************************************************************)
EXTENDS Naturals, Sequences, FiniteSets, SequencesExt, FiniteSetsExt

CONSTANTS
    Actions,            \* the distinct actions a session takes
    WindowEntries,      \* WINDOW_ENTRIES: entries kept of what was read
    WindowBatches,      \* WINDOW_BATCHES: recent tool batches
    RepeatThreshold,    \* REPEAT_THRESHOLD
    FailureThreshold    \* FAILURE_THRESHOLD

ASSUME ScreeningAssumption ==
    /\ WindowEntries \in Nat \ {0}
    /\ WindowBatches \in Nat \ {0}
    /\ RepeatThreshold \in Nat \ {0}
    /\ FailureThreshold \in Nat \ {0}

(* FsTrajectoryReader::read: `from` lines precede the byte window.  A       *)
(* window that starts inside the file loses its first line, which the seek  *)
(* almost certainly cut; `upto` is where the read stopped, and the line it  *)
(* stopped in may be half written.                                          *)
TailOf(file, from, upto) ==
    SubSeq(file, IF from = 0 THEN 1 ELSE from + 2, upto)

(* normalize_input and action_identity: the noise is dropped.               *)
Identity(use) == <<use.action>>

(* One tool use of a message, as it is entered: not failed yet.             *)
Entered(use, batch) == [batch |-> batch, id |-> use.id, identity |-> Identity(use), failed |-> FALSE]

(* The entry a result belongs to: the last tool use of that id.             *)
EntryOf(entries, id) == {k \in DOMAIN entries : entries[k].id = id}

(* One line of parse_lines: the tool uses of an assistant message share a   *)
(* batch; an error result marks the call it names; anything else is skipped. *)
ParseLine(s, line) ==
    CASE line.type = "turn" /\ line.uses # <<>> ->
            [batch |-> s.batch + 1,
             entries |-> s.entries \o [k \in DOMAIN line.uses |-> Entered(line.uses[k], s.batch + 1)]]
      [] line.type = "result" /\ line.error /\ EntryOf(s.entries, line.id) # {} ->
            [s EXCEPT !.entries[Max(EntryOf(s.entries, line.id))].failed = TRUE]
      [] OTHER -> s

ParseLines(lines) == FoldLeft(ParseLine, [batch |-> 0, entries |-> <<>>], lines).entries

(* The window the detectors see: the last WindowEntries entries.            *)
Window(lines) ==
    LET e == ParseLines(lines)
    IN  IF Len(e) > WindowEntries THEN SubSeq(e, Len(e) - WindowEntries + 1, Len(e)) ELSE e

(* The first batch of the recent ones; the subtraction saturates.           *)
Floor(window) ==
    LET newest == Max({0} \cup {window[k].batch : k \in DOMAIN window})
    IN  IF newest >= WindowBatches THEN newest - (WindowBatches - 1) ELSE 0

Identities(window) == {window[k].identity : k \in DOMAIN window}

(* repetition: the same action often enough within the recent batches.      *)
Repetition(window) ==
    {i \in Identities(window) :
        Cardinality({k \in DOMAIN window : window[k].identity = i /\ window[k].batch >= Floor(window)})
            >= RepeatThreshold}

(* The streak of one action: its failures extend it and remember the batch  *)
(* of the latest, its success clears it, other actions leave it alone.      *)
Streak(s, e) ==
    [streak |-> [s.streak EXCEPT ![e.identity] = IF e.failed THEN @ + 1 ELSE 0],
     last |-> IF e.failed THEN [s.last EXCEPT ![e.identity] = e.batch] ELSE s.last]

(* Defect: a streak is reported however long ago it ended.                  *)
RepeatedFailureEver(window) ==
    LET none == [i \in Identities(window) |-> 0]
        s == FoldLeft(Streak, [streak |-> none, last |-> none], window)
    IN  {i \in Identities(window) : s.streak[i] >= FailureThreshold}

(* repeated_failure: the streak is long enough and its latest failure is in *)
(* the recent batches.                                                      *)
RepeatedFailure(window) ==
    LET none == [i \in Identities(window) |-> 0]
        s == FoldLeft(Streak, [streak |-> none, last |-> none], window)
    IN  {i \in Identities(window) :
            s.streak[i] >= FailureThreshold /\ s.last[i] >= Floor(window)}

(* screen: the flags one evaluation raises over the lines it read.          *)
Screen(lines) ==
    LET w == Window(lines)
    IN  ({"repetition"} \X Repetition(w)) \cup ({"repeated_failure"} \X RepeatedFailure(w))
-----------------------------------------------------------------------------
(* Reference: what the whole transcript says, read off its lines.  The      *)
(* calls are the pairs (line, position) of its tool uses.                   *)
CallsOf(file) == UNION {{l} \X DOMAIN file[l].uses : l \in {l \in DOMAIN file : file[l].type = "turn"}}

UseAt(file, c) == file[c[1]].uses[c[2]]

IsFailed(file, c) ==
    \E r \in DOMAIN file : r > c[1] /\ file[r].type = "result" /\ file[r].error /\ file[r].id = UseAt(file, c).id

(* At most WindowBatches - 1 later messages use tools.                      *)
IsRecent(file, c) ==
    Cardinality({l \in DOMAIN file : l > c[1] /\ file[l].type = "turn" /\ file[l].uses # <<>>}) < WindowBatches

LaterThan(c, d) == c[1] > d[1] \/ (c[1] = d[1] /\ c[2] > d[2])

CallsTo(file, a) == {c \in CallsOf(file) : UseAt(file, c).action = a}

(* The action is repeated: enough of its calls are recent.                  *)
IsRepeated(file, a) == Cardinality({c \in CallsTo(file, a) : IsRecent(file, c)}) >= RepeatThreshold

(* The action keeps failing: enough of its calls, all failed, with no call  *)
(* to it that did not fail after the first of them, the latest recent.      *)
IsFailing(file, a) ==
    \E fs \in SUBSET {c \in CallsTo(file, a) : IsFailed(file, c)} :
        /\ Cardinality(fs) = FailureThreshold
        /\ \A d \in CallsTo(file, a) \ fs : \A c \in fs : LaterThan(c, d)
        /\ \E c \in fs : IsRecent(file, c)

Truth(file) ==
    {<<"repetition", <<a>>>> : a \in {b \in Actions : IsRepeated(file, b)}}
    \cup {<<"repeated_failure", <<a>>>> : a \in {b \in Actions : IsFailing(file, b)}}
=============================================================================
