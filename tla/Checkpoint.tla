----------------------------- MODULE Checkpoint -----------------------------
(***************************************************************************)
(* The checkpoint layer (checkpoint/run.rs): the evaluations a session's   *)
(* hooks ask for after a tool batch, before an action and at a turn end.   *)
(*                                                                         *)
(* An evaluation reads its evidence, takes the keys delivered within the   *)
(* cooldown window, decides, and appends one audit row, whose delivered    *)
(* keys later evaluations read as the window.  Between the read and the    *)
(* row lie awaits, so evaluations of one session interleave.  Any step may *)
(* fail, which fails the evaluation open; the request may be dropped at    *)
(* any await; memories are admitted and retired meanwhile.                 *)
(***************************************************************************)
EXTENDS Naturals, Sequences, FiniteSets

CONSTANTS
    MaxEvals,       \* bound: evaluations of a behaviour, numbered as they begin
    MaxTime,        \* bound: the clock
    Window,         \* COOLDOWN_WINDOW_MS, in ticks
    CaptureCap,     \* CAPTURE_SESSION_CAP
    Sessions,       \* the harness sessions
    BatchKeys,      \* <<detector, action>> pairs the batch screening may fire
    Statements,     \* the mined statement pairs a contradiction identifies
    Memories,       \* ids of lesson and fact memories
    Boundaries,     \* the boundaries the installed hooks call
    MemoryOn        \* an embedder is configured

ASSUME CheckpointAssumption ==
    /\ MaxEvals \in Nat /\ MaxTime \in Nat /\ Window \in Nat /\ CaptureCap \in Nat
    /\ Boundaries \subseteq {"batch", "action", "turn"}
    /\ BatchKeys \subseteq {"repetition", "repeated_failure"} \X STRING
    /\ MemoryOn \in BOOLEAN

VARIABLES
    clock,      \* TimeProvider
    started,    \* evaluations begun so far
    pc,         \* the await each evaluation is suspended at
    ev,         \* the locals of each evaluation, with what it spent (history)
    rows,       \* the checkpoint_records table, in insertion order
    store,      \* the memories: absent, enforceable (gate::is_constraint), or retired
    retired,    \* history: evaluations begun when each memory was retired
    captures,   \* evaluations whose captured memory is stored
    audited     \* evaluations whose capture_proposed row is stored

vars == <<clock, started, pc, ev, rows, store, retired, captures, audited>>

Evals == 1..MaxEvals

(* Signal::new hashes the identity under its kind, so kinds never collide.  *)
ContradictionKeys == {"self_contradiction"} \X Statements
Violation(m) == <<"preference_violation", m>>
Conflict(m) == <<"memory_conflict", m>>
Keys == BatchKeys \cup ContradictionKeys
            \cup {Violation(m) : m \in Memories} \cup {Conflict(m) : m \in Memories}

Verdicts == {"silence", "flag", "hold"}
Units == 0..3   \* one recall embedding, one review, one capture embedding

Fresh(s, b) ==
    [session |-> s, boundary |-> b, base |-> Len(rows), recalled |-> {}, fired |-> {},
     delivered |-> {}, verdict |-> "silence", suppressed |-> FALSE, failOpen |-> FALSE,
     metered |-> 0, spent |-> 0, readAt |-> 0, at |-> 0, offered |-> FALSE, counted |-> {},
     reply |-> "none"]

Evaluations ==
    [session : Sessions, boundary : Boundaries, base : Nat, recalled : SUBSET Memories,
     fired : SUBSET Keys, delivered : SUBSET Keys, verdict : Verdicts,
     suppressed : BOOLEAN, failOpen : BOOLEAN, metered : Units, spent : Units,
     readAt : 0..MaxTime, at : 0..MaxTime, offered : BOOLEAN, counted : SUBSET Evals,
     reply : {"none", "error"} \cup Verdicts]

NoEvaluation == [boundary |-> "none"]

Suspended == {"read", "embed", "load", "review", "count", "drop",
              "capture", "save", "audit", "cooldown", "record"}

CheckpointRows ==
    [eval : Evals, session : Sessions, boundary : Boundaries, fired : SUBSET Keys,
     delivered : SUBSET Keys, verdict : Verdicts, suppressed : BOOLEAN,
     failOpen : BOOLEAN, at : 0..MaxTime]

TypeOK ==
    /\ clock \in 0..MaxTime
    /\ started \in 0..MaxEvals
    /\ pc \in [Evals -> {"idle", "answered", "dropped"} \cup Suspended]
    /\ ev \in [Evals -> Evaluations \cup {NoEvaluation}]
    /\ \A e \in Evals : ev[e] = NoEvaluation <=> pc[e] = "idle"
    /\ rows \in Seq(CheckpointRows)
    /\ store \in [Memories -> {"absent", "constraint", "retired"}]
    /\ retired \in [Memories -> 0..MaxEvals]
    /\ captures \subseteq Evals /\ audited \subseteq Evals

Init ==
    /\ clock = 0 /\ started = 0
    /\ pc = [e \in Evals |-> "idle"]
    /\ ev = [e \in Evals |-> NoEvaluation]
    /\ rows = <<>>
    /\ store = [m \in Memories |-> "absent"]
    /\ retired = [m \in Memories |-> 0]
    /\ captures = {} /\ audited = {}

Shared == <<clock, started, rows, store, retired, captures, audited>>
-----------------------------------------------------------------------------
(* Evaluation e goes on to its next await with new locals.                  *)
Goto(e, next, locals) ==
    /\ pc' = [pc EXCEPT ![e] = next]
    /\ ev' = [ev EXCEPT ![e] = locals]

(* The verdict is in; record() stamps the row before it awaits the write.   *)
Conclude(e, locals) == Goto(e, "record", [locals EXCEPT !.at = clock])

Silence(e, locals) == Conclude(e, [locals EXCEPT !.verdict = "silence", !.fired = {}])

(* recover(): a silence that carries only what the error was metered with.  *)
FailOpen(e, metered) ==
    Conclude(e, [ev[e] EXCEPT !.failOpen = TRUE, !.fired = {}, !.metered = metered])

(* CheckpointParams arrive; what needs no await is decided at once.         *)
Begin(e, s, b) == e = started + 1 /\ started' = e /\ b \in Boundaries /\ s \in Sessions

Rest == <<clock, rows, store, retired, captures, audited>>

StartBatch(e, s) ==
    /\ Begin(e, s, "batch")
    /\ Goto(e, "read", Fresh(s, "batch"))
    /\ UNCHANGED Rest

(* run_action: no risk pattern matched, or no embedder: silence.            *)
StartAction(e, s) ==
    /\ Begin(e, s, "action")
    /\ \/ Silence(e, Fresh(s, "action"))
       \/ MemoryOn /\ Goto(e, "embed", Fresh(s, "action"))
    /\ UNCHANGED Rest

(* run_turn: a forced continuation or an empty final message: silence.      *)
StartTurn(e, s) ==
    /\ Begin(e, s, "turn")
    /\ \/ Silence(e, Fresh(s, "turn"))
       \/ Goto(e, "read", Fresh(s, "turn"))
    /\ UNCHANGED Rest
-----------------------------------------------------------------------------
(* unsuppressed() takes the time before it awaits the delivered keys.       *)
AskCooldown(e, locals) == Goto(e, "cooldown", [locals EXCEPT !.readAt = clock])

(* deliver_turn_flags and run_batch: nothing fired is silence.              *)
DeliverFlags(e, locals) ==
    IF locals.fired = {} THEN Silence(e, locals) ELSE AskCooldown(e, locals)

(* The trajectory window is read and screened.                              *)
BatchReads(e) ==
    /\ pc[e] = "read" /\ ev[e].boundary = "batch"
    /\ \E fired \in SUBSET BatchKeys : DeliverFlags(e, [ev[e] EXCEPT !.fired = fired])
    /\ UNCHANGED Shared

(* Without memory, a turn that mined no candidate pair ends in silence.     *)
TurnReads(e) ==
    /\ pc[e] = "read" /\ ev[e].boundary = "turn"
    /\ \/ MemoryOn /\ Goto(e, "embed", ev[e])
       \/ ~MemoryOn /\ (Goto(e, "review", ev[e]) \/ Silence(e, ev[e]))
    /\ UNCHANGED Shared

ReadFails(e) ==
    /\ pc[e] = "read"
    /\ FailOpen(e, 0)
    /\ UNCHANGED Shared

(* embed_query, for the gate and for the turn's recall.                     *)
QueryEmbedded(e) ==
    /\ pc[e] = "embed"
    /\ Goto(e, "load", [ev[e] EXCEPT !.spent = @ + 1])
    /\ UNCHANGED Shared

EmbedFails(e) ==
    /\ pc[e] = "embed"
    /\ FailOpen(e, 0)
    /\ UNCHANGED Shared

(* Defect: retired memories still qualify as constraints.                   *)
EnforceableOnceSaved == {m \in Memories : store[m] # "absent"}

(* gate::is_constraint over the memories load_memories returns.             *)
Enforceable == {m \in Memories : store[m] = "constraint"}

(* constraint_hold: the most relevant constraint above tau, if any.         *)
GateLoads(e) ==
    /\ pc[e] = "load" /\ ev[e].boundary = "action"
    /\ \/ Silence(e, [ev[e] EXCEPT !.metered = 1])
       \/ \E m \in Enforceable :
            Conclude(e, [ev[e] EXCEPT !.fired = {Conflict(m)}, !.delivered = {Conflict(m)},
                                      !.verdict = "hold", !.metered = 1])
    /\ UNCHANGED Shared

(* GATE_BUDGET_MS ran out.                                                  *)
GateTimesOut(e) ==
    /\ pc[e] \in {"embed", "load"} /\ ev[e].boundary = "action"
    /\ FailOpen(e, 0)
    /\ UNCHANGED Shared

(* The ranked recall; with memory on, the review always runs.               *)
TurnLoads(e) ==
    /\ pc[e] = "load" /\ ev[e].boundary = "turn"
    /\ \E near \in SUBSET Enforceable :
          Goto(e, "review", [ev[e] EXCEPT !.recalled = near, !.metered = 1])
    /\ UNCHANGED Shared

(* Defect: a failed load starts the evaluation over.                        *)
LoadFailsRetried(e) ==
    /\ pc[e] = "load"
    /\ Goto(e, "embed", [ev[e] EXCEPT !.spent = 0])
    /\ UNCHANGED Shared

(* The error of a failed load carries nothing of the embedding's bill.      *)
LoadFails(e) ==
    /\ pc[e] = "load"
    /\ FailOpen(e, 0)
    /\ UNCHANGED Shared

(* review_once: at most one contradiction, one violation, one capture.      *)
ReviewReturns(e) ==
    LET Reviewed(fired) ==
            [ev[e] EXCEPT !.fired = fired, !.metered = @ + 1, !.spent = @ + 1]
    IN  /\ pc[e] = "review"
        /\ \E contradiction \in {{}} \cup {{k} : k \in ContradictionKeys},
              violation \in {{}} \cup {{Violation(m)} : m \in ev[e].recalled} :
              \/ DeliverFlags(e, Reviewed(contradiction \cup violation))
              \/ MemoryOn /\ Goto(e, "count",
                             [Reviewed(contradiction \cup violation) EXCEPT !.offered = TRUE])
        /\ UNCHANGED Shared

(* The call failed and its error tells the bill, or its answer failed       *)
(* validation and that error tells none; the recall's bill is folded in.    *)
ReviewFails(e) ==
    /\ pc[e] = "review"
    /\ \E billed \in 0..1 : \E told \in 0..billed :
          Conclude(e, [ev[e] EXCEPT !.failOpen = TRUE, !.fired = {},
                                    !.spent = @ + billed, !.metered = @ + told])
    /\ UNCHANGED Shared
-----------------------------------------------------------------------------
(* store_capture: whatever happens, the turn goes on to its flags.          *)
CapturesOf(s) == {e \in captures : ev[e].session = s}
AuditedOf(s) == {e \in audited : ev[e].session = s}

(* Defect: the cap is off by one.                                           *)
CaptureCountedPastCap(e) ==
    LET s == ev[e].session
    IN  /\ pc[e] = "count"
        /\ Goto(e, IF Cardinality(AuditedOf(s)) > CaptureCap THEN "drop" ELSE "capture",
                [ev[e] EXCEPT !.counted = AuditedOf(s)])
        /\ UNCHANGED Shared

(* captures_in_session counts the capture_proposed rows of the session.     *)
CaptureCounted(e) ==
    LET s == ev[e].session
    IN  /\ pc[e] = "count"
        /\ Goto(e, IF Cardinality(AuditedOf(s)) >= CaptureCap THEN "drop" ELSE "capture",
                [ev[e] EXCEPT !.counted = AuditedOf(s)])
        /\ UNCHANGED Shared

(* Any failing call, and the drop row written or not, end the capture.      *)
CaptureEnds(e) ==
    /\ pc[e] \in {"count", "drop", "capture", "save", "audit"}
    /\ DeliverFlags(e, ev[e])
    /\ UNCHANGED Shared

(* embed_document; its usage is not added to the evaluation's.              *)
CaptureEmbedded(e) ==
    /\ pc[e] = "capture"
    /\ Goto(e, "save", [ev[e] EXCEPT !.spent = @ + 1])
    /\ UNCHANGED Shared

CaptureSaved(e) ==
    /\ pc[e] = "save"
    /\ captures' = captures \cup {e}
    /\ Goto(e, "audit", ev[e])
    /\ UNCHANGED <<clock, started, rows, store, retired, audited>>

CaptureAudited(e) ==
    /\ pc[e] = "audit"
    /\ audited' = audited \cup {e}
    /\ DeliverFlags(e, ev[e])
    /\ UNCHANGED <<clock, started, rows, store, retired, captures>>
-----------------------------------------------------------------------------
(* Defect: the cooldown is fed by every fired key.                          *)
FiredSince(s, now) ==
    UNION {rows[n].fired : n \in {i \in DOMAIN rows :
                rows[i].session = s /\ rows[i].at + Window >= now}}

(* delivered_signal_keys_since(now - Window), the bound inclusive.          *)
DeliveredSince(s, now) ==
    UNION {rows[n].delivered : n \in {i \in DOMAIN rows :
                rows[i].session = s /\ rows[i].at + Window >= now}}

CooldownReads(e) ==
    LET remaining == ev[e].fired \ DeliveredSince(ev[e].session, ev[e].readAt)
    IN  /\ pc[e] = "cooldown"
        /\ Conclude(e, [ev[e] EXCEPT
                !.delivered = remaining,
                !.suppressed = (remaining = {}),
                !.verdict = IF remaining = {} THEN "silence" ELSE "flag"])
        /\ UNCHANGED Shared

(* The error of a failed cooldown read carries no usage at all.             *)
CooldownReadFails(e) ==
    /\ pc[e] = "cooldown"
    /\ FailOpen(e, 0)
    /\ UNCHANGED Shared

Row(e) ==
    [eval |-> e, session |-> ev[e].session, boundary |-> ev[e].boundary,
     fired |-> ev[e].fired, delivered |-> ev[e].delivered, verdict |-> ev[e].verdict,
     suppressed |-> ev[e].suppressed, failOpen |-> ev[e].failOpen, at |-> ev[e].at]

(* The evaluation is over and its locals are gone; the properties still     *)
(* read what it was answered and when it read the tables.                   *)
End(e, how, reply) ==
    Goto(e, how, [ev[e] EXCEPT !.recalled = {}, !.fired = {}, !.delivered = {},
                               !.metered = 0, !.spent = 0, !.offered = FALSE,
                               !.at = 0, !.reply = reply])

RowWritten(e) ==
    /\ pc[e] = "record"
    /\ rows' = Append(rows, Row(e))
    /\ End(e, "answered", ev[e].verdict)
    /\ UNCHANGED <<clock, started, store, retired, captures, audited>>

(* Defect: a refused audit write is logged and the verdict returned.        *)
RowRefusedSilently(e) ==
    /\ pc[e] = "record"
    /\ End(e, "answered", ev[e].verdict)
    /\ UNCHANGED Shared

(* Only the audit write propagates.                                         *)
RowRefused(e) ==
    /\ pc[e] = "record"
    /\ End(e, "answered", "error")
    /\ UNCHANGED Shared

(* The request is cancelled or its future dropped; a statement in flight    *)
(* reached the database or not.                                             *)
Dropped(e) ==
    /\ pc[e] \in Suspended
    /\ End(e, "dropped", "none")
    /\ \/ UNCHANGED <<rows, captures, audited>>
       \/ pc[e] = "record" /\ rows' = Append(rows, Row(e)) /\ UNCHANGED <<captures, audited>>
       \/ pc[e] = "save" /\ captures' = captures \cup {e} /\ UNCHANGED <<rows, audited>>
       \/ pc[e] = "audit" /\ audited' = audited \cup {e} /\ UNCHANGED <<rows, captures>>
    /\ UNCHANGED <<clock, started, store, retired>>
-----------------------------------------------------------------------------
Tick ==
    /\ clock < MaxTime
    /\ clock' = clock + 1
    /\ UNCHANGED <<started, pc, ev, rows, store, retired, captures, audited>>

(* The memory tools admit a trusted memory; a supersession, merge or forget *)
(* retires it for good.                                                     *)
Admit(m) ==
    /\ MemoryOn /\ store[m] = "absent"
    /\ store' = [store EXCEPT ![m] = "constraint"]
    /\ UNCHANGED <<clock, started, pc, ev, rows, retired, captures, audited>>

Retire(m) ==
    /\ store[m] = "constraint"
    /\ store' = [store EXCEPT ![m] = "retired"]
    /\ retired' = [retired EXCEPT ![m] = started]
    /\ UNCHANGED <<clock, started, pc, ev, rows, captures, audited>>

Start(e) == \E s \in Sessions : StartBatch(e, s) \/ StartAction(e, s) \/ StartTurn(e, s)

Proceed(e) ==
    \/ BatchReads(e) \/ TurnReads(e) \/ ReadFails(e)
    \/ QueryEmbedded(e) \/ EmbedFails(e)
    \/ GateLoads(e) \/ GateTimesOut(e) \/ TurnLoads(e) \/ LoadFails(e)
    \/ ReviewReturns(e) \/ ReviewFails(e)
    \/ CaptureCounted(e) \/ CaptureEnds(e) \/ CaptureEmbedded(e)
    \/ CaptureSaved(e) \/ CaptureAudited(e)
    \/ CooldownReads(e) \/ CooldownReadFails(e)
    \/ RowWritten(e) \/ RowRefused(e)

Next ==
    \/ \E e \in Evals : Start(e) \/ Proceed(e) \/ Dropped(e)
    \/ Tick
    \/ \E m \in Memories : Admit(m) \/ Retire(m)

Spec == Init /\ [][Next]_vars

(* Every await of an evaluation ends: the provider calls carry a timeout    *)
(* and a bounded retry count, and the pool serves or fails a statement.     *)
FairSpec == Spec /\ \A e \in Evals : WF_vars(Proceed(e))
-----------------------------------------------------------------------------
RowsOf(e) == {n \in DOMAIN rows : rows[n].eval = e}

(* An answer is what the audit trail says: an evaluation answered with a    *)
(* verdict has exactly one row and it carries that verdict, one answered    *)
(* with an error has none, and none has two (FR-006: record()).             *)
AnswerIsAudited ==
    \A e \in Evals :
        /\ \A m, n \in RowsOf(e) : m = n
        /\ pc[e] \notin {"answered", "dropped"} => RowsOf(e) = {}
        /\ pc[e] = "answered" =>
              IF ev[e].reply = "error" THEN RowsOf(e) = {}
              ELSE \E n \in RowsOf(e) : rows[n].verdict = ev[e].reply

(* The cooldown holds between evaluations that do not overlap: a flag does  *)
(* not deliver a key that a row already stored when its evaluation began    *)
(* delivered to the session within the window (FR-010: unsuppressed).       *)
CooldownRespected ==
    \A j \in DOMAIN rows : rows[j].verdict = "flag" =>
        \A i \in 1..ev[rows[j].eval].base :
            (/\ rows[i].session = rows[j].session
             /\ rows[i].delivered \cap rows[j].delivered # {})
                => rows[i].at + Window < rows[j].at

(* Suppression is never self-sustaining: a fired key a row did not deliver  *)
(* was delivered by an earlier row of the session that the window reached,  *)
(* so suppressing a key does not extend its cooldown (delivered_keys).      *)
SuppressionJustified ==
    \A j \in DOMAIN rows : \A k \in rows[j].fired \ rows[j].delivered :
        \E i \in 1..(j - 1) :
            /\ rows[i].session = rows[j].session
            /\ k \in rows[i].delivered
            /\ rows[i].at + Window >= ev[rows[j].eval].readAt

(* No evaluation enforces a memory that was superseded, merged or forgotten *)
(* before the evaluation began (gate::is_constraint).                       *)
EnforcesLiveConstraints ==
    \A n \in DOMAIN rows, m \in Memories :
        rows[n].fired \cap {Violation(m), Conflict(m)} # {} =>
            /\ store[m] # "absent"
            /\ store[m] = "retired" => retired[m] >= rows[n].eval

(* A session exceeds its capture cap only if two of its captures missed     *)
(* each other: neither one's audit row was stored when the other counted    *)
(* (store_capture counts rows, not memories).                               *)
CaptureOverrunHasACause ==
    \A s \in Sessions :
        Cardinality(CapturesOf(s)) > CaptureCap =>
            \E d, e \in CapturesOf(s) :
                d # e /\ d \notin ev[e].counted /\ e \notin ev[d].counted

(* Metering folds every hop: an evaluation that concludes without failing   *)
(* carries all that its recall and its review were billed, whatever order   *)
(* the hops came in; only the embedding of a capture is left out (020).     *)
ConclusionCarriesSpend ==
    \A e \in Evals : pc[e] = "record" =>
        /\ ev[e].metered <= ev[e].spent
        /\ ~ev[e].failOpen => ev[e].spent <= ev[e].metered + IF ev[e].offered THEN 1 ELSE 0

(* What a hook is answered is what the trail holds and what the boundary    *)
(* spent: one row per verdict, and no billed hop left out of it (run.rs).   *)
AnswerIsHonest == AnswerIsAudited /\ ConclusionCarriesSpend

(* The cooldown silences what was delivered lately and only that            *)
(* (unsuppressed, delivered_keys).                                          *)
CooldownIsFair == CooldownRespected /\ SuppressionJustified

(* Every evaluation ends, answered or dropped (FR-008: it fails open).      *)
EvaluationEnds ==
    \A e \in Evals : pc[e] \in Suspended ~> pc[e] \in {"answered", "dropped"}

(* What the trail holds of an evaluation: the verdict of its row, nothing,  *)
(* or nothing yet.                                                          *)
TrailEntry(e) ==
    IF RowsOf(e) # {} THEN rows[CHOOSE n \in RowsOf(e) : TRUE].verdict
    ELSE IF pc[e] \in {"answered", "dropped"} THEN "missing" ELSE "open"

Trail == INSTANCE RecordLedger WITH
            Invocations <- Evals, Outcomes <- Verdicts,
            Open <- "open", Missing <- "missing",
            ledger <- [e \in Evals |-> TrailEntry(e)]

(* The audit trail is a ledger that settles once: an evaluation's entry is  *)
(* its verdict or missing, each for good, though the trail is written last  *)
(* and shared by every evaluation of the database (record()).               *)
TrailSettlesOnce == Trail!Spec

(* FR-010: a delivered flag must not be re-delivered for the same signal    *)
(* within its cooldown window - with evaluations overlapping.               *)
NeverRedelivered ==
    \A i, j \in DOMAIN rows :
        (/\ i < j /\ rows[j].verdict = "flag"
         /\ rows[i].session = rows[j].session
         /\ rows[i].delivered \cap rows[j].delivered # {})
            => rows[i].at + Window < rows[j].at

(* recover(): whatever the boundary spent before it failed is carried onto  *)
(* the recovered evaluation.                                                *)
FailOpenCarriesSpend ==
    \A e \in Evals : pc[e] = "record" /\ ev[e].failOpen => ev[e].metered = ev[e].spent
=============================================================================
