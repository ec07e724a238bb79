-------------------------- MODULE InvocationRecord --------------------------
(***************************************************************************)
(* One recorded tool call: run_recorded_usage (server.rs) and its          *)
(* RecordGuard (server/record.rs).                                         *)
(*                                                                         *)
(* A call builds a guard, races its work against the cancellation token,   *)
(* and hands the guard to finish(), which marks the guard done, publishes  *)
(* the record to the tracing and telemetry sinks and only then awaits the  *)
(* row write.  Dropping a call whose guard is not done publishes a         *)
(* `cancelled` record and spawns a detached task that writes its row.      *)
(* The database may refuse any write, the future of a call may be dropped  *)
(* at any await, and the process may exit, which drops every task.         *)
(***************************************************************************)
EXTENDS Naturals, Sequences

CONSTANTS
    Invocations,    \* the tool calls of one server process
    Failures,       \* the outcome classes of AppError::outcome()
    MaxSpend        \* bound: provider units one call may be billed

ASSUME InvocationAssumption ==
    /\ MaxSpend \in Nat
    /\ Failures \cap {"success", "cancelled"} = {}

VARIABLES
    phase,      \* where the future of each call stands
    ct,         \* the request's cancellation token has fired
    spent,      \* units the providers billed the call so far
    record,     \* the record finish() or the drop backstop holds
    backstop,   \* the detached task a dropped guard spawned
    published,  \* records sent to the sinks, in order (InvocationRecord::publish)
    rows,       \* the invocation_records table, in insertion order
    reply,      \* what the caller was answered
    runtime,    \* "up" until the process exits
    loss        \* history: why an ended call has no row

vars == <<phase, ct, spent, record, backstop, published, rows, reply, runtime, loss>>

Outcomes == {"success", "cancelled"} \cup Failures
Records == [inv : Invocations, outcome : Outcomes, usage : 0..MaxSpend]
NoRecord == [inv |-> "none"]

TypeOK ==
    /\ phase \in [Invocations -> {"idle", "working", "finishing", "replied", "gone"}]
    /\ ct \in [Invocations -> BOOLEAN]
    /\ spent \in [Invocations -> 0..MaxSpend]
    /\ record \in [Invocations -> Records \cup {NoRecord}]
    /\ backstop \in [Invocations -> {"none", "spawned", "over"}]
    /\ published \in Seq(Records)
    /\ rows \in Seq(Records)
    /\ reply \in [Invocations -> {"none", "ok", "error", "cancelled"}]
    /\ runtime \in {"up", "down"}
    /\ loss \in [Invocations -> {"none", "write", "dropped", "exit"}]

Init ==
    /\ phase = [i \in Invocations |-> "idle"]
    /\ ct = [i \in Invocations |-> FALSE]
    /\ spent = [i \in Invocations |-> 0]
    /\ record = [i \in Invocations |-> NoRecord]
    /\ backstop = [i \in Invocations |-> "none"]
    /\ published = <<>>
    /\ rows = <<>>
    /\ reply = [i \in Invocations |-> "none"]
    /\ runtime = "up"
    /\ loss = [i \in Invocations |-> "none"]
-----------------------------------------------------------------------------
(* RecordGuard::new *)
Arrive(i) ==
    /\ runtime = "up" /\ phase[i] = "idle"
    /\ phase' = [phase EXCEPT ![i] = "working"]
    /\ UNCHANGED <<ct, spent, record, backstop, published, rows, reply, runtime, loss>>

(* A provider answers one of the calls the work makes and bills for it. *)
Bill(i) ==
    /\ runtime = "up" /\ phase[i] = "working"
    /\ spent[i] < MaxSpend
    /\ spent' = [spent EXCEPT ![i] = @ + 1]
    /\ UNCHANGED <<phase, ct, record, backstop, published, rows, reply, runtime, loss>>

(* The client cancels the request; the token may fire while finish() runs. *)
Cancel(i) ==
    /\ runtime = "up" /\ phase[i] \in {"working", "finishing"}
    /\ ~ct[i]
    /\ ct' = [ct EXCEPT ![i] = TRUE]
    /\ UNCHANGED <<phase, spent, record, backstop, published, rows, reply, runtime, loss>>

(* finish(): the guard is done and the record published before the write. *)
Finish(i, outcome, usage) ==
    LET r == [inv |-> i, outcome |-> outcome, usage |-> usage]
    IN  /\ runtime = "up" /\ phase[i] = "working"
        /\ phase' = [phase EXCEPT ![i] = "finishing"]
        /\ record' = [record EXCEPT ![i] = r]
        /\ published' = Append(published, r)
        /\ UNCHANGED <<ct, spent, backstop, rows, reply, runtime, loss>>

(* The select! arm of the token; select! is not biased, so the work may win. *)
CancelArm(i) == ct[i] /\ Finish(i, "cancelled", 0)

(* A success records the usage its work returned, which may leave out what  *)
(* was billed on the way: a failed pass beside a quorum, or a consolidation *)
(* that failed under a save that did not.                                   *)
WorkSucceeds(i) == \E told \in 0..spent[i] : Finish(i, "success", told)

(* The usage of a failure is what its error carries (AppError::billed).     *)
WorkFails(i) ==
    \E class \in Failures, billed \in 0..spent[i] : Finish(i, class, billed)

ReplyTo(outcome) ==
    CASE outcome = "success" -> "ok"
      [] outcome = "cancelled" -> "cancelled"
      [] OTHER -> "error"

(* record_invocation returned; a failed write is logged and nothing else.   *)
RowWritten(i) ==
    /\ runtime = "up" /\ phase[i] = "finishing"
    /\ phase' = [phase EXCEPT ![i] = "replied"]
    /\ reply' = [reply EXCEPT ![i] = ReplyTo(record[i].outcome)]
    /\ rows' = Append(rows, record[i])
    /\ UNCHANGED <<ct, spent, record, backstop, published, runtime, loss>>

RowRefused(i) ==
    /\ runtime = "up" /\ phase[i] = "finishing"
    /\ phase' = [phase EXCEPT ![i] = "replied"]
    /\ reply' = [reply EXCEPT ![i] = ReplyTo(record[i].outcome)]
    /\ loss' = [loss EXCEPT ![i] = "write"]
    /\ UNCHANGED <<ct, spent, record, backstop, published, rows, runtime>>

(* RecordGuard::drop of a guard that is not done: publish, then spawn the   *)
(* task that writes the row.                                                *)
Abandon(i) ==
    LET r == [inv |-> i, outcome |-> "cancelled", usage |-> 0]
    IN  /\ runtime = "up" /\ phase[i] = "working"
        /\ phase' = [phase EXCEPT ![i] = "gone"]
        /\ record' = [record EXCEPT ![i] = r]
        /\ published' = Append(published, r)
        /\ backstop' = [backstop EXCEPT ![i] = "spawned"]
        /\ UNCHANGED <<ct, spent, rows, reply, runtime, loss>>

(* Defect: the guard is marked done after the write, so a call dropped as   *)
(* its write lands gets the backstop too.                                   *)
AbandonInFinishUndone(i) ==
    /\ runtime = "up" /\ phase[i] = "finishing"
    /\ phase' = [phase EXCEPT ![i] = "gone"]
    /\ rows' = Append(rows, record[i])
    /\ backstop' = [backstop EXCEPT ![i] = "spawned"]
    /\ UNCHANGED <<ct, spent, record, published, reply, runtime, loss>>

(* A call dropped inside finish(): the guard is done, so there is no        *)
(* backstop; the statement reached the database or it did not.              *)
AbandonInFinish(i) ==
    /\ phase[i] = "finishing"
    /\ phase' = [phase EXCEPT ![i] = "gone"]
    /\ \/ /\ rows' = Append(rows, record[i])
          /\ UNCHANGED loss
       \/ /\ loss' = [loss EXCEPT ![i] = IF runtime = "up" THEN "dropped" ELSE "exit"]
          /\ UNCHANGED rows
    /\ UNCHANGED <<ct, spent, record, backstop, published, reply, runtime>>

(* Defect: any dropped call gets a detached writer, done or not.            *)
BackstopWritesForAll(i) ==
    /\ runtime = "up" /\ phase[i] = "gone" /\ backstop[i] # "over"
    /\ backstop' = [backstop EXCEPT ![i] = "over"]
    /\ rows' = Append(rows, record[i])
    /\ UNCHANGED <<phase, ct, spent, record, published, reply, runtime, loss>>

BackstopWrites(i) ==
    /\ runtime = "up" /\ backstop[i] = "spawned"
    /\ backstop' = [backstop EXCEPT ![i] = "over"]
    /\ rows' = Append(rows, record[i])
    /\ UNCHANGED <<phase, ct, spent, record, published, reply, runtime, loss>>

BackstopRefused(i) ==
    /\ runtime = "up" /\ backstop[i] = "spawned"
    /\ backstop' = [backstop EXCEPT ![i] = "over"]
    /\ loss' = [loss EXCEPT ![i] = "write"]
    /\ UNCHANGED <<phase, ct, spent, record, published, rows, reply, runtime>>

(* service.waiting() returns and main drops the runtime with its tasks.     *)
Exit ==
    /\ runtime = "up"
    /\ runtime' = "down"
    /\ UNCHANGED <<phase, ct, spent, record, backstop, published, rows, reply, loss>>

(* A working call dropped with the runtime: its guard can spawn nothing     *)
(* that runs.                                                               *)
DropAtExit(i) ==
    LET r == [inv |-> i, outcome |-> "cancelled", usage |-> 0]
    IN  /\ runtime = "down" /\ phase[i] = "working"
        /\ phase' = [phase EXCEPT ![i] = "gone"]
        /\ record' = [record EXCEPT ![i] = r]
        /\ published' = Append(published, r)
        /\ loss' = [loss EXCEPT ![i] = "exit"]
        /\ UNCHANGED <<ct, spent, backstop, rows, reply, runtime>>

(* The exit drops a detached writer that has not run.                       *)
BackstopDropped(i) ==
    /\ runtime = "down" /\ backstop[i] = "spawned"
    /\ backstop' = [backstop EXCEPT ![i] = "over"]
    /\ loss' = [loss EXCEPT ![i] = "exit"]
    /\ UNCHANGED <<phase, ct, spent, record, published, rows, reply, runtime>>
-----------------------------------------------------------------------------
Step(i) ==
    \/ Arrive(i) \/ Bill(i) \/ Cancel(i)
    \/ CancelArm(i) \/ WorkSucceeds(i) \/ WorkFails(i)
    \/ RowWritten(i) \/ RowRefused(i)
    \/ Abandon(i) \/ AbandonInFinish(i)
    \/ BackstopWrites(i) \/ BackstopRefused(i)
    \/ DropAtExit(i) \/ BackstopDropped(i)

Next == Exit \/ \E i \in Invocations : Step(i)

Spec == Init /\ [][Next]_vars
-----------------------------------------------------------------------------
RowsOf(i) == {n \in DOMAIN rows : rows[n].inv = i}
PublishedOf(i) == {n \in DOMAIN published : published[n].inv = i}

(* The call can get no further row.                                         *)
Settled(i) ==
    /\ phase[i] \in {"replied", "gone"}
    /\ backstop[i] # "spawned"

(* No call ever has two rows: whatever order the work, the token, the drop  *)
(* and the detached writer take, finish() and the Drop backstop exclude one *)
(* another (record.rs done flag).                                           *)
AtMostOneRow ==
    \A m, n \in DOMAIN rows : rows[m].inv = rows[n].inv => m = n

(* One measurement, two sinks: a row was published before it was stored,    *)
(* and a call that ended was published exactly once, row or no row.         *)
OneMeasurementTwoSinks ==
    /\ \A n \in DOMAIN rows : \E m \in DOMAIN published : published[m] = rows[n]
    /\ \A i \in Invocations :
          phase[i] \notin {"idle", "working"} <=> \E m \in PublishedOf(i) : PublishedOf(i) = {m}

(* A settled call without a row lost it to a refused write, to a drop       *)
(* inside finish() or to the exit of the process, and to nothing else.      *)
MissingRowsHaveACause ==
    \A i \in Invocations :
        Settled(i) => (RowsOf(i) = {} <=> loss[i] # "none")

(* What the caller was told is what the row says: an answered call that has *)
(* a row has the row of that answer, whichever of the work, the token and   *)
(* the drop came first, and no row bills more than was spent, a cancelled   *)
(* one nothing.  What a row leaves out is the work's doing (Corrective).    *)
ReplyAgreesWithRow ==
    \A n \in DOMAIN rows :
        LET i == rows[n].inv
        IN  /\ reply[i] # "none" => reply[i] = ReplyTo(rows[n].outcome)
            /\ rows[n].usage <= spent[i]
            /\ rows[n].outcome = "cancelled" => rows[n].usage = 0

(* The two sinks, the table and the reply tell one story of each call, and  *)
(* where they do not, a recorded loss says why (record.rs, server.rs).      *)
RecordsAreTrue ==
    /\ AtMostOneRow
    /\ OneMeasurementTwoSinks
    /\ MissingRowsHaveACause
    /\ ReplyAgreesWithRow

(* The ledger as the abstract specification sees it.                        *)
LedgerEntry(i) ==
    IF RowsOf(i) # {} THEN rows[CHOOSE n \in RowsOf(i) : TRUE].outcome
    ELSE IF Settled(i) THEN "missing" ELSE "open"

Ledger == INSTANCE RecordLedger WITH
    Open <- "open", Missing <- "missing",
    ledger <- [i \in Invocations |-> LedgerEntry(i)]

(* The detailed guard implements the settle-once ledger.                    *)
SettlesOnce == Ledger!Spec

(* server.rs: every invocation - success, failure, or abandonment - leaves  *)
(* exactly one record, with the database accepting the write and the        *)
(* process alive.                                                           *)
ExactlyOneRow ==
    \A i \in Invocations :
        Settled(i) /\ loss[i] \notin {"write", "exit"}
            => \E n \in DOMAIN rows : RowsOf(i) = {n}
=============================================================================
