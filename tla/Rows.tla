---------------------------------- MODULE Rows ----------------------------------
(***************************************************************************)
(* The rows of the store (storage/sqlite.rs): what a write binds, what an  *)
(* older release left NULL, and what a read makes of the cells.  A cell    *)
(* holds the value its text or JSON stands for, or Damaged when the text   *)
(* is none that the parser of its column takes.                            *)
(***************************************************************************)
EXTENDS Metering, Integers

Cell(v) == [value |-> v]
Damaged == [torn |-> TRUE]
Null == [null |-> TRUE]
Cells(values) == [c \in DOMAIN values |-> Cell(values[c])]

Tables == {"invocations", "checkpoints", "pushes", "memories", "consolidations"}

(* The columns a read parses, and those it takes for a count.               *)
Checked(table) ==
    CASE table = "invocations"    -> {"outcome", "created_at"}
      [] table = "checkpoints"    -> {"boundary", "verdict", "signals_evaluated", "signals_fired",
                                      "delivered_keys", "created_at"}
      [] table = "pushes"         -> {"surfaced_ids", "created_at"}
      [] table = "memories"       -> {"embedding", "kind", "trust", "tags", "created_at", "status",
                                      "last_reinforced_at"}
      [] table = "consolidations" -> {"action", "created_at"}

Counted(table) ==
    CASE table = "invocations" -> {"input_tokens", "output_tokens", "latency_ms"}
      [] table = "checkpoints" -> {"latency_ms"}
      [] table = "pushes"      -> {"latency_ms", "input_tokens"}
      [] OTHER                 -> {}

(* A record of each table: an invocation's figures are those of its usage.  *)
IsInvocation(r) ==
    /\ r = [model |-> r.model, in |-> r.in, out |-> r.out, models |-> r.models, estimated |-> r.estimated,
            latency |-> r.latency, outcome |-> r.outcome, at |-> r.at, usage |-> r.usage]
    /\ r.model \in Models /\ r.latency \in 0..UsageMax
    /\ IsFiniteSet(DOMAIN r.usage) /\ DOMAIN r.usage \subseteq Models
    /\ r.usage \in [DOMAIN r.usage -> [in : 0..UsageMax, out : 0..UsageMax]]
    /\ LET figures == Recorded(r.usage, r.model)
       IN  /\ r.model = figures.model /\ r.in = figures.in /\ r.out = figures.out
           /\ r.models = figures.models /\ r.estimated = figures.estimated

IsRecord(table, r) ==
    IF table = "invocations" THEN IsInvocation(r)
    ELSE /\ r = [c \in DOMAIN r |-> r[c]]
         /\ Checked(table) \cup Counted(table) \subseteq DOMAIN r
         /\ \A c \in Counted(table) : r[c] \in 0..UsageMax
         /\ DOMAIN r \cap {"models", "usage_by_model"} = {}

(* A u64 bound as the i64 of the same bits.                                 *)
AsSigned(n) == IF n > UsageMax \div 2 THEN n - (UsageMax + 1) ELSE n

(* encode_usage_by_model: a JSON row per model.                             *)
EncodeUsage(u) == {[model |-> m, in |-> u[m].in, out |-> u[m].out] : m \in DOMAIN u}

(* Defect: a column that older releases left NULL reads as no usage.        *)
DecodeUsageAsWritten(cell, model, in, out) ==
    IF cell \in {Null, Damaged} THEN NoUsage
    ELSE FoldSet(LAMBDA r, u : Add(u, r.model, r.in, r.out), NoUsage, cell.value)

(* decode_usage_by_model: what does not say otherwise is of the one model   *)
(* the row names.                                                           *)
DecodeUsage(cell, model, in, out) ==
    IF cell \in {Null, Damaged, Cell({})} THEN Add(NoUsage, model, in, out)
    ELSE FoldSet(LAMBDA r, u : Add(u, r.model, r.in, r.out), NoUsage, cell.value)

(* record_invocation.                                                       *)
InvocationRow(r) ==
    Cells([model |-> r.model, input_tokens |-> AsSigned(r.in), output_tokens |-> AsSigned(r.out),
           latency_ms |-> AsSigned(r.latency), outcome |-> r.outcome, created_at |-> r.at,
           models |-> r.models, usage_by_model |-> EncodeUsage(r.usage)])

(* A row written before the columns of 018 were added.                      *)
OlderInvocationRow(r) == [InvocationRow(r) EXCEPT !.models = Null, !.usage_by_model = Null]

(* list_invocations, of one row that loads.                                 *)
InvocationOf(row) ==
    LET model == row.model.value
        in == row.input_tokens.value
        out == row.output_tokens.value
        usage == DecodeUsage(row.usage_by_model, model, in, out)
    IN  [model |-> model, in |-> in, out |-> out, latency |-> row.latency_ms.value,
         outcome |-> row.outcome.value, at |-> row.created_at.value,
         models |-> IF row.models \in {Null, Damaged} THEN DOMAIN usage ELSE row.models.value,
         usage |-> usage, estimated |-> CostEstimated(usage)]

(* record_checkpoint, record_push, save_memory, record_consolidation: every *)
(* column but the counts is bound as it is.                                 *)
Bound(table, r) == Cells([c \in DOMAIN r |-> IF c \in Counted(table) THEN AsSigned(r[c]) ELSE r[c]])

RowOf(table, r) == IF table = "invocations" THEN InvocationRow(r) ELSE Bound(table, r)
RecordOf(table, row) ==
    IF table = "invocations" THEN InvocationOf(row) ELSE [c \in DOMAIN row |-> row[c].value]

Loads(table, row) ==
    /\ \A c \in Checked(table) : row[c] # Damaged
    /\ \A c \in Counted(table) : row[c].value >= 0

(* list_* and load_memories: one row that does not load fails the read.     *)
List(table, rows) ==
    IF \A k \in DOMAIN rows : Loads(table, rows[k])
    THEN [ok |-> TRUE, value |-> [k \in DOMAIN rows |-> RecordOf(table, rows[k])]]
    ELSE [ok |-> FALSE]

(* delivered_signal_keys_since, pushed_memory_ids: one column of each row.  *)
Gathered(rows, column) ==
    IF \A k \in DOMAIN rows : rows[k][column] # Damaged
    THEN [ok |-> TRUE, value |-> UNION {rows[k][column].value : k \in DOMAIN rows}]
    ELSE [ok |-> FALSE]
=================================================================================
