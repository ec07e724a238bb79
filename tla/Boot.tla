--------------------------------- MODULE Boot ----------------------------------
(***************************************************************************)
(* The life of a server process: main.rs, from the environment it reads    *)
(* (config.rs) through the migration of a database that other processes    *)
(* share (storage/sqlite.rs), the construction of the server, to the calls *)
(* it answers (server.rs, server/correctives.rs) and its end.              *)
(*                                                                         *)
(* There is one process per harness session, and nothing keeps two of them *)
(* from booting at once or one from being killed between two statements.   *)
(***************************************************************************)
EXTENDS Naturals, Sequences, Functions, Routing

CONSTANTS
    Processes,      \* the server processes
    Environments,   \* the environments they may be started in
    Memories,       \* the memories there may be
    CallEfforts,    \* the efforts a call may ask for
    MaxLaunches     \* bound: boots, of any process

ASSUME BootAssumption ==
    /\ CallEfforts \subseteq Efforts \cup {NoEffort}
    /\ MaxLaunches \in Nat
    /\ \A e \in Environments :
        /\ e.voyage \in {"unset", "blank", "set"}
        /\ e.brave \in {"unset", "blank", "set"}
        /\ e.root \in {"unset", "blank", "missing", "set"}

(* The columns that features after the first release added, in the order    *)
(* in which each table's migration looks for them.                          *)
Additions ==
    [memories |-> <<"status", "replaced_by", "last_reinforced_at">>,
     invocation_records |-> <<"models", "usage_by_model", "depth", "effort", "passes">>]
ColumnsOf(table) == Range(Additions[table])
AllColumns == ColumnsOf("memories") \cup ColumnsOf("invocation_records")

Precedes(c, d) ==
    \E table \in DOMAIN Additions : \E i, j \in DOMAIN Additions[table] :
        i < j /\ Additions[table][i] = c /\ Additions[table][j] = d

VARIABLES
    env,        \* the environment (fixed)
    columns,    \* the added columns the database has
    memories,   \* the memories stored
    unstamped,  \* those whose last_reinforced_at is ''
    phase,      \* where each process stands
    todo,       \* the columns its PRAGMA found missing and it has yet to add
    added,      \* added_reinforced
    launches,   \* processes started so far
    ending,     \* how it ended
    row,        \* the call it answers: who completes it and whom its record names
    stamping,   \* history: those between the ALTER of last_reinforced_at and its backfill
    cut         \* history: a process ended there

vars == <<env, columns, memories, unstamped, phase, todo, added, launches, ending, row, stamping, cut>>

Phases == {"off", "opening", "memories", "altering", "invocations", "extending",
           "building", "serving", "answering", "over"}
Endings == {"none", "configuration", "storage", "duplicate", "construction", "telemetry",
            "transport", "done", "killed"}
NoRow == [tool |-> "none"]
-----------------------------------------------------------------------------
(* Config::from_env.  A capability key that is blank counts as absent, any  *)
(* other setting that does not parse or is out of range stops the boot.     *)
Configured(setting) == setting \notin {"unset", "blank"}

CredentialsValid(e) ==
    CASE e.backend = "anthropic" -> Configured(e.key)
      [] e.backend = "openai_compat" ->
            /\ Configured(e.key) \/ e.base # "default"
            /\ e.default # ""
      [] OTHER -> FALSE

ConfigValid(e) == CredentialsValid(e) /\ NamespacesValid(e.models, e.efforts) /\ e.scalars = "valid"

(* The gate of observability.rs: OTEL_SDK_DISABLED wins over an endpoint    *)
(* that does not parse.                                                     *)
TelemetryFails(e) == e.otel = "malformed"

MemoryTools == {"save", "recall", "forget", "surface"}
Correctives == {"verify", "unstick", "diverge", "decide", "elicit", "check"}
CheckpointTools == {"checkpoint_action", "checkpoint_batch", "checkpoint_turn"}

(* with_capabilities: the routes of a capability that is off are removed.   *)
Catalog(e) ==
    Correctives \cup CheckpointTools
    \cup (IF Configured(e.voyage) THEN MemoryTools ELSE {})
    \cup (IF Configured(e.brave) THEN {"research"} ELSE {})
    \cup (IF Configured(e.root) THEN {"grounded_verify"} ELSE {})

(* The call site of a tool that has one.                                    *)
Site(tool) ==
    CASE tool = "verify" -> "VERIFY" [] tool = "unstick" -> "UNSTICK"
      [] tool = "diverge" -> "DIVERGE" [] tool = "decide" -> "DECIDE"
      [] tool = "elicit" -> "ELICIT" [] tool = "check" -> "CHECK_TRANSLATE"
      [] tool = "grounded_verify" -> "GROUNDED_VERIFY"

ResearchSites == {"RESEARCH_SCOPE", "RESEARCH_EXTRACT", "RESEARCH_VERIFY", "RESEARCH_SYNTHESIZE"}
Embedder == "voyage"

(* The *_with_ct wrappers: the model the record of a call is attributed to, *)
(* known before the call runs.  `verifying` is save_runs_verification.      *)
Attributed(e, tool, verifying) ==
    CASE tool \in Correctives \cup {"grounded_verify"} -> ModelFor(e, Site(tool))
      [] tool = "save" /\ verifying -> ModelFor(e, "VERIFY")
      [] tool \in MemoryTools /\ ~(tool = "save" /\ verifying) -> Embedder
      [] tool = "research" -> ModelFor(e, "RESEARCH_SCOPE")
      [] tool = "checkpoint_action" /\ Configured(e.voyage) -> Embedder
      [] tool \in CheckpointTools /\ ~(tool = "checkpoint_action" /\ Configured(e.voyage)) ->
            ModelFor(e, "CHECKPOINT_REVIEW")

(* The clients whose completions may be part of a call.                     *)
Clients(e, tool, verifying, effort) ==
    CASE tool \in Correctives \cup {"grounded_verify"} ->
            {ForSiteWithEffort(e, Site(tool), effort)}
      [] tool = "save" -> {ForSite(e, "VERIFY")}
      [] tool = "research" -> {ForSite(e, site) : site \in ResearchSites}
      [] tool = "checkpoint_turn" -> {ForSite(e, "CHECKPOINT_REVIEW")}
      [] OTHER -> {}

(* Whether text is embedded in the course of a call.                        *)
Embeds(e, tool) ==
    Configured(e.voyage) /\ tool \in {"save", "recall", "surface", "elicit",
                                      "checkpoint_action", "checkpoint_turn"}
-----------------------------------------------------------------------------
TypeOK ==
    /\ env \in Environments
    /\ columns \subseteq AllColumns
    /\ memories \subseteq Memories
    /\ unstamped \subseteq memories
    /\ phase \in [Processes -> Phases]
    /\ todo \in [Processes -> SUBSET AllColumns]
    /\ added \in [Processes -> BOOLEAN]
    /\ launches \in 0..MaxLaunches
    /\ ending \in [Processes -> Endings]
    /\ stamping \subseteq Processes
    /\ cut \in BOOLEAN

(* The columns a database of each release has, the first to the current.    *)
Releases ==
    {{}} \cup {ColumnsOf("memories") \cup {Additions.invocation_records[i] : i \in 1..k} : k \in {0, 2, 3, 5}}

Init ==
    /\ env \in Environments
    /\ columns \in Releases
    /\ memories \in SUBSET Memories
    /\ unstamped = {}
    /\ phase = [p \in Processes |-> "off"]
    /\ todo = [p \in Processes |-> {}]
    /\ added = [p \in Processes |-> FALSE]
    /\ launches = 0
    /\ ending = [p \in Processes |-> "none"]
    /\ row = [p \in Processes |-> NoRow]
    /\ stamping = {}
    /\ cut = FALSE

Goto(p, next) == phase' = [phase EXCEPT ![p] = next]

(* The process is gone, whatever it was doing.                              *)
Exit(p, how) ==
    /\ Goto(p, "over")
    /\ ending' = [ending EXCEPT ![p] = how]
    /\ row' = [row EXCEPT ![p] = NoRow]
    /\ cut' = (cut \/ p \in stamping)
    /\ stamping' = stamping \ {p}

database == <<columns, memories, unstamped>>

Launch(p) ==
    /\ phase[p] \in {"off", "over"} /\ launches < MaxLaunches
    /\ launches' = launches + 1
    /\ added' = [added EXCEPT ![p] = FALSE]
    /\ IF ConfigValid(env)
       THEN Goto(p, "opening") /\ ending' = [ending EXCEPT ![p] = "none"]
       ELSE Goto(p, "over") /\ ending' = [ending EXCEPT ![p] = "configuration"]
    /\ UNCHANGED <<env, database, todo, row, stamping, cut>>

(* The parent directory, the connection and the CREATE TABLE IF NOT EXISTS  *)
(* statements, which repeat what an earlier boot may have done.             *)
Open(p) ==
    /\ phase[p] = "opening"
    /\ Goto(p, "memories")
    /\ UNCHANGED <<env, database, todo, added, launches, ending, row, stamping, cut>>

(* PRAGMA table_info, then one ALTER TABLE for each column it did not list. *)
Inspect(p, at, table, next) ==
    /\ phase[p] = at
    /\ todo' = [todo EXCEPT ![p] = ColumnsOf(table) \ columns]
    /\ Goto(p, next)
    /\ UNCHANGED <<env, database, added, launches, ending, row, stamping, cut>>

InspectMemories(p) == Inspect(p, "memories", "memories", "altering")
InspectInvocations(p) == Inspect(p, "invocations", "invocation_records", "extending")

(* The column that is next: those the PRAGMA did not list, in their order.   *)
IsNext(p, c) == c \in todo[p] /\ \A d \in todo[p] : ~Precedes(d, c)

(* The rows there are get the column's default; `last_reinforced_at` has to *)
(* be stamped.                                                              *)
AddColumn(p, c, reinforced) ==
    /\ columns' = columns \cup {c}
    /\ unstamped' = IF c = "last_reinforced_at" THEN memories ELSE unstamped
    /\ added' = [added EXCEPT ![p] = @ \/ reinforced]
    /\ todo' = [todo EXCEPT ![p] = @ \ {c}]
    /\ stamping' = IF c = "last_reinforced_at" THEN stamping \cup {p} ELSE stamping
    /\ UNCHANGED <<memories, phase, ending, row, cut>>

(* Defect: a database that already has `status` is taken to be backfilled.  *)
AlterTrackingStatus(p) ==
    /\ phase[p] \in {"altering", "extending"}
    /\ \E c \in todo[p] :
        /\ IsNext(p, c)
        /\ IF c \in columns
           THEN Exit(p, "duplicate") /\ UNCHANGED <<database, todo, added>>
           ELSE AddColumn(p, c, c = "status")
    /\ UNCHANGED <<env, launches>>

(* ALTER TABLE ... ADD COLUMN: it fails when another process added the      *)
(* column since the PRAGMA.                                                 *)
Alter(p) ==
    /\ phase[p] \in {"altering", "extending"}
    /\ \E c \in todo[p] :
        /\ IsNext(p, c)
        /\ IF c \in columns
           THEN Exit(p, "duplicate") /\ UNCHANGED <<database, todo, added>>
           ELSE AddColumn(p, c, c = "last_reinforced_at")
    /\ UNCHANGED <<env, launches>>

(* The UPDATE that stamps the rows, by the process that added the column.   *)
Backfill(p) ==
    /\ phase[p] = "altering" /\ todo[p] = {}
    /\ unstamped' = IF added[p] THEN {} ELSE unstamped
    /\ Goto(p, "invocations")
    /\ stamping' = stamping \ {p}
    /\ UNCHANGED <<env, columns, memories, todo, added, launches, ending, row, cut>>

Migrated(p) ==
    /\ phase[p] = "extending" /\ todo[p] = {}
    /\ Goto(p, "building")
    /\ UNCHANGED <<env, database, todo, added, launches, ending, row, stamping, cut>>

(* Any statement of the boot may fail: the disk, a lock that is not freed.  *)
StatementFails(p) ==
    /\ phase[p] \in {"opening", "memories", "altering", "invocations", "extending"}
    /\ Exit(p, "storage")
    /\ UNCHANGED <<env, database, todo, added, launches>>

(* Parallax::new, telemetry, transport: a root that does not resolve or an  *)
(* endpoint that does not parse stops the boot here, after the migration.   *)
Build(p) ==
    /\ phase[p] = "building"
    /\ IF env.root = "missing" THEN Exit(p, "construction")
       ELSE IF TelemetryFails(env) THEN Exit(p, "telemetry")
       ELSE \/ Exit(p, "transport")
            \/ Goto(p, "serving") /\ UNCHANGED <<ending, row, stamping, cut>>
    /\ UNCHANGED <<env, database, todo, added, launches>>

(* A tool of the catalog is called.                                         *)
Answer(p) ==
    /\ phase[p] = "serving"
    /\ \E tool \in Catalog(env), verifying \in BOOLEAN, effort \in CallEfforts :
        /\ verifying => tool = "save"
        /\ effort # NoEffort => tool \in Correctives \cup {"grounded_verify"}
        /\ row' = [row EXCEPT ![p] =
                    [tool |-> tool, verifying |-> verifying, effort |-> effort,
                     attributed |-> Attributed(env, tool, verifying),
                     clients |-> Clients(env, tool, verifying, effort),
                     embeds |-> Embeds(env, tool)]]
    /\ Goto(p, "answering")
    /\ UNCHANGED <<env, database, todo, added, launches, ending, stamping, cut>>

(* The call ends; a save may have stored a memory, a forget deleted one.    *)
Replied(p) ==
    /\ phase[p] = "answering"
    /\ memories' \in {memories}
         \cup (IF row[p].tool = "save" THEN {memories \cup {m} : m \in Memories} ELSE {})
         \cup (IF row[p].tool = "forget" THEN {memories \ {m} : m \in Memories} ELSE {})
    /\ unstamped' = unstamped \cap memories'
    /\ Goto(p, "serving")
    /\ row' = [row EXCEPT ![p] = NoRow]
    /\ UNCHANGED <<env, columns, todo, added, launches, ending, stamping, cut>>

(* The transport closes and telemetry is flushed, or the process is killed. *)
Shutdown(p) ==
    /\ phase[p] = "serving"
    /\ Exit(p, "done")
    /\ UNCHANGED <<env, database, todo, added, launches>>

Killed(p) ==
    /\ phase[p] \notin {"off", "over"}
    /\ Exit(p, "killed")
    /\ UNCHANGED <<env, database, todo, added, launches>>

Boots(p) ==
    \/ Open(p) \/ InspectMemories(p) \/ Alter(p) \/ Backfill(p)
    \/ InspectInvocations(p) \/ Migrated(p) \/ StatementFails(p) \/ Build(p)

Next == \E p \in Processes : Launch(p) \/ Boots(p) \/ Answer(p) \/ Replied(p) \/ Shutdown(p) \/ Killed(p)

Spec == Init /\ [][Next]_vars
-----------------------------------------------------------------------------
(* load_memories parses the timestamp of every row: one that is '' fails    *)
(* the load, and with it recall, surface, consolidation and the gate.       *)
Readable == unstamped = {}

(* The migration is sound, whatever boots side by side: a process serves on *)
(* a complete schema, no memory it saves is left without its timestamp, and *)
(* the store is unreadable only between the ALTER and the backfill of a     *)
(* boot, or because a boot ended there.                                     *)
MigrationIsSound ==
    /\ \A p \in Processes : phase[p] \in {"serving", "answering"} => columns = AllColumns
    /\ ~Readable => cut \/ stamping # {}

(* Only the boot that added last_reinforced_at stamps the rows: once none   *)
(* is about to, those that have no timestamp keep none, whoever boots, for  *)
(* a later PRAGMA lists the column.                                         *)
WoundsStay ==
    [][stamping = {} /\ "last_reinforced_at" \in columns =>
        stamping' = {} /\ unstamped' = unstamped \cap memories']_vars

(* A boot fails on a column that is there already only when there is        *)
(* another process.                                                         *)
AloneNeverDuplicates ==
    (\A p, q \in Processes : p = q) => \A p \in Processes : ending[p] # "duplicate"

(* Calls are served as configured: the capability of the tool is on, and a  *)
(* tool whose record names one model is completed by that model, at the     *)
(* effort asked for or, when none was, the one routed to its site - or at   *)
(* none, on the backend that documents effort as a no-op.                   *)
ServedAsConfigured ==
    \A p \in Processes : phase[p] = "answering" =>
        LET call == row[p]
            site == IF call.tool = "checkpoint_turn" THEN "CHECKPOINT_REVIEW" ELSE Site(call.tool)
        IN  /\ call.tool \in MemoryTools => env.voyage = "set"
            /\ call.tool = "research" => env.brave = "set"
            /\ call.tool = "grounded_verify" => env.root = "set"
            /\ call.verifying => \A client \in call.clients : client[1] = call.attributed
            /\ call.tool \in Correctives \cup {"grounded_verify", "checkpoint_turn"} =>
                  LET wanted == IF call.effort = NoEffort THEN EffortFor(env, site) ELSE call.effort
                  IN  call.clients = {<<call.attributed,
                                        IF env.backend = "anthropic" THEN wanted ELSE NoEffort>>}

-----------------------------------------------------------------------------
(* Two sentences of the source that the code does not meet.                 *)

(* "last_reinforced_at backfills to created_at" (sqlite.rs): a server reads *)
(* the memories it has.                                                     *)
MemoriesAreReadable == \A p \in Processes : phase[p] = "answering" => Readable

(* "the eleven single-model tools run exactly one" (server.rs): every token *)
(* of a record is of the model it names.                                    *)
OneModelPerRecord ==
    \A p \in Processes : phase[p] = "answering" /\ row[p].tool # "research" =>
        {client[1] : client \in row[p].clients} \cup (IF row[p].embeds THEN {Embedder} ELSE {})
            \subseteq {row[p].attributed}
=============================================================================
