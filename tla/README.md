# A formal model of mcp-parallax

TLA+ modules, TLC runs and TLAPS proofs about
[mcp-parallax](https://github.com/quanticsoul4772/mcp-parallax), an MCP server over stdio
whose tools verify claims, run deterministic checks, keep memories, do research and review a
session's trajectory from the harness's hooks. Paths below are relative to `src/`
(so `src/server.rs` is `src/src/server.rs` of this tree).

The server is one process on a multi-threaded tokio runtime. Every tool call is a future; calls
run concurrently and share one SQLite pool, the provider clients, the per-host locks of the
fetcher, and nothing else. There is no transaction anywhere above a single SQL statement, and
several processes may share the database. So what can go wrong between two calls goes wrong
through the tables: a row or a memory is read, the future awaits a provider or another statement,
and then writes what it decided. A request may be cancelled, or its future dropped, at any await.
Inside one call there is concurrency of another kind, fan-outs of provider calls over one meter;
and between the awaits there is a good deal of pure code whose inputs come from a model, a
harness or a web page. The modules fall into these three groups.

## 1. Inventory

| Component | State it keeps | Operations | Correct when |
|---|---|---|---|
| Invocation recording (`server/record.rs`, `server.rs` `run_recorded*`) | the guard's `done` flag, the `invocation_records` table | build a guard, race the work against the token, `finish`, `drop` with a detached writer | a call leaves at most one row and one publication, whatever ends it; a missing row has a cause; a row agrees with the reply and bills no more than was spent |
| Checkpoint evaluations (`checkpoint/run.rs`, `gate.rs`, `preference.rs`, `review.rs`, `mod.rs`) | `checkpoint_records`, `consolidation_records` (capture rows), memories | `run_batch`, `run_action`, `run_turn`: read, recall, review, capture, cooldown, one audit row, fail open | the answer is in the trail; the cooldown is respected and never feeds itself; nothing retired is enforced; the capture cap holds; the pairs put to the review are fair; the hook is always answered |
| Checkpoint screening, trajectory reader (`checkpoint/screen.rs`, `trajectory.rs`) | none | tail a JSONL transcript, parse it, detect repetition and repeated failure | no flag that the whole transcript does not bear out, however little of it was read |
| Memory tools (`memory/tools.rs`, `consolidate.rs`) | `memories`, `consolidation_records` | `save` with admission-time consolidation, `recall`, `forget` | trust guard; retirements go forward; the audit trail explains the store; no memory returns; an answered save is stored |
| Prompt-time push (`memory/push.rs`) | `push_records` | `surface` | only trusted, live memories; once per session; fails open |
| Memory ranking (`memory/ranking.rs`) | none | decay, trust bonus, top-k | a total order that the order of rows does not sway |
| SQLite storage (`storage/sqlite.rs`) | all tables | one statement per operation, column migrations at boot, lists that parse rows back | a crash or a second boot between two statements of the migration is harmless; a row reads back as written, or its list fails |
| Research pipeline (`research/*`) | within a call: the token meter, the latched ceiling, a semaphore | scope, search, fetch, extract, verify, synthesize, ground | nothing starts past the ceiling and the overshoot is bounded; the stop reason, the counts and the figures are honest; every citation is of a source that was fetched; the run ends |
| Research fetcher (`research/fetch.rs`) | per-host locks and stamps, the robots cache | fetch with redirects | a host is asked one request at a time, spaced; a denied host never; no deadlock |
| Model clients (`client/anthropic.rs`, `openai_compat.rs`), embedding and search clients (`voyage.rs`, `brave.rs`) | none: the connection pool is reqwest's, with no semaphore above it | `complete`, `embed_*`, `search` with bounded retry; the response-format ladder | billed failures carry usage; no answer, timeout or unreadable body is retried; both wire formats are read alike; the call ends |
| Client pool, routing and effort (`client/pool.rs`, `routing.rs`) | clients by model and effort, fixed at boot | which client answers a site | the one the configuration names |
| Correctives (`modes/*`, `server/correctives.rs`) | none | ensembles of parallel passes, aggregation, single passes with assembly | quorum and confidence; a computation is not voted on; what is returned is computed from the whole answer; every billed token is reported |
| Grounded verification (`modes/grounded_*`, `grounded/*`) | none | resolve locators and globs, read, assemble under ceilings, verify or compute | the evidence is what was named, all of it, or the call fails |
| Deterministic check (`deterministic/*`) | none | translate, validate, solve, retry once with feedback | the engine's answer about the whole script, never the model's |
| Configuration and its documents (`config.rs`, `config_facts/*`) | fixed at boot | parse the environment; cross-check `--help` and the table with the source | a document that passes the checks states the defaults that are applied |
| Schemas (`schema/*`) | none | sanitize for the wire, validate the answer | the grammar admits every complete answer |
| Errors, metering (`error.rs`, `telemetry.rs`) | the usage of a call | add, merge, dominant model, `metered`, `billed`, `outcome` | the record does not depend on the order passes complete in |
| Observability, entry (`observability.rs`, `main.rs`) | exporter buffers | publish; boot and exit | pure I/O, but for the boot |

How they interact: `server.rs` wraps every tool in the recorder; a tool calls a mode, a mode calls
clients through the pool, and usage comes back up that chain as a return value or on an error.
`checkpoint_turn` reads and writes the same `memories` table as `save` and `forget`; captures are
counted in the audit table that consolidation writes; `surface` and the gate rank the memories that
consolidation retires. Only the recorder, the checkpoint layer, the memory layer, the fetcher and the
boot hold state that outlives a call. The research pipeline is concurrent inside one call: its
sources, then its claims, are futures of one task over one meter, one ceiling and one semaphore, and
its verifications are the panel that `verify` runs.

Hard behaviours, by component, are the `hazards` of `PROJECT.json`, each at its line with the
properties that watch it.

## 2. Modules

Modules of processes, one action per stretch of code between two awaits, named after the call it
returns from:

| Module | Models | State variables and the code they stand for |
|---|---|---|
| `RecordLedger` | what the recorder promises: a ledger in which each call settles once, with an outcome or as missing | `ledger` |
| `InvocationRecord` | `RecordGuard`, `run_recorded_usage`, the detached writer, process exit | `phase` (where the future stands: `finishing` = inside `finish()`, i.e. `done` is set), `ct` (token), `spent`/`record` (usage), `backstop` (the spawned task), `published` (tracing + telemetry), `rows` (table), `reply`, `runtime`; `loss` is history |
| `Checkpoint` | the three boundaries, from hook to audit row | `pc`/`ev` (await and locals of each evaluation), `rows` (`checkpoint_records`), `store`, `captures`/`audited`, `clock`; `retired` and the fields `base`, `counted`, `readAt`, `spent` of `ev` are history |
| `Memory` | `save` with consolidation, `forget`, `surface` | `pc`/`op` (saves), `memories`, `audit`, `ppc`/`push` (pushes), `pushed`, `band` (the cosine of each pair, fixed); `forgotten`, `unaudited` are history |
| `Research` | one run of `research/pipeline.rs`, with the ensemble of `modes/verify.rs` and the gate | `phase`, `tripped` (`Ceiling::tripped`), `late` (the deadline), `metered` (`RunMeter`), `permits` (the semaphore), `src`/`clm` (where each fetch and verification stands), `yield`, `dropped`, `attempt`, `result`; `spent` is history |
| `ProviderCall` | what a client promises: a call settles once, to an answer or an error, and reports no more than it was charged | `charged`, `reply` |
| `Client` | the four adapters: retry loop, ladder, both wire formats, the usage told | `phase`, `rung`, `attempt`, `reply`, `sent`, `charged`; `rejected`, `meant`, `lost` are history |
| `Corrective` (over `Panel`) | a call of each corrective: its passes, in any order of completion, and what it makes of them | the passes, the call's phase and result; what the provider charged is history |
| `Fetch` | `fetch()`: every hop, its guards, the host lock and stamp, robots.txt, the capped body | where each fetch stands, lock holders, the robots cache; requests out are history |
| `Boot` (over `Routing`) | two processes over one database: connect, migrate, build the pool, serve, exit, be killed | the columns and backfill of the table, the phase and configuration of each process |

Modules of pure code, operators over data, no state:

| Module | Models |
|---|---|
| `Panel` | quorum, majority, agreement on a computation, de-duplication (`modes/verify.rs`, `diverge.rs`, `grounded_compute.rs`) |
| `Routing` | call sites, tiers, namespaces and effort (`routing.rs`) |
| `Screening` | transcript tail, parser, both detectors |
| `Evidence` | locators, ceilings, assembly; the excerpt of a page (`grounded/*`, `research/evidence.rs`) |
| `Globs` | the translation of a pattern and its meaning, and expansion (`grounded/glob/*`) |
| `Review` | mining of candidate pairs and preferences, the constraint hold, the review's answer mapped back (`checkpoint/review.rs`, `gate.rs`, `preference.rs`) |
| `Decisions` | what `decide`, `elicit`, `unstick` assemble; the validation of a translation and the solver's reading of it |
| `Outcomes` | a research run between its calls: settings, plan, candidates, citations, confidence, the published figures |
| `Prompts` | the templates as slots, how each mode fills them, and what input each tool accepts |
| `Ranking`, `Metering`, `Schemas`, `Rows`, `Facts` | `memory/ranking.rs`; `telemetry.rs`; `schema/*`; the rows of `storage/sqlite.rs`; `config_facts/*` with the checks of `main.rs` |
| `Sorting` | the library's sorts, maxima and filters, with their ties |
| `Algorithms` | composes them: an input of one kind grows an element at a time (a line of a transcript, a locator, a token of a pattern, a gap of a synthesis), and every property is checked of every input on the way |
| `GroundedEvidence` | `Algorithms` with the locators of `grounded/*` and the patterns of `Globs`; kept apart because `Globs` is recursive, which the prover does not accept |

`..._proofs` hold the theorems of a module, `MC...` the sets a run instantiates it with.

`pc` or `phase` says which await a future is suspended at, so interleaving at every await is exactly
what TLC explores. Where a statement may be in flight when its future is dropped, the drop has two
outcomes: the statement reached the database or it did not (`AbandonInFinish`, `Dropped`,
`SaveDropped`, `PushDropped`).

The components meet at what they return. What a `Client` call reports is the usage a pass of
`Corrective` carries; what a corrective reports, or `Checkpoint` calls `metered`, or `Research`
calls `result.reported`, is the usage `WorkSucceeds` of `InvocationRecord` records (`told`, any part of what was spent), with the
per-model figures `Metering` takes from it, in the row `Rows` writes. They are not composed in one
state space, because each reads nothing of the one below but that value. `ProviderCall` and
`RecordLedger` say so: they are abstract specifications the detailed modules implement.
`ProviderCall` is implemented by `Client`, by `Corrective` and by `Research`, so the recorder may take
from a corrective or a run what these take from a client; `RecordLedger` by the recorder and by the
audit trail of `Checkpoint`, the two tables to which each call adds its row last.

### Abstractions

- Memories, keys, kinds, hosts, models and statements are model values or members of small sets. A
  signal key is a kind and an identity (`Signal::new` hashes the identity under its kind; collisions of
  the 64-bit hash are left out). A text is a short sequence over an alphabet that has what the code
  tells apart.
- Cosine similarity is a fixed band per pair in `Memory`: `twin` (at or above `MERGE_SCREEN_TAU`), `near`
  (at or above `SUPERSEDE_SCREEN_TAU`), `far`; in `Ranking` it is a number, of which only the order and
  the trust bonus matter. Relevance floors choose any subset of what the filters admit.
- Decay and reinforcement clocks matter to `Ranking` only; elsewhere they move scores, and scores are free.
- The wall clock is one counter and never goes back (`SystemTimeProvider` reads the system clock;
  a clock set back only lengthens a cooldown).
- What a model says, what an engine answers and what a page holds are inputs.
- In `Research`, tokens are counted in units, 1 to `MaxCall` a call. The deadline is a flag that rises at
  any time. Claims are numbered in the order of `claim_key`, the order the `BTreeMap` gives them. The
  semaphore is first come, first served (tokio's is). A verification is one step from its probe to its
  end: the passes of an ensemble share no state, and the claim meters all of them at once when it ends.
- Figures that are floating-point in the code are fractions; the code's rounding is not modelled.
- When an evaluation ends its locals are cleared, apart from what properties read. This merges
  states that differ only in dead values.

## 3. Runs

| Run | Instance | Checks |
|---|---|---|
| `invocation_record` | two calls, one failure class, one billed unit each | `RecordsAreTrue` (never two rows; one measurement to both sinks; a missing row has a cause; the row agrees with the reply and bills no more than was spent), refinement `SettlesOnce` of `RecordLedger` |
| `checkpoint_memory` | two overlapping evaluations, every boundary, memory on | `AnswerIsHonest`, `EnforcesLiveConstraints`, `CaptureOverrunHasACause`; liveness `EvaluationEnds` |
| `checkpoint_cooldown` | three turn evaluations of one session, clock 0..2, window 1, no memory | `CooldownIsFair` |
| `memory_consolidation` | a standing memory and two saves, two kinds, close bands, with forgets | `RetirementsAreSound`, `AuditExplainsStore`, `SavesAreKept`, `NothingReturns` |
| `memory_push` | two pushes of one session, one standing memory, one save, forgets | `PushIsSound` |
| `research` | two candidates, three claims, two permits, three passes a claim, budget 4, calls of one unit | `OvershootBounded`, `ResultIsHonest`, `StepsAreLawful`; liveness `RunEnds` |
| `client` | a call through each adapter at every structured-output setting | `UsageSurvives`, `AdaptersAgree`, `RequestsAreEarned`; refinement `KeepsPromise` of `ProviderCall`; liveness `CallEnds` |
| `corrective` | a call of each corrective with up to three passes | `BillingIsExact`, `VerdictIsBacked`, `ComputationIsNotVoted`, `PerspectivesSpan` |
| `fetch` | two fetches, two hosts with locks (one of them two origins) and a denied one, one redirect each | `HostsAreSpared`; liveness `FetchEnds` |
| `boot` | two processes, one database of any release | `MigrationIsSound`, `ServedAsConfigured` |
| `algorithms` | every input of twenty-one kinds up to its bound | `FlagsMatchTranscript`, `EvidenceIsFaithful`, `GrammarAdmitsAnswers`, `RecallIsLawful`, `MetersCommute`, `CandidatesAreFair`, `AnswersAreComputed`, `PromptsAreVerbatim`, `DocumentsAreTrue`, `RowsRoundTrip` |
| `memory_mutual_merge` | two overlapping saves of one assertion | reaches a counterexample to `OneCanonicalActive` |

What they show. The recorder: a call leaves one row or has lost it to a drop inside `finish`, a refused
write or the exit, and never two, and what the row says agrees with the reply. The checkpoint layer: an answer the trail does not hold is never
given, the cooldown holds between evaluations that do not overlap, and the capture cap is overrun only
by captures that missed each other or went unaudited. The memory layer: retirements go forward
and keep trust on merges, a forgotten memory is gone, a lone save never empties the store. Research:
the overshoot is at most what the units in flight may cost, and the counts, the latch and the
citations of a partial result agree with what happened. The clients: what is told is at most
what was charged, and less only for a cause; nothing is sent again after an answer, a timeout or a body
that could not be read, while what a reset connection had cost is paid again and entered as lost; a swap
of backend does not change what is recorded. The correctives: the panels' verdicts, and exactly what
of the charges is lost. The fetcher: hosts are asked one at a time and the locks never form a
cycle. The boot: whoever else
boots or dies, a process serves on a complete schema, and a row is without its timestamp only inside a
migration or after one that ended half way. The algorithms: each
against a reference reading that is not written the way the code is.

### Sentences of the repository the code does not meet

Each is stated as a definition next to the properties that do hold. One of them is a run
(`memory_mutual_merge`); the others can be put in a `.cfg` in its place.

| Definition | The sentence | What the code does |
|---|---|---|
| `Memory.OneCanonicalActive` | twins merge into one canonical active record (`specs/017-memory-consolidation/spec.md`, FR-004) | two overlapping saves retire each other |
| `InvocationRecord.ExactlyOneRow` | every path leaves exactly one record (`src/server.rs:949-951`) | `finish` sets `done` before it awaits the write; dropped there, a call has no backstop |
| `Checkpoint.NeverRedelivered` | a delivered flag is not re-delivered within its window (`specs/006-checkpoint-layer/spec.md:228`) | two overlapping evaluations read the window before either writes its row |
| `Checkpoint.FailOpenCarriesSpend` | whatever the boundary spent before it failed is carried (`src/checkpoint/run.rs:472-475`) | a failed `load_memories` after a billed embedding, or a failed cooldown read after a billed review, returns an error that was never metered |
| `Memory.TrustedKeptFromUntrusted` | untrusted against trusted keeps both regardless of relation (`specs/017-memory-consolidation/tasks.md:55`) | the guard is on the merge; an `updates` judgment supersedes |
| `Memory.FailureKeepsBoth` | any consolidation failure keeps both (`src/memory/tools.rs:141-142`) | a failed audit write (`tools.rs:354`) comes after the status write |
| `Corrective.EveryTokenAttached` | the tokens of every pass are attached (`src/modes/verify.rs:365-386`) | passes that failed beside a quorum, and completions that fail local validation, are not |
| `Boot.MemoriesAreReadable` | the reinforcement column is backfilled (`src/storage/sqlite.rs:214-217`) | between the two statements a killed or second process leaves rows that a list cannot read |
| `Algorithms.ExtractionMissesNothing` | the extraction check fails if it found fewer variables than the source contains (`src/config_facts/mod.rs:275`) | a statement with `.ok()`, `.is_ok()` or `.map_err(` is taken to supply no default (`source.rs:445-449`), so `.ok().map_or(5, ..)` is seen by neither scan |
| `Boot.OneModelPerRecord` | one model per record (`src/server.rs:781-782`, `1014-1019`) | sites routed to several models share a record |

Further divergences, met while the pure modules were written and excluded from their properties by an
explicit condition:

- *Globs*. A pattern that opens with `!(p)` is read as the negation of the whole pattern
  (`specs/009-glob-locators/spec.md:114`); `[!a]` matches `/`; groups may cross `/`; an `!(p)`
  inside a group ignores the text after the group (`Globs.Plain`).
- *Prompts*. Modes that fill slots one after the other fill in a later slot's name wherever an
  earlier text spells it, so the prompt is neither verbatim nor bounded by `INPUT_MAX_CHARS`; the
  modes that locate their slots first do not. Evidence and recalled preferences are not counted.
- *Translations*. `( reset` with white space passes the validator; the count of assertions catches it
  unless it is the last form that matters (`ScriptIsWhole`).
- *Review*. `max_by_key` takes the last of the candidates whose echo fits equally; stored decisions come
  before transcript pairs and may crowd them out of the cap.
- *Recall*. A trusted preference outside the `RECALL_WIDE` best is crowded out by untrusted ones.
- *Rows*. One unreadable row fails the whole list; a token total past `i64::MAX` is one; an empty usage
  reads back as one model with zero.
- *Facts*. A bare constant whose own declaration is unreadable is looked up on in the next file
  (`config_facts/mod.rs:67-71` calls it unrepresentable; `unambiguous`); a fixture key that `parse_env`
  reads twice unbalances the count (`readable`); a read whose statement is a gate may supply a value further
  on (`noticed`), and is all that both scans can miss (`OnlyGatesHide`); a variable without a default is listed if its name is a substring of the document
  (`main.rs:478-482`), so the entry of a longer name lists it too (`apart`). A read of a name that is no
  literal is taken for the helper, and is not modelled.
- *Research*. A status is settled when no gap names its question, where `research/contract.rs:142` says no
  *retained* gap: gaps that the cap drops count, as `outcome.rs` explains. A page first found without a
  scheme takes the place of its other spellings and is then dropped as unparsable; a scheme in
  capitals is not stripped, and reads a page twice (`PagesAreDistinct`).
- *Fetch*. The spacing of a host is stamped once per turn of its lock: robots.txt and the page go back to back.

### Bounds and why they are enough

Two actors are enough for every pairwise race here, since each operation reads once and writes
once or twice: a third actor adds no new order of one reader and one writer. The cooldown run has
three evaluations because a *chain* (delivered, suppressed, delivered again) needs three.
`MaxTime = 2` and `Window = 1` put rows inside, on and outside the inclusive bound; the window of
the code is thirty minutes. `CaptureCap = 1` and `PushCap = 1` stand for 2 and 3, so that two actors
reach the cap. `MaxSpend = 1` tells a billed call from an unbilled one. One session is
enough: tables are filtered by session and sessions share nothing else. `memory_consolidation` takes
the bands `near` and `twin`; a pair that does not rival at all comes from two kinds, as `far`
would. `research` needs a claim that waits while two are judged, hence three claims over two permits, and
two sources to merge a claim, to lose one and keep one, and to tell `confirmed` from `unverified`. Three
passes are the fewest whose panels can be contested, refuted, supported, short of a quorum, and with a
quorum but for a failure. The scope call and two extractions cost three of the budget of four, so the
budget is reached in the midst of the verifications, by the first claims or the last, or never, and a
panel in flight overshoots it by up to three; the deadline may pass at any point, and is what cuts the
earlier phases.

`client` takes one call, as calls share nothing, and retries and charges small enough to reach both ends of
each loop. `corrective` likewise takes one call with every combination of passes. `fetch` takes
two hosts with locks, so that a fetch at either is redirected to the other, which is the shortest cycle of
locks; two origins of one of them, which share its lock and not its robots rules; and a denied host, which
is turned away before its lock; one redirect each is enough for both to cross; `boot` two processes for a boot inside another's migration.
`algorithms` bounds each kind of input by `MCMaxItems`, at the smallest length at which every branch of
its algorithm and a case on both sides of each of its thresholds occurs: transcripts of five lines hold
a streak, its reset and its ageing out, and a read that starts inside it; seven claims and gaps would
add nothing to five under a cap of three. Caps are scaled down with them (`MAX_GAPS` 3 for 10,
`CANDIDATES_MAX` 2, and so on) except where the value is itself the question: the tiers, the
limits and the budgets of `Outcomes` are the code's.

The actions of `algorithms` are symmetric model values (`ActionsAlike`): the detectors only compare them.
Sets of memories are strings, because liveness and the standing memory break symmetry. `CHECK_DEADLOCK FALSE`: every behaviour of a bounded instance ends when its
calls are over.

### Fairness

`FairSpec` says only that an await ends: provider requests carry a timeout and a bounded number of
retries (`Client` shows that `CallEnds`), the gate and the push carry a budget
(`tokio::time::timeout`), the pool serves or fails a statement, and a fetch is bounded in time.
Nothing is assumed about arrivals, cancellations, drops, admissions, the deadline or the clock. In
`Research` it says so of the pipeline, of each source and of each claim, and that a free permit goes to
the first future in the queue; in `Fetch`, that a waiter on a host lock gets it when it is free
(tokio's mutex is fair).

## 4. Proofs

`Records_proofs` proves, of `InvocationRecord`, every safety property of the recorder, for any set of calls,
failure classes and spend bound, from `InvocationAssumption` alone: `TypeCorrect`, `NeverTwoRows`,
`LossesHaveACause`, `TwoSinksAgree`, `RepliesAgree`, and `GuardSettlesOnce`, that the guard
implements `RecordLedger`. `AtMostOneRow` is not inductive: that the second write cannot happen
depends on who may still write. The invariant `IInv` adds that the record a call holds is its own
(`HoldsOwnRecord`), that a spawned writer belongs to a call whose future is gone
(`WriterIsDetached`), and that a stored row belongs to a call past both of its writers
(`RowsAreSettled`). `StepKinds` then sorts the steps as the ledger sees them: a step leaves it alone
(`Quiet`), settles a call to nothing (`Loses`) or to its row (`WritesRow`); the refinement and
`LossIsACause` follow from the three cases. For the sinks the steps are sorted differently
(`HandsOrKeeps`): a guard is handed over once, with its record and publication, and the record is
never touched again (`SinkInv`).

`Checkpoint_proofs` proves every safety property the two checkpoint runs check, from
`CheckpointAssumption` alone. The properties speak of rows,
which an evaluation writes last; what makes a row right was read before the awaits. So the
invariant carries the facts across them: `Good(e, p, l)` says what is true of evaluation `e`
suspended at `p` with locals `l` (nothing decided early, the bill so far, the recalled memories
live when it began, a flag fresh with respect to the rows it began over, each held-back key with a
row that caused it). `BegunInOrder` and `RowsAreOver` tie evaluations to the table. Two lemmas do
the work once: `EvaluationMoves` (a step to another await keeps the invariant if the evaluation is
good there) and `RowIsWritten` (the row inherits what was good); each action is then a short
argument about its own locals, and `EnvironmentStep` shows that clock, admissions and
retirements leave what is good good.

`CaptureOverrunHasACause` has an invariant of its own, `CaptureInv`: what an evaluation counted was
audited and never includes itself, the counts of a session nest (audit rows are only added), and whoever
captured had counted fewer than the cap. `StepViews` sorts the actions of an evaluation into three as the cap sees
them (`Starts`, `CaptureCounted`, `GoesOn`). If the captures of a session all saw one another, the one
that counted most counted all the others, so there are at most as many as the cap.

`TrailSettlesForGood` says that the trail implements `RecordLedger`: an evaluation is entered once,
with its verdict or as missing. `TrailStepKinds` sorts the steps by what they do to the trail
(`SettlesNothing`, `EndsWithoutRow`, `EndsWithRow`); `EntryStays` is why a row that another evaluation
appends changes no entry, and `AnswerIsAudited` why the entry of an evaluation is well defined.

`Memory_proofs` proves every property the two memory runs check, from `MemoryAssumption` alone. The
invariant has a half per component. `StoreInv`: a save that is past its insert has its row
(`RowIsItsSave`), knows only rivals that are older or overlap it (`RivalIsOlder`), holds a
judgment that passed the guard (`JudgmentIsGuarded`), and the store's retirements, the judgments
and the audit rows agree (`RetirementIsJudged`, `RowFollowsRetirement`, `AuditExplainsStore`).
`PushInv`: what a push selected was in the store it loaded, and no row it saw shows it. The `Frame`
lemma says a push step leaves the store half alone. `SerialSavesKeepAMemory` needs more, and only of
behaviours in which saves do not overlap: that the saves of standing memories are over
(`StandingIsOver`), and that a memory about to retire its rival is itself still active
(`RetirerIsActive`), so a retirement never takes the last active memory.

`Research_proofs` proves every safety property of the research run, for any number of candidates,
claims, permits and passes and any budget and cost of a call, from `ResearchAssumption` alone. The
meter's bound is not inductive: what matters is what the units in flight may still add. So the invariant
reserves it: `MeterBounded` says that the meter, plus a full panel for every permit out of the
semaphore, is within `Fanout`, and `PermitsAreHeld` that the permits out are as many as the units in
flight. A unit that begins has just probed a meter below the budget, which pays for its reserve; a unit
that ends gives back at least what it cost (`PanelCosts`). `TripHasACause` says that the latch was set
under a ceiling that still is passed, and that it is set iff work is marked as left undone. `Stages`
says what each barrier guarantees about the units of the phase before it; `ClaimsAreCounted`, that the
claims under way are the distinct claims, and what `dropped` counts at each barrier. `ResultIsKept`
says what the ending made of the latch and of the citations. `EndingBillsOnce` needs only the types: it
compares the two ends of the last step. `PromiseKept` says that a run implements `ProviderCall`. The
meter lags behind the bill, and parts of the bill never reach it, so the invariant adds that neither the
meter nor, once the run is over, what it reports exceeds what was spent (`Covered`); `StepSpends` is
the other half: a step adds the same to both, or more to the bill, and never more than a unit costs.

`Client_proofs` proves every safety property of the client run, and that the adapters implement
`ProviderCall` (`PromiseKept`), for any calls, mix of adapters, retry limit and charge, from
`ClientAssumption` alone. The invariant is one conjunction per call. While it is not over it has answered
nothing, and all it was charged was lost with a connection (`Unsettled`), which is why nothing answered
is sent again and why the answer that finally comes reports the rest of the bill (`Reported`). The requests sent are those of
the rungs left and the attempts of this one (`SentForAttempts`), and a rung was left only when it was
rejected (`OnLadder`). That the adapters agree (`Agreed`) is a fact about the two wire formats:
`AnthropicAgrees` and `OpenAiAgrees` go through the meanings a reply can have on each rung.

`Fetch_proofs` proves `HostsAreSpared`, for any fetches, hosts, redirects and spacing, from
`FetchAssumption` alone. That two fetches never reach one host at once depends on every
waiter standing in the queue of the host it is *now* at, and a redirect changes the host. So the invariant
says that the queue of a lock holds only fetches that asked for it and have not given it back, each once
(`QueueIsItsFetches`); that one on the wire heads that queue, passed the guard and, asking for a page,
knows the robots rules (`Guarded`); and that a robots file that was asked for is known or on its way to
one fetch (`AskedIsAwaited`). The lemmas `QueuesJoined`, `QueuesReleased`
and `QueuesStill` are the three things a step does to a queue. They also carry the two safety facts
`FetchEnds` rests on. `NobodyStranded`: whoever waits stands in the queue of the host it is at, behind
fetches at that same host, none of which waits elsewhere, so there is no cycle of waits though redirects
take fetches from host to host (`WaitersStand`: a place is held until the lock is given back).
`NobodyOvertaken`: a fetch stays ahead of those that queued after it until its turn is over
(`PlacesKept`: a release takes the head of the queue and no other).

`Boot_proofs` proves every property of the boot run, for any number of processes, environments,
memories and boots, from `BootAssumption` alone: that the efforts a call may ask for are efforts, and
that each capability's setting is unset, blank, set (or, of the root, missing). `MigrationIsSound` is not
inductive, because a process serves long after it looked at the schema. The invariant says what each
process knows of the schema on its way there (`KnowsColumns`: past the first table's ALTERs its columns
are there, and those the process has not yet to add are there while it adds them), and that a row
without a timestamp is owed to a process about to stamp it, or to one that ended there
(`StampingIsOwed`). Columns are never dropped, so what one process knows survives the steps of the
others (`OthersKept`), and each action is an argument about its own process. `WoundsAlwaysStay` is the
other half of the migration's promise, and why `Boot.MemoriesAreReadable` fails for good and not for a
while: only the boot that added the column stamps, so once no boot is about to, rows left without a
timestamp keep none. `AloneNoDuplicates` says that the duplicate column is a race and never a crash:
`FindsItMissing` holds of a process alone, and a restart reads the schema again. For
`ServedAsConfigured`, `SiteClient` and `EffortClient` say which client of the pool a site is given (the
pool holds every pair the sites route to, so the lookup by key cannot miss), `SiteCall` that the sites of
the tools are call sites, and the invariant that the call being answered is one `Answer` made
(`AnswersACall`).

`Corrective_proofs` proves every property of the corrective run, for any size of the ensemble, framings,
likeness and specifications, from `CorrectiveAssumption` alone, and that a corrective implements
`ProviderCall` (`PromiseKept`). Two of its definitions are computed over the passes, and are unfolded by
induction on a set of numbers (`NumberInduction`, by way of the least number outside it): the usage of
the passes, a fold, is the number of billed ones (`UsageCounts`), whichever pass the fold takes first
(`OneSum`); and the perspectives kept, a recursive function over the passes in their order, exist for any
number of passes (`DedupExists`) and span them (`KeptSpans`). The invariant accounts for every unit
charged at every stage of every tool: as metered by a completed pass, by a failed one, or dropped by
local validation (`Accounted`), over passes whose numbers and classes are those of the tool
(`PassesSound`). The verdicts follow from arithmetic over the panel's counts, the supporting, refuting
and failed passes being disjoint.

The second halves of `Records_proofs` and `Client_proofs` (`ScreeningIsTrue`) are about `Algorithms`:
inputs of any length, over any elements.
`AlgorithmsAssumption` says what an element is: the tokens of a response are those of a u64, a declared
property is one of the shapes the schemas have (`PropSchemas`), a memory has a cosine and a recency of at most
its weight (`IsMemory`), a record has the columns of its table, the figures of an invocation being those
of its usage (`IsRecord`), and the statements of a turn are sets of finitely many words, each said in an entry,
a final message or a memory (`IsEntry`, `IsMessage`, `IsRemembered`); the code's types and constructors say the same. A step of `InputSpec` grows one kind
of input (`KindStep`), so each theorem is an invariant of one kind, that its elements are well formed, and an
argument about a whole input.

- `GrammarIsFaithful`: a property is told from its sanitised form only by the bounds the sanitiser drops, and
  the validation restores exactly those.
- `MetersAddUp`: the meter is a fold. `PrefixFold` and `FoldIsOne` say that a fold over a finite set exists and
  is the only one that steps alike, which unfolds the library's CHOOSE; then saturated addition associates
  and commutes (`SatAddAssociates`), a run of responses merges with the one before it (`MergedPasses`), and
  the totals follow the meter response by response (`TotalsAdd`).
- `RowsReadBack`: a cell holds its value or is damaged, and only where a read parses it or does without it
  (`RowItem`, kept by writes of either release and by damage). `SignedCount` is the arithmetic of a u64 in a
  signed column; `DecodeEncoded` reads a usage column back in whatever order its rows come; `LoadsWhen` and
  `ListedWhenIntact` say exactly when a row and a table load.
- `RecallRanks`: an order of finitely many elements gives each a place of its own and leaves none empty
  (`EveryPlace`), the score with the identifier is an order (`RankOrders`), a store read backwards ranks the
  same (`RankReversed`), and what ought to come first outscores whatever recency can add (`OughtOutranks`).
- `ReviewIsFair`: the models write a filter as the elements at some places (`Filtered`, in `Sorting`), so a
  filter, a sort and a deduplication are all lists along an order (`ListAlong`, `PickedKeeps`), and a flattening
  puts lists together (`FlattenMore`). From these, what the candidates of a turn are and in what order they come
  (`AllComes`), that the cap keeps the stored decisions first (`StoredFirst`), and that an echo is told by the
  pair its words cover (`EchoFits`). The invariant is that a turn's entries are of the form assumed.
- `ScreeningIsTrue`: the parser and the streaks are folds, so each is a run of states, one per line or entry
  (`PrefixRun`). Along the parser's, the entries are the calls read so far, in order, each marked exactly if a
  result after it failed (`Placed`, kept by `ParsedStep`); along the streaks', a streak counts the failures of an
  action that no success follows, and remembers the batch of the last of them (`StreaksCount`). The window then
  tells of the latest calls of the file, whatever line the read began at (`TailTold`), and its floor tells
  exactly the recent ones (`FloorIsRecent`); counting is matching calls with entries. The invariant is that a
  transcript is a sequence of lines whose tool uses have identifiers of their own (`IsTranscript`).

- `DocumentsTellTheTruth`: the scan of `--help` is a fold whose states are a run, one per line (`HasRead`,
  `ReadsAlong`), from which a marker belongs to the entry it stands in. The counts of the two scans agree
  exactly when neither misses a read, and then the documents pass exactly if they are true (`DocumentsPass`),
  where no gate hides a default and no entry mentions another's variable; nothing else can hide one, as a
  complete extraction has every other read (`TypedHiding`). The invariant is that reads and
  statements are of the forms assumed (`DocumentsTyped`).

`WoundsStay`, `AloneNeverDuplicates`, `NobodyIsStranded`, `NobodyIsOvertaken` and the refinements
`Corrective.KeepsPromise`, `Research.KeepsPromise` and `TrailSettlesOnce` are in no run's configuration:
they are proved, after TLC found them to hold on the instances of `boot` (of one process, for
`AloneNeverDuplicates`), `fetch`, `corrective`, `research` and `checkpoint_memory`.

The conjunctions the runs check (`RecordsAreTrue`, `AnswerIsHonest`, `CooldownIsFair`, `PushIsSound`,
`ResultIsHonest` and the like) are the parts these theorems prove, named together.

Only model-checked: liveness (`EvaluationEnds`, `RunEnds`, `CallEnds`, `FetchEnds`),
which is out of the prover's reach; `EvidenceIsFaithful`, whose globs are recursive; and the properties of
`Algorithms` whose operators scan a text from one end to the other with a state (`AnswersAreComputed`,
`PromptsAreVerbatim`). Every other property of every run is proved.

## 5. Not modelled

- Exporters, attribute mapping and log lines (`observability.rs`, `tracing`): pure output.
- The cosine, the exponential decay and floating-point rounding: their results are inputs.
- The extraction of readable text from HTML (a library), and the engines behind `check` (SMT, arithmetic):
  their answers are choices.
- The wording of prompts, error messages and notices; the parsing of each configuration scalar, which is
  one validity in `Boot`.
- The scanning of Rust source character by character in `config_facts/source.rs`, abstracted to the shapes it
  recognises.
- Tests, fixtures and the mocks of `traits/`.

## 6. Plan

1. **Proofs** about the pure modules that are only model-checked, from the lemmas on folds and places.
2. **Composition** of `Fetch` with `Research`: a research permit is held while a fetch waits for its host.
3. **Configuration**: the scalars that `Boot` takes as one validity.
