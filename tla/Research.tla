------------------------------ MODULE Research ------------------------------
(***************************************************************************)
(* One run of the research pipeline (research/pipeline.rs, run_metered_at):*)
(* scope, search, fetch and extract per source, verify per claim,          *)
(* synthesize under the grounding gate.                                    *)
(*                                                                         *)
(* Sources, and after a barrier claims, are futures of one task that share *)
(* a semaphore, the token meter and a latched ceiling.  Each probes the    *)
(* ceiling when it is spawned and again with its permit in hand; what is   *)
(* in flight when the ceiling trips is drained, so the meter may pass the  *)
(* budget.  Failures drop the unit, and end the run only if every unit of  *)
(* the phase that was not skipped failed.                                  *)
(***************************************************************************)
EXTENDS Naturals, FiniteSets

CONSTANTS
    MaxSources,     \* settings.max_sources
    MaxClaims,      \* bound: distinct claims, numbered in the order of claim_key
    MaxPerSource,   \* MAX_CLAIMS_PER_SOURCE
    Concurrency,    \* RESEARCH_CONCURRENCY, or what the caller lowered it to
    VerifyK,        \* settings.verify_k
    Budget,         \* settings.budget_tokens
    MaxCall         \* bound: tokens of one model call

ASSUME ResearchAssumption ==
    /\ MaxSources \in Nat /\ MaxClaims \in Nat /\ MaxPerSource \in Nat
    /\ Concurrency \in Nat \ {0} /\ VerifyK \in Nat \ {0}
    /\ Budget \in Nat \ {0} /\ MaxCall \in Nat \ {0}

VARIABLES
    phase,      \* the await the pipeline is suspended at
    late,       \* the deadline has passed
    tripped,    \* Ceiling::tripped, a OnceLock
    metered,    \* RunMeter::total
    spent,      \* history: tokens the providers billed
    permits,    \* the semaphore
    src,        \* where each candidate's fetch_and_extract stands
    yield,      \* the claims each source gave
    clm,        \* where each claim's verify_claim stands
    dropped,    \* claims_dropped
    attempt,    \* synthesis attempts rejected so far
    result      \* what the run returned

vars == <<phase, late, tripped, metered, spent, permits, src, yield, clm, dropped,
          attempt, result>>

Sources == 1..MaxSources
Claims == 1..MaxClaims
Billed == 1..MaxCall
MaybeBilled == 0..MaxCall

Labels == {"confirmed", "contested", "refuted", "unverified"}
SourceStates == {"none", "queued", "fetching", "extracting", "skipped", "unreadable",
                 "failed", "extracted"}
ClaimStates == {"none", "queued", "judging", "deferred", "skipped", "failed"} \cup Labels

SourcesIn(s) == {i \in Sources : src[i] \in s}
ClaimsIn(s) == {c \in Claims : clm[c] \in s}
Extracted == SourcesIn({"extracted"})
Unique == UNION {yield[i] : i \in Extracted}
Backing(c) == {i \in Extracted : c \in yield[i]}
Surviving == ClaimsIn(Labels \ {"refuted"})

Pending == [answer |-> "none", stop |-> "none", cites |-> {}, sources |-> {}, reported |-> 0]

Init ==
    /\ phase = "scope"
    /\ late = FALSE
    /\ tripped = "none"
    /\ metered = 0 /\ spent = 0
    /\ permits = Concurrency
    /\ src = [i \in Sources |-> "none"]
    /\ yield = [i \in Sources |-> {}]
    /\ clm = [c \in Claims |-> "none"]
    /\ dropped = 0
    /\ attempt = 0
    /\ result = Pending

(* Ceiling::probe, when the deadline has passed iff l.                      *)
Probe(l) ==
    IF tripped # "none" THEN tripped
    ELSE IF metered >= Budget THEN "budget"
    ELSE IF l THEN "deadline"
    ELSE "none"

(* Every probe latches what it finds.                                       *)
Latch == tripped' = Probe(late)

(* A spawn loop probes before each unit.  The first trip stops the loop, and *)
(* the deadline may pass while it runs.                                     *)
Spawn(taken, left) ==
    /\ \A x \in taken, y \in left : x < y
    /\ taken # {} => Probe(late) = "none"
    /\ late' \in IF left = {} THEN {late} ELSE {late, TRUE}
    /\ tripped' = IF left = {} THEN tripped ELSE Probe(late')
    /\ left # {} => Probe(late') # "none"

Bill(m, s) ==
    /\ metered' = metered + m
    /\ spent' = spent + s

----------------------------------------------------------------------------
(* How a run ends.                                                          *)

Returns(answer, stop, cites, sources) ==
    /\ phase' = "done"
    /\ result' = [answer |-> answer, stop |-> stop, cites |-> cites, sources |-> sources,
                  reported |-> metered']

(* run_at adds the meter to whatever usage the error carries itself.        *)
Fails(carried) ==
    /\ phase' = "done"
    /\ result' = [answer |-> "error", stop |-> "none", cites |-> {}, sources |-> {},
                  reported |-> metered' + carried]

(* Defect: the error carries again the usage that is on the meter.          *)
PhaseFailsMetered == Fails(metered)

(* dominant_failure_unmetered strips the usage the phase already metered.   *)
PhaseFails == Fails(0)

----------------------------------------------------------------------------
(* scope, then the probe that may skip the search.                          *)

ScopeReturns ==
    /\ phase = "scope"
    /\ \E cost \in Billed :
        /\ Bill(cost, cost)
        /\ \/ phase' = "scoped" /\ UNCHANGED result
           \/ Fails(0)         \* the completion does not validate
    /\ UNCHANGED <<late, tripped, permits, src, yield, clm, dropped, attempt>>

ScopeFails ==
    /\ phase = "scope"
    /\ \E paid \in MaybeBilled : Bill(0, paid) /\ Fails(paid)
    /\ UNCHANGED <<late, tripped, permits, src, yield, clm, dropped, attempt>>

SearchBegins ==
    /\ phase = "scoped"
    /\ Latch
    /\ phase' = IF tripped' = "none" THEN "search" ELSE "fetch"
    /\ UNCHANGED <<late, metered, spent, permits, src, yield, clm, dropped, attempt, result>>

(* The angles' searches end: some candidates pass the filters, and the loop *)
(* spawns the first of them.                                                *)
SearchReturns ==
    /\ phase = "search"
    /\ \E n \in 0..MaxSources, m \in 0..MaxSources :
        /\ m <= n
        /\ Spawn(1..m, (m + 1)..n)
        /\ src' = [i \in Sources |-> IF i <= m THEN "queued"
                                     ELSE IF i <= n THEN "skipped" ELSE "none"]
    /\ phase' = "fetch"
    /\ UNCHANGED <<metered, spent, permits, yield, clm, dropped, attempt, result>>

(* Every search failed.                                                     *)
SearchFails ==
    /\ phase = "search"
    /\ UNCHANGED metered /\ Fails(0)
    /\ UNCHANGED <<late, tripped, spent, permits, src, yield, clm, dropped, attempt>>

----------------------------------------------------------------------------
(* fetch_and_extract: the first future in the queue takes the next permit,  *)
(* probes, and gives it back when it ends.                                  *)

IsNext(states, u) == states[u] = "queued" /\ \A v \in DOMAIN states : v < u => states[v] # "queued"

SourceBegins(i) ==
    /\ phase = "fetch"
    /\ IsNext(src, i) /\ permits > 0
    /\ Latch
    /\ src' = [src EXCEPT ![i] = IF tripped' = "none" THEN "fetching" ELSE "skipped"]
    /\ permits' = IF tripped' = "none" THEN permits - 1 ELSE permits
    /\ UNCHANGED <<phase, late, metered, spent, yield, clm, dropped, attempt, result>>

PageLoads(i) ==
    /\ src[i] = "fetching"
    /\ src' = [src EXCEPT ![i] = "extracting"]
    /\ UNCHANGED <<phase, late, tripped, metered, spent, permits, yield, clm, dropped,
                   attempt, result>>

SourceEnds(i, state) ==
    /\ src' = [src EXCEPT ![i] = state]
    /\ permits' = permits + 1
    /\ UNCHANGED <<phase, late, tripped, clm, dropped, attempt, result>>

PageIsUseless(i) ==
    /\ src[i] = "fetching"
    /\ \E state \in {"failed", "unreadable"} : SourceEnds(i, state)
    /\ UNCHANGED <<metered, spent, yield>>

Extracts(i) ==
    /\ src[i] = "extracting"
    /\ \E claims \in SUBSET Claims, cost \in Billed :
        /\ Cardinality(claims) <= MaxPerSource
        /\ Bill(cost, cost)
        /\ yield' = [yield EXCEPT ![i] = claims]
    /\ SourceEnds(i, "extracted")

(* The failed call's usage is metered; a completion that does not validate  *)
(* fails without any.                                                       *)
ExtractFails(i) ==
    /\ src[i] = "extracting"
    /\ \/ \E paid \in MaybeBilled : Bill(paid, paid)
       \/ \E cost \in Billed : Bill(0, cost)
    /\ SourceEnds(i, "failed")
    /\ UNCHANGED yield

(* The barrier: the sources that survived give the claims, and the loop     *)
(* spawns a verification for each, or defers it.                            *)
FetchEnds ==
    /\ phase = "fetch"
    /\ SourcesIn({"queued", "fetching", "extracting"}) = {}
    /\ UNCHANGED <<metered, spent, permits, src, yield, attempt>>
    /\ IF Extracted = {} /\ SourcesIn({"failed"}) # {}
       THEN PhaseFails /\ UNCHANGED <<late, tripped, clm, dropped>>
       ELSE \E left \in SUBSET Unique :
            /\ Spawn(Unique \ left, left)
            /\ clm' = [c \in Claims |-> IF c \in left THEN "deferred"
                                       ELSE IF c \in Unique THEN "queued" ELSE "none"]
            /\ dropped' = Cardinality(left)
            /\ phase' = "verify"
            /\ UNCHANGED result

----------------------------------------------------------------------------
(* verify_claim and the ensemble it runs (modes/verify.rs).                 *)

(* How the passes of one ensemble ended: votes, failures that carry usage,  *)
(* completions rejected locally, whose usage is lost; the rest cost nothing.*)
Panels ==
    {p \in [supports : 0..VerifyK, refutes : 0..VerifyK, billed : 0..VerifyK, lost : 0..VerifyK] :
        p.supports + p.refutes + p.billed + p.lost <= VerifyK}

Completed(p) == p.supports + p.refutes
HasQuorum(p) == 2 * Completed(p) >= VerifyK
Majority(p) == IF p.refutes >= p.supports THEN p.refutes ELSE p.supports

(* verdict::support: the contested band is checked before the verdict.      *)
Support(p, sources) ==
    IF 3 * Majority(p) <= 2 * Completed(p) THEN "contested"
    ELSE IF p.refutes >= p.supports THEN "refuted"
    ELSE IF sources >= 2 THEN "confirmed"
    ELSE "unverified"

(* A pass costs 1..MaxCall, so n of them cost n..n*MaxCall.                 *)
CostOf(n) == n..(n * MaxCall)

(* With a quorum only the completed passes are counted; without it, the     *)
(* failures' usage rides out on the error and is metered too.               *)
Counted(p) == IF HasQuorum(p) THEN Completed(p) ELSE Completed(p) + p.billed
Uncounted(p) == IF HasQuorum(p) THEN p.billed + p.lost ELSE p.lost

(* Defect: the ceiling is probed when the claim is spawned only.            *)
ClaimBeginsUnprobed(c) ==
    /\ phase = "verify"
    /\ IsNext(clm, c) /\ permits > 0
    /\ clm' = [clm EXCEPT ![c] = "judging"]
    /\ permits' = permits - 1
    /\ UNCHANGED <<phase, late, tripped, metered, spent, src, yield, dropped, attempt, result>>

(* Defect: a claim that finds the ceiling tripped keeps its permit.         *)
ClaimBeginsLeaking(c) ==
    /\ phase = "verify"
    /\ IsNext(clm, c) /\ permits > 0
    /\ Latch
    /\ clm' = [clm EXCEPT ![c] = IF tripped' = "none" THEN "judging" ELSE "skipped"]
    /\ permits' = permits - 1
    /\ UNCHANGED <<phase, late, metered, spent, src, yield, dropped, attempt, result>>

ClaimBegins(c) ==
    /\ phase = "verify"
    /\ IsNext(clm, c) /\ permits > 0
    /\ Latch
    /\ clm' = [clm EXCEPT ![c] = IF tripped' = "none" THEN "judging" ELSE "skipped"]
    /\ permits' = IF tripped' = "none" THEN permits - 1 ELSE permits
    /\ UNCHANGED <<phase, late, metered, spent, src, yield, dropped, attempt, result>>

ClaimEnds(c) ==
    /\ clm[c] = "judging"
    /\ \E p \in Panels :
        /\ \E m \in CostOf(Counted(p)), u \in CostOf(Uncounted(p)) : Bill(m, m + u)
        /\ clm' = [clm EXCEPT ![c] = IF HasQuorum(p) THEN Support(p, Cardinality(Backing(c)))
                                     ELSE "failed"]
    /\ permits' = permits + 1
    /\ UNCHANGED <<phase, late, tripped, src, yield, dropped, attempt, result>>

(* Defect: what the ceiling stopped after its spawn is not counted.         *)
LossesOfFailures == ClaimsIn({"failed", "refuted"})

(* claims_dropped gains what ended without a verdict, and what was refuted. *)
Losses == ClaimsIn({"skipped", "failed", "refuted"})

VerifyEnds ==
    /\ phase = "verify"
    /\ ClaimsIn({"queued", "judging"}) = {}
    /\ UNCHANGED <<late, tripped, metered, spent, permits, src, yield, clm, attempt>>
    /\ IF ClaimsIn(Labels) = {} /\ ClaimsIn({"failed"}) # {}
       THEN PhaseFails /\ UNCHANGED dropped
       ELSE /\ dropped' = dropped + Cardinality(Losses)
            /\ IF Surviving = {}
               THEN Returns("gaps", tripped, {}, {})
               ELSE phase' = "synthesize" /\ UNCHANGED result

----------------------------------------------------------------------------
(* synthesize_grounded: two attempts, then demotion.                        *)

Cited == UNION {Backing(c) : c \in Surviving}

(* An id past MaxSources stands for one that names no candidate.            *)
Answers == [fault : {"none", "arity", "length", "malformed"}, cites : SUBSET (1..(MaxSources + 1))]

(* grounding::ground, after the arity and length checks.                    *)
Rejection(a) ==
    IF a.fault \in {"arity", "length"} THEN "malformed"
    ELSE IF a.fault = "malformed" \/ ~(a.cites \cup Cited \subseteq Extracted) THEN "grounding"
    ELSE "none"

(* stop_reason.get_or_insert: a ceiling's reason is kept.                   *)
StopOr(reason) == IF tripped = "none" THEN reason ELSE tripped

Demotes(reason) == Returns("demoted", StopOr(reason), {}, Cited)

SynthesisReturns ==
    /\ phase = "synthesize"
    /\ \E a \in Answers, cost \in Billed :
        /\ Bill(cost, cost)
        /\ LET rejection == Rejection(a) IN
           \/ rejection = "none" /\ Returns("prose", tripped, a.cites, a.cites \cup Cited)
              /\ UNCHANGED attempt
           \/ rejection # "none" /\ attempt = 0 /\ attempt' = 1
              /\ UNCHANGED <<phase, result>>
           \/ rejection # "none" /\ attempt = 1 /\ Demotes(rejection)
              /\ UNCHANGED attempt
    /\ UNCHANGED <<late, tripped, permits, src, yield, clm, dropped>>

SynthesisFails ==
    /\ phase = "synthesize"
    /\ \/ \E paid \in MaybeBilled : Bill(0, paid) /\ Fails(paid)
       \/ \E cost \in Billed : Bill(cost, cost) /\ Fails(0)    \* does not validate
    /\ UNCHANGED <<late, tripped, permits, src, yield, clm, dropped, attempt>>

----------------------------------------------------------------------------

DeadlinePasses ==
    /\ ~late /\ phase # "done"
    /\ late' = TRUE
    /\ UNCHANGED <<phase, tripped, metered, spent, permits, src, yield, clm, dropped,
                   attempt, result>>

Source(i) ==
    SourceBegins(i) \/ PageLoads(i) \/ PageIsUseless(i) \/ Extracts(i) \/ ExtractFails(i)

Claim(c) == ClaimBegins(c) \/ ClaimEnds(c)

Proceeds ==
    \/ ScopeReturns \/ ScopeFails \/ SearchBegins \/ SearchReturns \/ SearchFails
    \/ FetchEnds \/ VerifyEnds \/ SynthesisReturns \/ SynthesisFails

Next ==
    \/ Proceeds
    \/ \E i \in Sources : Source(i)
    \/ \E c \in Claims : Claim(c)
    \/ DeadlinePasses

Spec == Init /\ [][Next]_vars

(* Every await ends: provider calls and fetches carry timeouts and bounded  *)
(* retries, and the semaphore is fair.                                      *)
Fairness ==
    /\ WF_vars(Proceeds)
    /\ \A i \in Sources : WF_vars(Source(i))
    /\ \A c \in Claims : WF_vars(Claim(c))

FairSpec == Spec /\ Fairness
----------------------------------------------------------------------------
(* Properties.                                                              *)

Results ==
    [answer : {"none", "error", "gaps", "demoted", "prose"},
     stop : {"none", "budget", "deadline", "malformed", "grounding"},
     cites : SUBSET (1..(MaxSources + 1)), sources : SUBSET Sources, reported : Nat]

(* Every variable has its type; in particular no permit is lost or made up: *)
(* those missing from the semaphore are held by units in flight.            *)
TypeOK ==
    /\ phase \in {"scope", "scoped", "search", "fetch", "verify", "synthesize", "done"}
    /\ late \in BOOLEAN
    /\ tripped \in {"none", "budget", "deadline"}
    /\ metered \in Nat /\ spent \in Nat
    /\ permits \in 0..Concurrency
    /\ src \in [Sources -> SourceStates]
    /\ yield \in [Sources -> SUBSET Claims]
    /\ clm \in [Claims -> ClaimStates]
    /\ dropped \in 0..MaxClaims
    /\ attempt \in 0..1
    /\ result \in Results

(* The budget is enforced, not advisory: the meter passes it by no more     *)
(* than what Concurrency units in flight may still cost, and the two        *)
(* synthesis attempts, which no ceiling guards (Ceiling::probe, FR-007).    *)
UnitCost == VerifyK * MaxCall
Fanout == Budget - 1 + Concurrency * UnitCost

OvershootBounded ==
    metered <= Fanout + IF phase \in {"synthesize", "done"} THEN 2 * MaxCall ELSE 0

(* Past either ceiling no fetch and no verification begins, whatever was    *)
(* spawned and waits for a permit (the probe under the permit).             *)
InFlight == [sources |-> SourcesIn({"fetching", "extracting"}), claims |-> ClaimsIn({"judging"})]

NothingStartsPastCeiling ==
    [][metered >= Budget \/ late =>
        /\ InFlight'.sources \subseteq InFlight.sources
        /\ InFlight'.claims \subseteq InFlight.claims]_vars

(* A result says it stopped early on a ceiling iff the ceiling was passed   *)
(* and work was left undone for it, and it names a demotion only when no    *)
(* ceiling came first (FR-007, the honest accounting).                      *)
SkippedWork == SourcesIn({"skipped"}) # {} \/ ClaimsIn({"deferred", "skipped"}) # {}

StopReasonIsHonest ==
    phase = "done" /\ result.answer # "error" =>
        /\ SkippedWork => result.stop \in {"budget", "deadline"}
        /\ result.stop \in {"budget", "deadline"} =>
              SkippedWork \/ SourcesIn(SourceStates \ {"none"}) = {}
        /\ result.stop = "budget" => metered >= Budget
        /\ result.stop = "deadline" => late
        /\ result.answer = "demoted" => result.stop # "none"
        /\ result.stop \in {"malformed", "grounding"} => result.answer = "demoted"

(* Every distinct claim of a result is a finding or counted as dropped, and *)
(* none is both (FR-007, stats.claims_dropped).                             *)
AccountingAddsUp ==
    phase = "done" /\ result.answer # "error" =>
        Cardinality(Surviving) + dropped = Cardinality(Unique)

(* What a result or an error reports is what was spent less what the units  *)
(* lost on the way (completions that did not validate, failed passes of a   *)
(* panel with a quorum): the ending bills nothing twice, although the usage *)
(* of failed calls travels both on the meter and on their errors (020).     *)
EndingBillsOnce == [][result' # result => result'.reported + spent = spent' + metered]_vars

(* Nothing ungrounded leaves the server: the prose cites only sources that  *)
(* were read in this run, every finding has a source that gave it, and what *)
(* is cited or backs a finding is listed (the grounding gate, FR-003).      *)
PublishedIsGrounded ==
    phase = "done" /\ result.answer \in {"prose", "demoted"} =>
        /\ result.sources \subseteq Extracted
        /\ result.cites \subseteq result.sources
        /\ \A c \in Surviving : Backing(c) # {} /\ Backing(c) \subseteq result.sources

(* The figures, the stop reason and the citations of a result are those of  *)
(* the run that produced it (outcome of run_metered_at).                    *)
ResultIsHonest == StopReasonIsHonest /\ AccountingAddsUp /\ PublishedIsGrounded

(* No step starts work past a ceiling, and the step that ends the run bills *)
(* nothing twice (Ceiling::probe under the permit, run_at).                 *)
StepsAreLawful == NothingStartsPastCeiling /\ EndingBillsOnce

(* A run promises the recorder what a client promises the run (run_at): it  *)
(* settles once, is charged for nothing after that, and reports no more     *)
(* than it was charged, whatever its fan-outs had in flight.                *)
Untold == [class |-> "none", usage |-> 0]
Told == IF phase = "done" THEN [class |-> result.answer, usage |-> result.reported] ELSE Untold

Promise == INSTANCE ProviderCall WITH
    Calls <- {"run"}, Classes <- {"error", "gaps", "demoted", "prose"},
    MaxCharge <- UnitCost, Open <- Untold,
    charged <- [c \in {"run"} |-> spent], reply <- [c \in {"run"} |-> Told]
KeepsPromise == Promise!Spec

(* A run ends whatever fails, is skipped or waits for a permit.             *)
RunEnds == <>(phase = "done")
=============================================================================
