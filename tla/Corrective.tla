------------------------------ MODULE Corrective ------------------------------
(***************************************************************************)
(* One call of a corrective tool: run() of modes/verify.rs, diverge.rs,    *)
(* grounded_verify.rs, decide.rs, elicit.rs, unstick.rs and of             *)
(* deterministic/check.rs, up to the result or error, and the usage, that  *)
(* the recorder is handed.                                                 *)
(*                                                                         *)
(* Three of the tools ask a panel: k passes in parallel, any of which may  *)
(* fail.  The others make attempts: one, or a second that is fed the       *)
(* violation of the first.                                                 *)
(***************************************************************************)
EXTENDS Panel

CONSTANTS
    Tools,      \* the tools in play, a subset of AllTools
    Ensemble,   \* CorrectiveMode::ensemble_k, the configured passes
    Framings,   \* what a pass of diverge may answer
    Alike,      \* the pairs of framings whose Jaccard is over the threshold
    Specs       \* the computations a pass of grounded_verify may specify

Panels == {"verify", "diverge", "grounded_verify"}
AllTools == Panels \cup {"decide", "elicit", "unstick", "check"}

ASSUME CorrectiveAssumption ==
    /\ Tools \subseteq AllTools
    /\ Ensemble \in Nat \ {0}
    /\ Specs \cap {"none", "vague"} = {}

VARIABLES
    tool,       \* the tool called (fixed)
    valid,      \* its input passes check_input (fixed)
    k,          \* passes asked for, after resolve_passes (fixed)
    truth,      \* what the engine says of each computation (fixed)
    units,      \* units of evidence assembled (fixed)
    phase,      \* "called", "recalling", "asking" (completions are awaited), "over"
    passes,     \* a panel's passes that returned
    attempt,    \* the attempt of the other tools
    engine,     \* what the check's engine said of the last translation
    spent,      \* `spent` of run_spent: usage to attach to an error
    charged,    \* usage of every completion and of every metered failure
    unmetered,  \* history: usage of completions dropped by local validation
    result      \* what run() returned

fixed == <<tool, valid, k, truth, units>>
vars == <<fixed, phase, passes, attempt, engine, spent, charged, unmetered, result>>

Unset == [class |-> "none"]
AttemptsMax == IF tool = "unstick" THEN 1 ELSE 2
Classes == {"refusal", "timeout", "validation_failure"}

(* EngineSays: the outcomes of evaluate() and check(), and NotCheckable.    *)
EngineSays == {"holds", "fails", "sat_sat", "sat_unsat", "unsat_sat", "unsat_unsat",
               "not_checkable", "unknown", "crashed", "violation"}
Settlements == {"holds", "fails", "error"}  \* what settle() may hear of a count
CheckVerdicts == {"supported", "refuted", "not_checkable"}

PassResults ==
    [ok : {FALSE}, class : Classes, usage : {0, 1}]
    \cup [ok : {TRUE}, usage : {1}, verdict : {"supported", "refuted"}, found : BOOLEAN,
          spec : Specs \cup {"none", "vague"}]
    \cup [ok : {TRUE}, usage : {1}, framing : Framings]

TypeOK ==
    /\ tool \in Tools
    /\ valid \in BOOLEAN
    /\ k \in 1..Ensemble
    /\ truth \in [Specs -> Settlements]
    /\ units \in {1, 2}
    /\ phase \in {"called", "recalling", "asking", "over"}
    /\ \E S \in SUBSET (1..k) : passes \in [S -> PassResults]
    /\ attempt \in {1, 2}
    /\ engine \in EngineSays \cup {"none"}
    /\ spent \in Nat /\ charged \in Nat /\ unmetered \in Nat
    /\ (phase = "over") = (result # Unset)

Init ==
    /\ tool \in Tools
    /\ valid \in BOOLEAN
    /\ k \in (IF tool \in Panels THEN 1..Ensemble ELSE {1})
    /\ truth \in (IF tool = "grounded_verify" THEN [Specs -> Settlements]
                 ELSE {[s \in Specs |-> "holds"]})
    /\ units \in (IF tool = "grounded_verify" THEN {1, 2} ELSE {1})
    /\ phase = "called"
    /\ passes = <<>>
    /\ attempt = 1
    /\ engine = "none"
    /\ spent = 0 /\ charged = 0 /\ unmetered = 0
    /\ result = Unset
-----------------------------------------------------------------------------
(* An error leaves run() metered with `usage`.                              *)
Fail(class, usage) ==
    /\ phase' = "over"
    /\ result' = [class |-> class, usage |-> usage]

Return(answer) ==
    /\ phase' = "over"
    /\ result' = answer

(* check_input, resolve_passes and assemble reject before any completion.   *)
Reject ==
    /\ phase = "called" /\ ~valid
    /\ Fail("invalid_input", 0)
    /\ UNCHANGED <<fixed, passes, attempt, engine, spent, charged, unmetered>>

(* The input is accepted: the panel's passes, the recall that elicit makes  *)
(* when memory is configured, or the first attempt begins.                  *)
Accept ==
    /\ phase = "called" /\ valid
    /\ phase' \in (IF tool = "elicit" THEN {"recalling", "asking"} ELSE {"asking"})
    /\ UNCHANGED <<fixed, passes, attempt, engine, spent, charged, unmetered, result>>

(* elicit recalls preferences first.  A failed recall fails the call: the   *)
(* embedding, or the load after an embedding whose usage then goes untold.  *)
Recalled ==
    /\ phase = "recalling"
    /\ \/ /\ phase' = "asking"
          /\ charged' = 1 /\ spent' = 1
          /\ UNCHANGED <<unmetered, result>>
       \/ /\ \E class \in {"timeout", "embedding_provider"} : Fail(class, 0)
          /\ UNCHANGED <<spent, charged, unmetered>>
       \/ /\ Fail("config_error", 0)
          /\ charged' = 1 /\ unmetered' = 1
          /\ UNCHANGED spent
    /\ UNCHANGED <<fixed, passes, attempt, engine>>
-----------------------------------------------------------------------------
(* The completions of a pass that are valid against the tool's schema.      *)
Outputs ==
    CASE tool = "verify" ->
            [verdict : {"supported", "refuted"}, found : BOOLEAN, spec : {"none"}]
      [] tool = "grounded_verify" ->
            [verdict : {"supported", "refuted"}, found : BOOLEAN, spec : Specs \cup {"none", "vague"}]
      [] tool = "diverge" -> [framing : Framings \cup {""}]

(* one_pass: a refutation without a named error, or an empty framing, is a  *)
(* failed pass.                                                             *)
Acceptable(o) ==
    IF tool = "diverge" THEN o.framing # ""
    ELSE o.verdict = "refuted" => o.found

Extend(i, p) == passes' = [j \in DOMAIN passes \cup {i} |-> IF j = i THEN p ELSE passes[j]]

Awaited(i) == phase = "asking" /\ tool \in Panels /\ i \notin DOMAIN passes

(* Pass i fails in its client; a refusal was billed and says so.            *)
PassFails(i) ==
    /\ Awaited(i)
    /\ \E class \in {"refusal", "timeout"} :
        LET usage == IF class = "refusal" THEN 1 ELSE 0 IN
        /\ Extend(i, [ok |-> FALSE, class |-> class, usage |-> usage])
        /\ charged' = charged + usage
    /\ UNCHANGED <<fixed, phase, attempt, engine, spent, unmetered, result>>

(* Pass i's completion is billed, and fails validation: the error carries   *)
(* no usage.                                                                *)
PassInvalid(i) ==
    /\ Awaited(i)
    /\ Extend(i, [ok |-> FALSE, class |-> "validation_failure", usage |-> 0])
    /\ charged' = charged + 1
    /\ unmetered' = unmetered + 1
    /\ UNCHANGED <<fixed, phase, attempt, engine, spent, result>>

(* Pass i completes.                                                        *)
PassCompletes(i) ==
    /\ Awaited(i)
    /\ \E o \in Outputs :
        /\ Acceptable(o)
        /\ Extend(i, IF tool = "diverge" THEN [ok |-> TRUE, usage |-> 1, framing |-> o.framing]
                     ELSE [ok |-> TRUE, usage |-> 1, verdict |-> o.verdict,
                           found |-> o.found, spec |-> o.spec])
    /\ charged' = charged + 1
    /\ UNCHANGED <<fixed, phase, attempt, engine, spent, unmetered, result>>

(* join_all returns when every pass has.                                    *)
Joined == phase = "asking" /\ tool \in Panels /\ DOMAIN passes = 1..k

(* The passes a result needs: a quorum, or any one perspective.             *)
Enough == Cardinality(Completed(passes)) >= (IF tool = "diverge" THEN 1 ELSE Quorum(k))

(* Defect: the error carries the usage of the failure that won the vote.    *)
ErrorUsageOfOne == Max({passes[i].usage : i \in Failed(passes)})

(* dominant_failure_metered: every usage of the round is attached.          *)
ErrorUsage == UsageOf(passes, DOMAIN passes)

(* Too few passes completed: the dominant failure.                          *)
PanelFails ==
    /\ Joined /\ ~Enough
    /\ \E class \in DominantClasses(passes) : Fail(class, ErrorUsage)
    /\ UNCHANGED <<fixed, passes, attempt, engine, spent, charged, unmetered>>

(* aggregate_core: the verdict, its findings, its confidence as a ratio.    *)
VerifyAnswer ==
    [class |-> "ok", usage |-> UsageOf(passes, Completed(passes)),
     verdict |-> Verdict(passes), findings |-> Findings(passes),
     confidence |-> <<Majority(passes), Cardinality(Completed(passes))>>]

PanelAnswers ==
    /\ Joined /\ Enough /\ tool = "verify"
    /\ Return(VerifyAnswer)
    /\ UNCHANGED <<fixed, passes, attempt, engine, spent, charged, unmetered>>

(* Jaccard over a threshold: reflexive and symmetric, and not transitive.   *)
Similar(f, g) == f = g \/ <<f, g>> \in Alike \/ <<g, f>> \in Alike

(* Defect: a pass is compared with every pass before it, kept or not.       *)
KeptAgainstAll ==
    {i \in Completed(passes) :
        \A j \in Completed(passes) : j < i => ~Similar(passes[i].framing, passes[j].framing)}

(* dedup: a pass is kept unless its framing is similar to one kept before.  *)
Kept ==
    LET kept[i \in 0..k] ==
            IF i = 0 THEN {}
            ELSE IF /\ i \in Completed(passes)
                    /\ \A j \in kept[i - 1] : ~Similar(passes[i].framing, passes[j].framing)
                 THEN kept[i - 1] \cup {i}
                 ELSE kept[i - 1]
    IN  kept[k]

PanelScatters ==
    /\ Joined /\ Enough /\ tool = "diverge"
    /\ Return([class |-> "ok", usage |-> UsageOf(passes, Completed(passes)),
               kept |-> Kept])
    /\ UNCHANGED <<fixed, passes, attempt, engine, spent, charged, unmetered>>

(* grounded_verify: the engine settles an agreed computation; a majority    *)
(* that asks for one without agreeing, or for one the engine rejects,       *)
(* abstains; and otherwise it is verify.                                    *)
PanelGrounds ==
    /\ Joined /\ Enough /\ tool = "grounded_verify"
    /\ LET settling == Settling(passes, units, truth) IN
        \/ \E s \in settling :
            Return([VerifyAnswer EXCEPT !.verdict = Settled(s, truth),
                                        !.findings = {0}, !.confidence = <<1, 1>>])
        \/ /\ settling = {} /\ ComputingMajority(passes)
           /\ Return([VerifyAnswer EXCEPT !.verdict = "inconclusive"])
        \/ /\ settling = {} /\ ~ComputingMajority(passes)
           /\ Return(VerifyAnswer)
    /\ UNCHANGED <<fixed, passes, attempt, engine, spent, charged, unmetered>>
-----------------------------------------------------------------------------
Attempting == phase = "asking" /\ tool \notin Panels

(* The completion of an attempt fails in its client.                        *)
AttemptFails ==
    /\ Attempting
    /\ \E class \in {"refusal", "timeout"} :
        LET usage == IF class = "refusal" THEN 1 ELSE 0 IN
        /\ charged' = charged + usage
        /\ Fail(class, spent + usage)
    /\ UNCHANGED <<fixed, passes, attempt, engine, spent, unmetered>>

(* decide and elicit add a completion to `spent` before they validate it;   *)
(* translate_once and unstick return the validation error alone.            *)
MetersFirst == tool \in {"decide", "elicit"}

(* The completion does not validate against the schema: terminal.           *)
AttemptInvalid ==
    /\ Attempting
    /\ charged' = charged + 1
    /\ spent' = IF MetersFirst THEN spent + 1 ELSE spent
    /\ unmetered' = IF MetersFirst THEN unmetered ELSE unmetered + 1
    /\ Fail("validation_failure", spent')
    /\ UNCHANGED <<fixed, passes, attempt, engine>>

(* The completion validates and breaks a rule of the tool: a restated or    *)
(* empty step ends unstick, arity, ranges, an unusable translation or a     *)
(* violation of the engine are fed to a second attempt.                     *)
AttemptViolates ==
    /\ Attempting
    /\ charged' = charged + 1
    /\ IF tool = "unstick"
       THEN /\ unmetered' = unmetered + 1
            /\ Fail("validation_failure", 0)
            /\ UNCHANGED <<attempt, engine, spent>>
       ELSE /\ spent' = spent + 1
            /\ engine' = IF tool = "check" THEN "violation" ELSE engine
            /\ UNCHANGED unmetered
            /\ IF attempt < AttemptsMax
               THEN attempt' = attempt + 1 /\ UNCHANGED <<phase, result>>
               ELSE Fail("validation_failure", spent') /\ UNCHANGED attempt
    /\ UNCHANGED <<fixed, passes>>

(* An attempt answers.                                                      *)
AttemptAnswers ==
    /\ Attempting /\ tool # "check"
    /\ charged' = charged + 1
    /\ spent' = spent + 1
    /\ Return([class |-> "ok", usage |-> spent'])
    /\ UNCHANGED <<fixed, passes, attempt, engine, unmetered>>

(* constraint_verdict: what was proven against what was asserted.           *)
EngineVerdict(said) ==
    CASE said \in {"holds", "sat_sat", "unsat_unsat"} -> "supported"
      [] said \in {"fails", "sat_unsat", "unsat_sat"} -> "refuted"
      [] said = "not_checkable" -> "not_checkable"

(* A translation runs: said is <solver>_<asserted> for constraints; the     *)
(* blocking task that runs the solver may also panic.                       *)
EngineAnswers ==
    /\ Attempting /\ tool = "check"
    /\ charged' = charged + 1
    /\ spent' = spent + 1
    /\ \E said \in EngineSays \ {"violation"} :
        /\ engine' = said
        /\ IF said \in {"unknown", "crashed"}
           THEN Fail(IF said = "unknown" THEN "timeout" ELSE "client", spent')
           ELSE Return([class |-> "ok", usage |-> spent', verdict |-> EngineVerdict(said)])
    /\ UNCHANGED <<fixed, passes, attempt, unmetered>>

PassReturns == \E i \in 1..k : PassFails(i) \/ PassInvalid(i) \/ PassCompletes(i)
PanelEnds == PanelFails \/ PanelAnswers \/ PanelScatters \/ PanelGrounds
AttemptReturns ==
    AttemptFails \/ AttemptInvalid \/ AttemptViolates \/ AttemptAnswers \/ EngineAnswers

Next == Reject \/ Accept \/ Recalled \/ PassReturns \/ PanelEnds \/ AttemptReturns

Spec == Init /\ [][Next]_vars
-----------------------------------------------------------------------------
Over == phase = "over"
Answered == Over /\ result.class = "ok"

(* Billing is exact: what a call reports is what it was charged, less what  *)
(* local validation dropped and, when a panel had enough passes in spite of *)
(* them, less the usage of its failed passes.  decide loses nothing,        *)
(* whatever attempt fails, and elicit only a recall that did not load.      *)
BillingIsExact ==
    Over =>
        /\ result.usage + unmetered
             + (IF Answered /\ tool \in Panels THEN UsageOf(passes, Failed(passes)) ELSE 0) = charged
        /\ tool = "decide" \/ (tool = "elicit" /\ result.class # "config_error") => unmetered = 0

(* A verdict of a panel has a quorum of completed passes behind it, a       *)
(* supported one more of them than a refuted one would have, and a refuted  *)
(* one names an error that a refuting pass found.                           *)
VerdictIsBacked ==
    Answered /\ tool = "verify" =>
        LET for == Voters(passes, "supported")
            against == Voters(passes, "refuted")
        IN  /\ 2 * Cardinality(for \cup against) >= k
            /\ result.verdict = "supported" => Cardinality(for) > Cardinality(against)
            /\ result.verdict = "refuted" => result.findings # {} /\ result.findings \subseteq against
            /\ 2 * result.confidence[1] >= result.confidence[2]

(* A grounded verdict that most passes call a computation is decided by the *)
(* engine, on a spec most of them share over one unit, or not at all.       *)
ComputationIsNotVoted ==
    Answered /\ tool = "grounded_verify" =>
        LET asking == {i \in DOMAIN passes : passes[i].ok /\ passes[i].spec # "none"}
            sharing(s) == {i \in asking : passes[i].spec = s}
        IN  2 * Cardinality(asking) > Cardinality(Completed(passes)) /\ result.verdict # "inconclusive"
            => /\ units = 1
               /\ \A i \in asking : ~passes[i].found
               /\ \E s \in Specs : /\ 2 * Cardinality(sharing(s)) > Cardinality(asking)
                                   /\ \/ truth[s] = "holds" /\ result.verdict = "supported"
                                      \/ truth[s] = "fails" /\ result.verdict = "refuted"

(* No perspective is lost and none is repeated: those kept are pairwise     *)
(* unlike, and each completed one is kept or is like one kept before it.    *)
PerspectivesSpan ==
    Answered /\ tool = "diverge" =>
        LET Like(i, j) == Similar(passes[i].framing, passes[j].framing)
        IN  /\ result.kept # {}
            /\ \A i, j \in result.kept : i # j => ~Like(i, j)
            /\ \A i \in Completed(passes) :
                  i \in result.kept \/ \E j \in result.kept : j < i /\ Like(i, j)

(* A corrective promises the recorder what a client promises the corrective *)
(* (run_spent): it settles once, and reports no more than it was charged.   *)
Told == IF Over THEN [class |-> result.class, usage |-> result.usage] ELSE Unset
ToldClasses == Classes \cup {"ok", "invalid_input", "embedding_provider", "config_error", "client"}

Promise == INSTANCE ProviderCall WITH
    Calls <- {"call"}, Classes <- ToldClasses, MaxCharge <- 1, Open <- Unset,
    charged <- [c \in {"call"} |-> charged], reply <- [c \in {"call"} |-> Told]
KeepsPromise == Promise!Spec

-----------------------------------------------------------------------------
(* "every token from the round is attached to it (020)": what               *)
(* dominant_failure_metered promises of the error of a panel.               *)
EveryTokenAttached ==
    Over /\ ~Answered /\ tool \in Panels => result.usage = charged
=============================================================================
