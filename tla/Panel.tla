--------------------------------- MODULE Panel ---------------------------------
(***************************************************************************)
(* What the ensembles make of their passes: aggregate_core (verify),       *)
(* aggregate and dedup (diverge), aggregate, agreed_spec and settle        *)
(* (grounded_verify).                                                      *)
(*                                                                         *)
(* A pass is a record: ok tells whether it completed, usage what it        *)
(* reports.  A failed pass has a class.  A completed pass of verify and    *)
(* grounded_verify has a verdict and found, whether it names a finding;    *)
(* grounded_verify adds spec: "none" when the pass does not ask for a      *)
(* computation, "vague" when it asks without a usable spec; a pass of      *)
(* diverge has a framing.                                                  *)
(***************************************************************************)
EXTENDS Naturals, FiniteSets, FiniteSetsExt

Completed(passes) == {i \in DOMAIN passes : passes[i].ok}
Failed(passes) == DOMAIN passes \ Completed(passes)

(* The usage a set of passes reports.                                       *)
UsageOf(passes, S) == MapThenSumSet(LAMBDA i : passes[i].usage, S)

(* k.div_ceil(2): a verdict is never synthesized from a minority.           *)
Quorum(k) == (k + 1) \div 2

Voters(passes, verdict) == {i \in Completed(passes) : passes[i].verdict = verdict}

(* Defect: a tie resolves toward the claim.                                 *)
VerdictOnTie(passes) ==
    IF Cardinality(Voters(passes, "supported")) >= Cardinality(Voters(passes, "refuted"))
    THEN "supported" ELSE "refuted"

(* The majority verdict; a tie fails toward scrutiny.                       *)
Verdict(passes) ==
    IF Cardinality(Voters(passes, "refuted")) >= Cardinality(Voters(passes, "supported"))
    THEN "refuted" ELSE "supported"

(* The findings are those of the side the verdict takes.                    *)
Findings(passes) == {i \in Voters(passes, Verdict(passes)) : passes[i].found}

(* The confidence is a ratio: the larger side over the completed passes.    *)
Majority(passes) == Max({Cardinality(Voters(passes, v)) : v \in {"supported", "refuted"}})

(* dominant_failure: a most frequent class; a HashMap breaks ties.          *)
DominantClasses(passes) ==
    LET Count(class) == Cardinality({i \in Failed(passes) : passes[i].class = class})
        classes == {passes[i].class : i \in Failed(passes)}
    IN  {class \in classes : \A other \in classes : Count(other) <= Count(class)}
-----------------------------------------------------------------------------
(* The completed passes that report the claim as a computation.             *)
Computing(passes) == {i \in Completed(passes) : passes[i].spec # "none"}

ComputingMajority(passes) ==
    2 * Cardinality(Computing(passes)) > Cardinality(Completed(passes))

(* A computing pass with a finding of its own: the claim is compound.       *)
Compound(passes) == \E i \in Computing(passes) : passes[i].found

(* Defect: any of the specs is settled, agreed on or not.                   *)
AnySpec(passes) == {passes[i].spec : i \in Computing(passes)} \ {"vague"}

(* agreed_spec: the usable spec of more than half of the computing passes.  *)
AgreedSpecs(passes) ==
    LET With(s) == {i \in Computing(passes) : passes[i].spec = s}
    IN  {s \in {passes[i].spec : i \in Computing(passes)} \ {"vague"} :
            2 * Cardinality(With(s)) > Cardinality(Computing(passes))}

(* settle: what the engine makes of a spec, where says tells whether it     *)
(* holds of the unit, fails, or is one the engine cannot evaluate.          *)
Settled(spec, says) == IF says[spec] = "holds" THEN "supported" ELSE "refuted"

(* The specs that settle the claim: purely computable, over one unit, and   *)
(* not rejected by the engine, whose error leaves the claim unsettled.      *)
Settling(passes, units, says) ==
    IF ComputingMajority(passes) /\ ~Compound(passes) /\ units = 1
    THEN {s \in AgreedSpecs(passes) : says[s] # "error"} ELSE {}
=============================================================================
