-------------------------------- MODULE Metering --------------------------------
(***************************************************************************)
(* ModelUsage and the figures a record takes from it (telemetry.rs): usage *)
(* is kept per model and saturates, and the model a record names is the    *)
(* one that used most.  Models are numbers, ordered as their names are.    *)
(***************************************************************************)
EXTENDS Naturals, Sequences, FiniteSets, FiniteSetsExt, SequencesExt

CONSTANTS
    Models,         \* the models, 1..n in the order of their names
    PricedModels,   \* the rows of PRICING_PER_MTOK
    UsageMax        \* u64::MAX

ASSUME MeteringAssumption ==
    /\ Models \subseteq Nat /\ PricedModels \subseteq Nat
    /\ UsageMax \in Nat

SatAdd(a, b) == IF a + b > UsageMax THEN UsageMax ELSE a + b

NoUsage == [m \in {} |-> [in |-> 0, out |-> 0]]
UsageOf(u, m) == IF m \in DOMAIN u THEN u[m] ELSE [in |-> 0, out |-> 0]

(* ModelUsage::add: a model is entered even when it used nothing.           *)
Add(u, m, in, out) ==
    [n \in DOMAIN u \cup {m} |->
        IF n = m THEN [in |-> SatAdd(UsageOf(u, n).in, in), out |-> SatAdd(UsageOf(u, n).out, out)]
                 ELSE u[n]]

(* Defect: what both sides used is taken once.                              *)
MergeReplacing(u, v) ==
    [n \in DOMAIN u \cup DOMAIN v |-> IF n \in DOMAIN v THEN v[n] ELSE u[n]]

Merge(u, v) ==
    [n \in DOMAIN u \cup DOMAIN v |->
        [in |-> SatAdd(UsageOf(u, n).in, UsageOf(v, n).in),
         out |-> SatAdd(UsageOf(u, n).out, UsageOf(v, n).out)]]

Totals(u) ==
    [in |-> FoldSet(LAMBDA m, s : SatAdd(u[m].in, s), 0, DOMAIN u),
     out |-> FoldSet(LAMBDA m, s : SatAdd(u[m].out, s), 0, DOMAIN u)]

(* dominant: the most tokens, and of equals the first name.                 *)
Dominant(u) ==
    LET Used(m) == SatAdd(u[m].in, u[m].out)
    IN  {m \in DOMAIN u : \A n \in DOMAIN u : Used(n) < Used(m) \/ (Used(n) = Used(m) /\ m <= n)}

CostEstimated(u) == DOMAIN u \ PricedModels # {}

(* InvocationRecord::create: the model it names, or the attributed one.     *)
Recorded(u, attributed) ==
    [model |-> IF u = NoUsage THEN attributed ELSE CHOOSE m \in Dominant(u) : TRUE,
     in |-> Totals(u).in, out |-> Totals(u).out,
     models |-> DOMAIN u, estimated |-> CostEstimated(u)]
=============================================================================
