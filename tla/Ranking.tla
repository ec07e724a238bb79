-------------------------------- MODULE Ranking --------------------------------
(***************************************************************************)
(* Recall: the order memories are returned in (memory/ranking.rs) and the  *)
(* cut recall makes of it (memory/tools.rs).  Relevance, the trust bonus   *)
(* and the recency bonus are whole hundredths; the cosine of two           *)
(* embeddings is a field of the memory, and the exponential decay of its   *)
(* age takes one of the values 0..RecencyWeight.                           *)
(***************************************************************************)
EXTENDS Integers, Sequences, FiniteSets, SequencesExt

CONSTANTS
    TrustEpsilon,   \* TRUST_EPSILON, in hundredths
    RecencyWeight,  \* RECENCY_WEIGHT, in hundredths
    RecallLimitMax  \* MEMORY_RECALL_LIMIT_MAX

ASSUME RankingAssumption ==
    /\ TrustEpsilon \in Nat /\ RecencyWeight \in Nat
    /\ RecallLimitMax \in Nat \ {0}

(* A memory as recall sees it.                                              *)
IsMemory(m) ==
    /\ m = [id |-> m.id, relevance |-> m.relevance, recency |-> m.recency, trusted |-> m.trusted,
            kind |-> m.kind, active |-> m.active]
    /\ m.id \in Nat /\ m.relevance \in Int /\ m.recency \in 0..RecencyWeight
    /\ m.trusted \in BOOLEAN /\ m.active \in BOOLEAN

(* The score a memory is ordered by.                                        *)
Effective(m) ==
    m.relevance + m.recency + (IF m.trusted THEN TrustEpsilon ELSE 0)

(* Defect: equal scores keep the order the store returned them in.          *)
OutranksByPlace(ms, i, j) ==
    \/ Effective(ms[i]) > Effective(ms[j])
    \/ Effective(ms[i]) = Effective(ms[j]) /\ i < j

(* The total order of rank: the score, then the identifier.                 *)
Outranks(ms, i, j) ==
    \/ Effective(ms[i]) > Effective(ms[j])
    \/ Effective(ms[i]) = Effective(ms[j]) /\ ms[i].id < ms[j].id

(* rank: the memories at some places of the store, in that order.           *)
Rank(ms, places) ==
    [k \in 1..Cardinality(places) |->
        ms[CHOOSE i \in places : Cardinality({j \in places : Outranks(ms, j, i)}) = k - 1]]

(* recall: the active memories of the kind asked for, the first `limit`.    *)
Wanted(ms, kind) == {i \in DOMAIN ms : ms[i].active /\ kind \in {"any", ms[i].kind}}

Recall(ms, kind, limit) ==
    LET ranked == Rank(ms, Wanted(ms, kind))
    IN  SubSeq(ranked, 1, IF limit < Len(ranked) THEN limit ELSE Len(ranked))

(* touch_reinforcement: what was returned counts as new again.              *)
Reinforce(ms, returned) ==
    [i \in DOMAIN ms |->
        IF \E k \in DOMAIN returned : returned[k].id = ms[i].id
        THEN [ms[i] EXCEPT !.recency = RecencyWeight] ELSE ms[i]]
=============================================================================
