-------------------------------- MODULE Review --------------------------------
(***************************************************************************)
(* What the end-of-turn review is shown and what is made of its answer     *)
(* (checkpoint/review.rs, preference.rs), and what the pre-action gate     *)
(* holds on (gate.rs): pure functions of a window of the transcript, the   *)
(* final message and the memories of the store.                            *)
(*                                                                         *)
(* A statement is the set of its content words, the set of its polarity    *)
(* cues and whether it is long enough to be a committed one; a message is  *)
(* a sequence of statements; a memory carries its cosine to the query.     *)
(***************************************************************************)
EXTENDS Integers, FiniteSets, Sequences, SequencesExt, Sorting

CONSTANTS
    OverlapMin,         \* OVERLAP_MIN
    CandidatesMax,      \* REVIEW_CANDIDATES_MAX
    ReviewFloor,        \* REVIEW_RECALL_FLOOR
    GateTau             \* GATE_RELEVANCE_TAU

ASSUME ReviewAssumption ==
    /\ OverlapMin \in Nat /\ CandidatesMax \in Nat \ {0}
    /\ GateTau \in Nat /\ ReviewFloor \in Nat /\ GateTau >= ReviewFloor

(* The statements, messages, entries and memories of a review.              *)
IsStatement(s) == IsFiniteSet(s.words) /\ s.long \in BOOLEAN

IsMessage(m) == m \in Seq(ToSet(m)) /\ \A k \in DOMAIN m : IsStatement(m[k])

IsEntry(e) == e.type = "call" \/ (e.type = "assistant" /\ IsMessage(e.says))

IsRemembered(m) == m.score \in Int /\ IsStatement(m.says) /\ m.active \in BOOLEAN

Overlap(a, b) == Cardinality(a.words \cap b.words)

(* Some cue is in one of the two and not in the other.                      *)
OpposingPolarity(a, b) == a.cues # b.cues

(* sentences: the statements of committed length.                           *)
Committed(message) == Filtered(message, LAMBDA s : s.long)

(* truncate: the start of a message that commits to nothing.                *)
Opening(message) ==
    [words |-> UNION {message[k].words : k \in DOMAIN message},
     cues |-> UNION {message[k].cues : k \in DOMAIN message}, long |-> FALSE]

(* summarize_calls: what tools did, as the hop is told it.                  *)
Summary(entries) ==
    LET calls == {k \in DOMAIN entries : entries[k].type = "call"}
    IN  [total |-> Cardinality(calls), failed |-> Cardinality({k \in calls : entries[k].failed}),
         tools |-> {entries[k].tool : k \in calls}]

IsConstraint(m) == m.kind \in {"lesson", "fact"} /\ m.trusted /\ m.active

(* rank_recall: the active memories at or above the floor, the most         *)
(* relevant first.                                                          *)
RankRecall(memories) ==
    StableDescending(Filtered(memories, LAMBDA m : m.active /\ m.score >= ReviewFloor),
                     LAMBDA m : m.score)

(* The candidate a stored decision makes: with the statement of the final   *)
(* message nearest to it, over everything the window shows.                 *)
StoredCandidate(entries, message, m) ==
    LET final == Committed(message)
    IN  [earlier |-> m.says, between |-> Summary(entries),
         final |-> IF final = <<>> THEN Opening(message)
                   ELSE final[LastMax(final, LAMBDA s : Overlap(m.says, s))]]

(* The candidates an assistant entry makes with the final message.          *)
EntryCandidates(entries, message, k) ==
    LET final == Committed(message)
        since == Summary(SubSeq(entries, k + 1, Len(entries)))
        OpposedTo(s) == Filtered(final, LAMBDA f : Overlap(s, f) >= OverlapMin /\ OpposingPolarity(s, f))
        Pairs(s) == LET opposed == OpposedTo(s)
                    IN  [i \in DOMAIN opposed |-> [earlier |-> s, final |-> opposed[i], between |-> since]]
        said == Committed(entries[k].says)
    IN  IF entries[k].type = "call" \/ entries[k].says = message THEN <<>>
        ELSE FlattenSeq([i \in DOMAIN said |-> Pairs(said[i])])

SamePair(c, d) == c.earlier = d.earlier /\ c.final = d.final

(* The first candidate of each pair.                                        *)
Deduplicated(candidates) ==
    LET kept == {i \in DOMAIN candidates : \A j \in 1..(i - 1) : ~SamePair(candidates[j], candidates[i])}
    IN  Picked(candidates, kept)

AllCandidates(entries, message, recall) ==
    LET held == Filtered(recall, LAMBDA m : m.score >= ReviewFloor /\ IsConstraint(m))
    IN  [i \in DOMAIN held |-> StoredCandidate(entries, message, held[i])]
        \o FlattenSeq([k \in DOMAIN entries |-> EntryCandidates(entries, message, k)])

(* Defect: the cap is applied first, and repeats use it up.                 *)
MineCandidatesCapped(entries, message, recall) ==
    Deduplicated(Shortened(AllCandidates(entries, message, recall), CandidatesMax))

(* mine_candidates.                                                         *)
MineCandidates(entries, message, recall) ==
    Shortened(Deduplicated(AllCandidates(entries, message, recall)), CandidatesMax)

(* mine_preference_candidates.                                              *)
MinePreferences(recall) == Shortened(Filtered(recall, IsConstraint), CandidatesMax)

(* constraint_hold: the memory a pending action is held on, if any.         *)
ConstraintHold(memories) ==
    LET near == Filtered(memories, LAMBDA m : IsConstraint(m) /\ m.score >= GateTau)
    IN  IF near = <<>> THEN {} ELSE {near[FirstMax(near, LAMBDA m : m.score)]}

(* review_once: the signals raised from the hop's answer, which echoes what *)
(* it judged, each with the identity the cooldown goes by.                  *)
Contradiction(answer, candidates) ==
    IF ~answer.contradicts \/ candidates = <<>> THEN <<>>
    ELSE LET c == candidates[LastMax(candidates, LAMBDA d :
                        Overlap(d.earlier, answer.earlier) + Overlap(d.final, answer.final))]
         IN  <<[kind |-> "self_contradiction", of |-> <<c.earlier, c.final>>]>>

ViolationOf(answer, preferences) ==
    IF ~answer.violates \/ preferences = <<>> THEN <<>>
    ELSE <<[kind |-> "preference_violation",
            of |-> preferences[LastMax(preferences, LAMBDA p : Overlap(p.says, answer.preference))]]>>

Proposal(answer, capturing) ==
    IF capturing /\ answer.worthy /\ ~answer.blank /\ answer.kind # "none" THEN {answer.kind} ELSE {}
===============================================================================
